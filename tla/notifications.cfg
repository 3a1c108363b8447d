SPECIFICATION FairSpec
CONSTANTS
    j1 = j1  j2 = j2
    Jobs <- TwoJobs
    Types = {"CONFIRMED", "WELCOME_EMAIL"}
    Attempts = 2
    Concurrency = 1
    MaxStalls = 1
    Contacts <- All
    SettingsInputs <- OneSetting
    MaxEdits = 1
INVARIANTS
    TypeOK
    DuplicatesOnlyByCrash
PROPERTIES
    SettingsHonoured
    EveryJobEnds
CHECK_DEADLOCK FALSE
