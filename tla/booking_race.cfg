SPECIFICATION Spec
CONSTANTS
    r1 = r1  r2 = r2  r3 = r3  r4 = r4  w1 = w1  w2 = w2  s1 = s1  s2 = s2
    Requests <- ThreeRequests
    Staff <- OneStaff
    Services <- OneService
    Starts = {0, 1}
    Durations = {1}
    EditDurations = {3}
    Codes = {FALSE, TRUE}
    StatusInputs = {"CONFIRMED", "NO_SHOW"}
    Limits = {0, 1}
    NoLimit = NoLimit
    WorkStart = 0
    WorkEnd = 4
    SlotStep = 1
    Offsets = {0}
    ReadFrom = 0
    ReadUntil = 4
    MaxInFlight = 2
    MaxAdmin = 1
    MaxOrders = 0
INVARIANTS
    TypeOK
    CouponOvershootBounded
    OverlapOnlyByRace
    NoticesBeliedOnlyByRace
PROPERTIES
    FinalChangedOnlyByStaleRead
    ImplementsLooseCalendar
    CalendarButForRaces
SYMMETRY RequestSymmetry
CHECK_DEADLOCK FALSE
