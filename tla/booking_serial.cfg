SPECIFICATION Spec
CONSTANTS
    r1 = r1  r2 = r2  r3 = r3  r4 = r4  w1 = w1  w2 = w2  s1 = s1  s2 = s2
    Requests <- ThreeRequests
    Staff <- OneStaff
    Services <- OneService
    Starts = {0, 1}
    Durations = {2}
    EditDurations = {1}
    Codes = {FALSE}
    StatusInputs = {"CONFIRMED", "CANCELLED", "COMPLETED", "IN_PROGRESS"}
    Limits = {1}
    NoLimit = NoLimit
    WorkStart = 1
    WorkEnd = 3
    SlotStep = 1
    Offsets = {0, 1}
    ReadFrom = 1
    ReadUntil = 4
    MaxInFlight = 1
    MaxAdmin = 2
    MaxOrders = 1
INVARIANTS
    OffersDifferAsListed
    NeverInProgress
PROPERTY
    ImplementsCalendar
SYMMETRY RequestSymmetry
CHECK_DEADLOCK FALSE
