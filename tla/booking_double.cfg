SPECIFICATION Spec
CONSTANTS
    r1 = r1  r2 = r2  r3 = r3  r4 = r4  w1 = w1  w2 = w2  s1 = s1  s2 = s2
    Requests <- TwoRequests
    Staff <- OneStaff
    Services <- OneService
    Starts = {0, 1}
    Durations = {2}
    EditDurations = {2}
    Codes = {FALSE}
    StatusInputs = {}
    Limits = {1}
    NoLimit = NoLimit
    WorkStart = 0
    WorkEnd = 3
    SlotStep = 1
    Offsets = {0}
    ReadFrom = 0
    ReadUntil = 4
    MaxInFlight = 2
    MaxAdmin = 0
    MaxOrders = 0
INVARIANT
    NoDoubleBooking
CHECK_DEADLOCK FALSE
