SPECIFICATION Spec
CONSTANTS
    r1 = r1  r2 = r2  r3 = r3  u1 = u1  u2 = u2  p1 = p1  p2 = p2  t1 = t1  t2 = t2
    Requests <- TwoRequests
    Users <- TwoUsers
    Products <- OneProduct
    Tenants <- OneTenant
    Home <- InFirst
    CouponHome = t1
    Kinds = {"checkout"}
    InitialStock = 3
    LineAmounts = {2}
    AddAmounts = {1}
    NewAmounts = {2}
    StockInputs = {3}
    Coupons = {FALSE}
    StatusInputs = {}
    MaxInFlight = 1
    MaxAdmin = 0
INVARIANT
    StockNeverNegative
CHECK_DEADLOCK FALSE
