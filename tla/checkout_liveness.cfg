SPECIFICATION FairSpec
CONSTANTS
    r1 = r1  r2 = r2  r3 = r3  u1 = u1  u2 = u2  p1 = p1  p2 = p2  t1 = t1  t2 = t2
    Requests <- TwoRequests
    Users <- OneUser
    Products <- TwoProducts
    Tenants <- OneTenant
    Home <- InFirst
    CouponHome = t1
    Kinds = {"create", "add", "change", "remove", "clear", "checkout", "changeStatus", "updateOrder"}
    InitialStock = 3
    LineAmounts = {1}
    AddAmounts = {1}
    NewAmounts = {2}
    StockInputs = {3}
    Coupons = {FALSE, TRUE}
    StatusInputs = {"PAGADO"}
    MaxInFlight = 2
    MaxAdmin = 1
PROPERTY
    EveryRequestEnds
CHECK_DEADLOCK FALSE
