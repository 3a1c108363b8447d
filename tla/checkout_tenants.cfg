SPECIFICATION Spec
CONSTANTS
    r1 = r1  r2 = r2  r3 = r3  u1 = u1  u2 = u2  p1 = p1  p2 = p2  t1 = t1  t2 = t2
    Requests <- TwoRequests
    Users <- TwoUsers
    Products <- TwoProducts
    Tenants <- TwoTenants
    Home <- Split
    CouponHome = t1
    Kinds = {"add", "remove", "clear", "checkout", "updateOrder"}
    InitialStock = 3
    LineAmounts = {1}
    AddAmounts = {1}
    NewAmounts = {2}
    StockInputs = {3}
    Coupons = {FALSE, TRUE}
    StatusInputs = {"PAGADO"}
    MaxInFlight = 2
    MaxAdmin = 1
PROPERTIES
    LedgerButForLostUpdates
    LinesLeaveForAReason
SYMMETRY TwoTenantSymmetry
CHECK_DEADLOCK FALSE
