SPECIFICATION SeededSpec
CONSTANTS
    u1 = u1  main = main  shop = shop
    super = super  clerk = clerk  global = global
    p = p  q = q  none = none
    Users <- OneUser
    Tenants <- TwoTenants
    Roles <- ThreeRoles
    Permissions <- TwoPermissions
    Requests = {r1}
    Admins = {a1}
    Home <- Homes
    Platform = main
    SuperRole = super
    Protected = {}
    StaffRoles <- StaffOfShop
    None = none
    TTL = 1
    Latency = 1
    MaxTime = 3
    MaxChanges = 2
INVARIANTS
    TypeOK
    RolesAreOwnOrGlobal
    StaleEntriesAreExcused
PROPERTIES
    KeepsPromise
SYMMETRY PermissionSymmetry
CHECK_DEADLOCK FALSE
