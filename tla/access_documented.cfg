SPECIFICATION SpecFew
CONSTANTS
    Creations = {c1, c2}
    Registrations = {r1, r2}
    Edits = {e1, e2}
    Users = {founder, u1}
    Slugs = {s1, s2}
    Platform = platform
    PlatformSlug = superadmin
    Founder = founder
    None = none
    Fragile <- FragileNames
    MaxAway = 2
    Together = 3
SYMMETRY Symmetric
INVARIANT
    SeededRolesAreAsDocumented
CHECK_DEADLOCK FALSE
