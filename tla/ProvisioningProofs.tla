-------------------------- MODULE ProvisioningProofs --------------------------
(* Theorems about Provisioning, for any number of creations, registrations   *)
(* and edits, any users and slugs, and whatever is deleted meanwhile.        *)
EXTENDS Provisioning, TLAPS

------------------------------------------------------------------------------
(* Roles of a new tenant *)

\* A new tenant has three roles.
LEMMA DefaultRoleNames ==
    /\ DOMAIN DefaultRoles = {"ADMIN", "STAFF", "USER"}
    /\ {"ADMIN", "STAFF", "USER"} \subseteq RoleNames
    /\ \A name \in DOMAIN DefaultRoles : DefaultRoles[name] \subseteq DefaultPermissions
<1>1. DOMAIN DefaultRoles = {"ADMIN", "STAFF", "USER"}
  BY DEF DefaultRoles
<1>2. \A name \in {"ADMIN", "STAFF", "USER"} : DefaultRoles[name] \subseteq DefaultPermissions
  BY DEF DefaultRoles
<1> QED BY <1>1, <1>2 DEF RoleNames

\* They are created one after the other, and then the creator is let in.
LEMMA RolesInOrder ==
    /\ RoleOrder[1] = "ADMIN"
    /\ After("ADMIN") = "STAFF" /\ After("STAFF") = "USER" /\ After("USER") = "addTenant"
<1>1. DOMAIN RoleOrder = 1..3 /\ Len(RoleOrder) = 3
      /\ RoleOrder[1] = "ADMIN" /\ RoleOrder[2] = "STAFF" /\ RoleOrder[3] = "USER"
  BY DEF RoleOrder
<1>2. (CHOOSE i \in DOMAIN RoleOrder : RoleOrder[i] = "ADMIN") = 1
  BY <1>1
<1>3. (CHOOSE i \in DOMAIN RoleOrder : RoleOrder[i] = "STAFF") = 2
  BY <1>1
<1>4. (CHOOSE i \in DOMAIN RoleOrder : RoleOrder[i] = "USER") = 3
  BY <1>1
<1> QED BY <1>1, <1>2, <1>3, <1>4 DEF After

------------------------------------------------------------------------------
(* Shapes *)

CreationSteps == {"idle", "duplicate", "create", "findPermission", "createPermission",
                  "ADMIN", "STAFF", "USER", "addTenant", "success", "failed"}
RegistrationSteps == {"idle", "findByEmail", "duplicate", "createUser", "findRole", "addTenant",
                      "welcome", "success", "failed"}
EditSteps == {"idle", "write", "success", "failed"}

\* The tables are functions of what they should be.
TablesTyped ==
    /\ state \in [Tenants -> {"none", "active", "inactive", "deleted"}]
    /\ slug \in [Tenants -> Slugs \cup {PlatformSlug, None}]
    /\ config \in [Tenants -> SUBSET Edits]
    /\ grants = [ro \in Roles |-> grants[ro]]
    /\ exists \subseteq Users
    /\ member \in [Keys -> Roles \cup {None}]
    /\ seen \in [Edits -> SUBSET Edits]
    /\ before \in [Edits -> SUBSET Edits]

\* A request is where its kind can be, and is about something of its kind.
Placed(r) ==
    /\ r \in Creations => pc[r] \in CreationSteps
    /\ r \in Registrations => pc[r] \in RegistrationSteps
    /\ r \in Edits => pc[r] \in EditSteps

Signed == {"findByEmail", "duplicate", "createUser", "findRole", "addTenant", "welcome", "success"}

About(r) ==
    /\ r \in Creations /\ pc[r] = "create" => wish[r] \in Slugs
    /\ r \in Registrations /\ pc[r] \in Signed =>
          \E u \in Users, t \in Tenants, x \in Roles \cup {None} :
              wish[r] = <<u, t, x>> /\ (pc[r] = "addTenant" => x \in Roles)
    /\ r \in Edits /\ pc[r] \in {"write", "success"} => wish[r] \in Tenants

RequestsTyped ==
    /\ pc = [r \in Requests |-> pc[r]]
    /\ wish = [r \in Requests |-> wish[r]]
    /\ \A r \in Requests : Placed(r) /\ About(r)

Shapes == TablesTyped /\ RequestsTyped

\* In the beginning there is the platform.
LEMMA InitShapes == Init => Shapes
<1> SUFFICES ASSUME Init PROVE Shapes
  OBVIOUS
<1>1. RequestsTyped
  BY DEF Init, InitAt, RequestsTyped, Placed, About, Signed, CreationSteps, RegistrationSteps, EditSteps
<1>2. <<Platform, "SUPER_ADMIN">> \in Roles
  <2>1. "SUPER_ADMIN" \in RoleNames
    BY DEF RoleNames, SeededRoles
  <2> QED BY <2>1 DEF Roles, Tenants
<1>3. member \in [Keys -> Roles \cup {None}]
  BY <1>2 DEF Init, InitAt
<1>4. exists \subseteq Users
  BY ProvisioningConstants DEF Init, InitAt
<1>5. grants = [ro \in Roles |-> grants[ro]]
  BY DEF Init, InitAt
<1>6. /\ state \in [Tenants -> {"none", "active", "inactive", "deleted"}]
      /\ slug \in [Tenants -> Slugs \cup {PlatformSlug, None}]
  BY DEF Init, InitAt
<1> QED BY <1>1, <1>3, <1>4, <1>5, <1>6 DEF Init, InitAt, Shapes, TablesTyped

\* The kinds of request are told apart.
LEMMA KindsOfRequest ==
    /\ \A c \in Creations : c \in Requests /\ c \in Tenants /\ c \notin Registrations /\ c \notin Edits
    /\ \A r \in Registrations : r \in Requests /\ r \notin Creations /\ r \notin Edits
    /\ \A e \in Edits : e \in Requests /\ e \notin Creations /\ e \notin Registrations
  BY ProvisioningConstants DEF Requests, Tenants

\* A step of one request moves no other.
LEMMA OneMoves ==
    ASSUME RequestsTyped, NEW r \in Requests, NEW step, Goto(r, step)
    PROVE  /\ pc' = [x \in Requests |-> pc'[x]]
           /\ pc'[r] = step /\ \A x \in Requests \ {r} : pc'[x] = pc[x]
  BY DEF RequestsTyped, Goto

\* It keeps the types of the requests if it keeps its own.
LEMMA OneMoved ==
    ASSUME RequestsTyped, NEW r \in Requests,
           pc' = [x \in Requests |-> pc'[x]], wish' = [x \in Requests |-> wish'[x]],
           \A x \in Requests \ {r} : pc'[x] = pc[x] /\ wish'[x] = wish[x],
           Placed(r)', About(r)'
    PROVE  RequestsTyped'
<1>1. ASSUME NEW x \in Requests \ {r} PROVE Placed(x)' /\ About(x)'
  <2>1. Placed(x) /\ About(x) /\ pc'[x] = pc[x] /\ wish'[x] = wish[x]
    BY DEF RequestsTyped
  <2> QED BY <2>1 DEF Placed, About
<1> QED BY <1>1 DEF RequestsTyped

\* The steps of the creation of a tenant.
LEMMA CreationMoves ==
    ASSUME RequestsTyped, NEW c \in Creations, CreateTenant(c)
    PROVE  /\ pc' = [x \in Requests |-> pc'[x]] /\ \A x \in Requests \ {c} : pc'[x] = pc[x]
           /\ FindBySlug(c) => pc[c] = "idle" /\ pc'[c] \in {"duplicate", "create"}
           /\ Create(c) => pc[c] = "create" /\ pc'[c] \in {"duplicate", "findPermission"}
           /\ FindPermissions(c) => pc[c] = "findPermission" /\ pc'[c] \in {"ADMIN", "createPermission"}
           /\ CreatePermission(c) => pc[c] = "createPermission" /\ pc'[c] \in {"failed", "findPermission"}
           /\ CreateRole(c) => \/ pc[c] = "ADMIN" /\ pc'[c] \in {"STAFF", "failed"}
                               \/ pc[c] = "STAFF" /\ pc'[c] \in {"USER", "failed"}
                               \/ pc[c] = "USER" /\ pc'[c] \in {"addTenant", "failed"}
           /\ AddCreator(c) => pc[c] = "addTenant" /\ pc'[c] \in {"success", "failed"}
<1>1. c \in Requests
  BY KindsOfRequest
<1>2. CASE FindBySlug(c)
  <2>1. pc[c] = "idle" /\ \E step \in {"duplicate", "create"} : Goto(c, step)
    BY <1>2 DEF FindBySlug, At
  <2> QED BY <1>1, <2>1, OneMoves DEF Create, FindPermissions, CreatePermission, CreateRole, AddCreator,
          At, DefaultRoles
<1>3. CASE Create(c)
  <2>1. pc[c] = "create" /\ \E step \in {"duplicate", "findPermission"} : Goto(c, step)
    BY <1>3 DEF Create, At
  <2> QED BY <1>1, <2>1, OneMoves DEF FindBySlug, FindPermissions, CreatePermission, CreateRole,
          AddCreator, At, DefaultRoles
<1>4. CASE FindPermissions(c)
  <2>1. pc[c] = "findPermission" /\ \E step \in {"ADMIN", "createPermission"} : Goto(c, step)
    BY <1>4, RolesInOrder DEF FindPermissions, At
  <2> QED BY <1>1, <2>1, OneMoves DEF FindBySlug, Create, CreatePermission, CreateRole,
          AddCreator, At, DefaultRoles
<1>5. CASE CreatePermission(c)
  <2>1. pc[c] = "createPermission" /\ \E step \in {"failed", "findPermission"} : Goto(c, step)
    BY <1>5 DEF CreatePermission, At
  <2> QED BY <1>1, <2>1, OneMoves DEF FindBySlug, Create, FindPermissions, CreateRole,
          AddCreator, At, DefaultRoles
<1>6. CASE CreateRole(c)
  <2>1. pc[c] \in {"ADMIN", "STAFF", "USER"} /\ \E step \in {"failed", After(pc[c])} : Goto(c, step)
    BY <1>6, DefaultRoleNames DEF CreateRole
  <2> QED BY <1>1, <2>1, OneMoves, RolesInOrder DEF FindBySlug, Create, FindPermissions,
          CreatePermission, AddCreator, At
<1>7. CASE AddCreator(c)
  <2>1. pc[c] = "addTenant" /\ \E step \in {"success", "failed"} : Goto(c, step)
    BY <1>7 DEF AddCreator, At
  <2> QED BY <1>1, <2>1, OneMoves DEF FindBySlug, Create, FindPermissions, CreatePermission,
          CreateRole, At, DefaultRoles
<1> QED BY <1>2, <1>3, <1>4, <1>5, <1>6, <1>7 DEF CreateTenant

\* The creation of a tenant keeps the shapes.
LEMMA CreationShapes ==
    ASSUME Shapes, NEW c \in Creations, CreateTenant(c)
    PROVE  Shapes'
<1>1. RequestsTyped /\ c \in Requests /\ c \in Tenants /\ c \notin Registrations /\ c \notin Edits
  BY KindsOfRequest DEF Shapes
<1>2. /\ pc' = [x \in Requests |-> pc'[x]] /\ \A x \in Requests \ {c} : pc'[x] = pc[x]
      /\ pc'[c] \in CreationSteps /\ (pc'[c] = "create" => FindBySlug(c))
  BY <1>1, CreationMoves DEF CreateTenant, CreationSteps
<1>3. RequestsTyped'
  <2>1. CASE FindBySlug(c)
    <3>1. PICK s \in Slugs : wish' = [wish EXCEPT ![c] = s]
      BY <2>1 DEF FindBySlug
    <3>2. /\ wish' = [x \in Requests |-> wish'[x]] /\ wish'[c] = s
          /\ \A x \in Requests \ {c} : wish'[x] = wish[x]
      BY <1>1, <3>1 DEF RequestsTyped
    <3>3. Placed(c)' /\ About(c)'
      BY <1>1, <1>2, <3>2 DEF Placed, About
    <3> QED BY <1>1, <1>2, <3>2, <3>3, OneMoved
  <2>2. CASE ~FindBySlug(c)
    <3>1. UNCHANGED wish
      BY <2>2 DEF CreateTenant, Create, FindPermissions, CreatePermission, CreateRole, AddCreator,
                  locals
    <3>2. Placed(c)' /\ About(c)'
      BY <1>1, <1>2, <2>2 DEF Placed, About
    <3> QED BY <1>1, <1>2, <3>1, <3>2, OneMoved DEF RequestsTyped
  <2> QED BY <2>1, <2>2
<1>4. TablesTyped'
  <2>1. CASE FindBySlug(c) \/ FindPermissions(c) \/ CreatePermission(c)
    BY <2>1 DEF FindBySlug, FindPermissions, CreatePermission, Shapes, TablesTyped, shop, access,
                counts
  <2>2. CASE Create(c)
    <3>1. wish[c] \in Slugs
      BY <1>1, <2>2, CreationMoves DEF RequestsTyped, About
    <3> QED BY <1>1, <2>2, <3>1 DEF Create, Shapes, TablesTyped, access, counts
  <2>3. CASE CreateRole(c)
    BY <2>3 DEF CreateRole, Shapes, TablesTyped, shop, locals, counts
  <2>4. CASE AddCreator(c)
    <3>1. <<c, "ADMIN">> \in Roles
      BY <1>1, DefaultRoleNames DEF Roles
    <3> QED BY <2>4, <3>1 DEF AddCreator, Shapes, TablesTyped, shop, locals, counts
  <2> QED BY <2>1, <2>2, <2>3, <2>4 DEF CreateTenant
<1> QED BY <1>3, <1>4 DEF Shapes

\* The steps of the registration of a user.
LEMMA RegistrationMoves ==
    ASSUME RequestsTyped, NEW r \in Registrations, Register(r)
    PROVE  /\ pc' = [x \in Requests |-> pc'[x]] /\ \A x \in Requests \ {r} : pc'[x] = pc[x]
           /\ Signup(r) => pc[r] = "idle" /\ pc'[r] \in {"failed", "findByEmail"}
           /\ FindByEmail(r) => pc[r] = "findByEmail" /\ pc'[r] \in {"duplicate", "createUser"}
           /\ CreateUser(r) => pc[r] = "createUser" /\ pc'[r] \in {"duplicate", "findRole"}
           /\ FindRole(r) => pc[r] = "findRole" /\ pc'[r] \in {"failed", "addTenant"}
           /\ AddMember(r) => pc[r] = "addTenant" /\ pc'[r] \in {"failed", "welcome"}
           /\ Welcome(r) => pc[r] = "welcome" /\ pc'[r] = "success"
<1>1. r \in Requests
  BY KindsOfRequest
<1> DEFINE Moves(from, to) == pc[r] = from /\ \E step \in to : Goto(r, step)
<1>2. /\ Signup(r) => Moves("idle", {"failed", "findByEmail"})
      /\ FindByEmail(r) => Moves("findByEmail", {"duplicate", "createUser"})
      /\ CreateUser(r) => Moves("createUser", {"duplicate", "findRole"})
      /\ FindRole(r) => Moves("findRole", {"failed", "addTenant"})
      /\ AddMember(r) => Moves("addTenant", {"failed", "welcome"})
      /\ Welcome(r) => Moves("welcome", {"success"})
  <2>1. Signup(r) => Moves("idle", {"failed", "findByEmail"})
    BY DEF Signup, At
  <2>2. FindByEmail(r) => Moves("findByEmail", {"duplicate", "createUser"})
    BY DEF FindByEmail, At
  <2>3. CreateUser(r) => Moves("createUser", {"duplicate", "findRole"})
    BY DEF CreateUser, At
  <2>4. FindRole(r) => Moves("findRole", {"failed", "addTenant"})
    BY DEF FindRole, At
  <2>5. AddMember(r) => Moves("addTenant", {"failed", "welcome"})
    BY DEF AddMember, At
  <2>6. Welcome(r) => Moves("welcome", {"success"})
    BY DEF Welcome, At
  <2> QED BY <2>1, <2>2, <2>3, <2>4, <2>5, <2>6
<1>3. \E step : Goto(r, step)
  BY <1>2 DEF Register
<1> QED BY <1>1, <1>2, <1>3, OneMoves

\* The registration of a user keeps the shapes.
LEMMA RegistrationShapes ==
    ASSUME Shapes, NEW r \in Registrations, Register(r)
    PROVE  Shapes'
<1>1. RequestsTyped /\ r \in Requests /\ r \notin Creations /\ r \notin Edits
  BY KindsOfRequest DEF Shapes
<1>2. /\ pc' = [x \in Requests |-> pc'[x]] /\ \A x \in Requests \ {r} : pc'[x] = pc[x]
      /\ pc'[r] \in RegistrationSteps
  BY <1>1, RegistrationMoves DEF Register, RegistrationSteps
<1>3. Placed(r)'
  BY <1>1, <1>2 DEF Placed
<1>4. RequestsTyped'
  <2>1. CASE Signup(r)
    <3>1. PICK u \in Users, named \in Tenants \cup {None} :
            LET found == ResolveTenant(named)
                t == IF found = None THEN ResolveTenant(Platform) ELSE found
            IN /\ wish' = [wish EXCEPT ![r] = <<u, t, None>>]
               /\ Goto(r, IF found # None /\ state[found] = "inactive" THEN "failed"
                          ELSE IF t = None THEN "failed" ELSE "findByEmail")
      BY <2>1 DEF Signup
    <3> DEFINE found == ResolveTenant(named)
               t == IF found = None THEN ResolveTenant(Platform) ELSE found
               step == IF found # None /\ state[found] = "inactive" THEN "failed"
                       ELSE IF t = None THEN "failed" ELSE "findByEmail"
    <3>2. t \in Tenants \cup {None}
      BY DEF ResolveTenant, Tenants
    <3>3. wish' = [wish EXCEPT ![r] = <<u, t, None>>] /\ Goto(r, step)
      BY <3>1
    <3>4. (step = "findByEmail" /\ t # None) \/ step = "failed"
      OBVIOUS
    <3> HIDE DEF t, step, found
    <3>5. /\ wish' = [x \in Requests |-> wish'[x]] /\ wish'[r] = <<u, t, None>>
          /\ \A x \in Requests \ {r} : wish'[x] = wish[x]
      BY <1>1, <3>3 DEF RequestsTyped
    <3>6. pc'[r] = step
      BY <1>1, <3>3, OneMoves
    <3>7. About(r)'
      BY <1>1, <3>2, <3>4, <3>5, <3>6 DEF About, Signed
    <3> QED BY <1>1, <1>2, <1>3, <3>5, <3>7, OneMoved
  <2>2. CASE FindRole(r) /\ ~UNCHANGED wish
    <3>1. PICK ro \in Roles : wish' = [wish EXCEPT ![r][3] = ro]
      BY <2>2 DEF FindRole, Visible
    <3>2. pc[r] = "findRole" /\ About(r)
      BY <1>1, <2>2, RegistrationMoves DEF RequestsTyped
    <3>3. PICK u \in Users, t \in Tenants, x \in Roles \cup {None} : wish[r] = <<u, t, x>>
      BY <3>2 DEF About, Signed
    <3>4. [<<u, t, x>> EXCEPT ![3] = ro] = <<u, t, ro>>
      OBVIOUS
    <3>5. /\ wish' = [y \in Requests |-> wish'[y]] /\ wish'[r] = <<u, t, ro>>
          /\ \A y \in Requests \ {r} : wish'[y] = wish[y]
      BY <1>1, <3>1, <3>3, <3>4 DEF RequestsTyped
    <3>6. About(r)'
      BY <1>1, <3>5 DEF About, Signed
    <3> QED BY <1>1, <1>2, <1>3, <3>5, <3>6, OneMoved
  <2>3. CASE ~Signup(r) /\ UNCHANGED wish
    <3>1. About(r) /\ wish' = [x \in Requests |-> wish'[x]]
      BY <1>1, <2>3 DEF RequestsTyped
    <3>2. pc[r] \in Signed
      BY <2>3, <1>1, RegistrationMoves DEF Register, Signed
    <3>3. pc'[r] = "addTenant" => \E u \in Users, t \in Tenants, x \in Roles : wish[r] = <<u, t, x>>
      <4>1. pc'[r] = "addTenant" => FindRole(r)
        BY <1>1, <2>3, RegistrationMoves DEF Register
      <4>2. FindRole(r) /\ pc'[r] = "addTenant" =>
              \E ro \in Visible(TenantOf(r), "USER") : wish' = [wish EXCEPT ![r][3] = ro]
        BY <1>1, OneMoves DEF FindRole
      <4>3. ASSUME NEW ro \in Roles, wish' = [wish EXCEPT ![r][3] = ro]
            PROVE  \E u \in Users, t \in Tenants, x \in Roles : wish[r] = <<u, t, x>>
        <5>1. PICK u \in Users, t \in Tenants, x \in Roles \cup {None} : wish[r] = <<u, t, x>>
          BY <3>1, <3>2 DEF About
        <5>2. [<<u, t, x>> EXCEPT ![3] = ro] = <<u, t, ro>>
          OBVIOUS
        <5>3. wish'[r] = <<u, t, ro>>
          BY <1>1, <4>3, <5>1, <5>2 DEF RequestsTyped
        <5> QED BY <2>3, <5>3
      <4> QED BY <4>1, <4>2, <4>3 DEF Visible
    <3>4. About(r)'
      BY <1>1, <2>3, <3>1, <3>2, <3>3 DEF About
    <3> QED BY <1>1, <1>2, <1>3, <2>3, <3>1, <3>4, OneMoved
  <2>4. Signup(r) \/ FindRole(r) \/ UNCHANGED wish
    BY DEF Register, FindByEmail, CreateUser, AddMember, Welcome, locals
  <2> QED BY <2>1, <2>2, <2>3, <2>4
<1>5. TablesTyped'
  <2>1. CASE Signup(r) \/ FindByEmail(r) \/ FindRole(r) \/ Welcome(r)
    BY <2>1 DEF Signup, FindByEmail, FindRole, Welcome, Shapes, TablesTyped, shop, access, locals,
                counts
  <2>2. CASE CreateUser(r)
    <3>1. pc[r] = "createUser" /\ About(r)
      BY <1>1, <2>2, RegistrationMoves DEF RequestsTyped
    <3>2. User(r) \in Users
      BY <3>1 DEF About, Signed, User
    <3> QED BY <2>2, <3>2 DEF CreateUser, Shapes, TablesTyped, shop, locals, counts
  <2>3. CASE AddMember(r)
    <3>1. pc[r] = "addTenant" /\ About(r)
      BY <1>1, <2>3, RegistrationMoves DEF RequestsTyped
    <3>2. wish[r][3] \in Roles
      BY <3>1 DEF About, Signed
    <3> QED BY <2>3, <3>2 DEF AddMember, Shapes, TablesTyped, shop, locals, counts
  <2> QED BY <2>1, <2>2, <2>3 DEF Register
<1> QED BY <1>4, <1>5 DEF Shapes
\* An edit of a tenant keeps the shapes.
LEMMA EditShapes ==
    ASSUME Shapes, NEW e \in Edits, FindTenant(e) \/ WriteTenant(e)
    PROVE  Shapes'
<1>1. RequestsTyped /\ e \in Requests /\ e \notin Creations /\ e \notin Registrations
  BY KindsOfRequest DEF Shapes
<1>2. CASE FindTenant(e)
  <2>1. PICK t \in Tenants : /\ wish' = [wish EXCEPT ![e] = t]
                             /\ seen' = [seen EXCEPT ![e] = config[t]]
    BY <1>2 DEF FindTenant
  <2>2. /\ pc' = [x \in Requests |-> pc'[x]] /\ \A x \in Requests \ {e} : pc'[x] = pc[x]
        /\ pc'[e] = "write"
    BY <1>1, <1>2, OneMoves DEF FindTenant
  <2>3. /\ wish' = [x \in Requests |-> wish'[x]] /\ wish'[e] = t
        /\ \A x \in Requests \ {e} : wish'[x] = wish[x]
    BY <1>1, <2>1 DEF RequestsTyped
  <2>4. Placed(e)' /\ About(e)'
    BY <1>1, <2>2, <2>3 DEF Placed, About, EditSteps
  <2>5. RequestsTyped'
    BY <1>1, <2>2, <2>3, <2>4, OneMoved
  <2>6. before' \in [Edits -> SUBSET Edits] /\ seen' \in [Edits -> SUBSET Edits]
    BY <1>2, <2>1 DEF FindTenant, Shapes, TablesTyped
  <2> QED BY <1>2, <2>5, <2>6 DEF FindTenant, Shapes, TablesTyped, shop, access
<1>3. CASE WriteTenant(e)
  <2>1. pc[e] = "write" /\ About(e)
    BY <1>1, <1>3 DEF WriteTenant, At, RequestsTyped
  <2>2. /\ pc' = [x \in Requests |-> pc'[x]] /\ \A x \in Requests \ {e} : pc'[x] = pc[x]
        /\ pc'[e] \in {"failed", "success"}
    BY <1>1, <1>3, OneMoves DEF WriteTenant
  <2>3. UNCHANGED wish
    BY <1>3 DEF WriteTenant, locals
  <2>4. Placed(e)' /\ About(e)'
    BY <1>1, <2>1, <2>2, <2>3 DEF Placed, About, EditSteps
  <2>5. RequestsTyped'
    BY <1>1, <2>2, <2>3, <2>4, OneMoved DEF RequestsTyped
  <2>6. Merge(e) \subseteq Edits
    BY DEF Merge, Shapes, TablesTyped
  <2>7. CASE UNCHANGED shop
    BY <1>3, <2>5, <2>7 DEF WriteTenant, Shapes, TablesTyped, shop, access, locals, counts
  <2>8. CASE ~UNCHANGED shop
    <3>1. /\ config' = [config EXCEPT ![wish[e]] = Merge(e)]
          /\ \/ UNCHANGED slug
             \/ \E s \in Slugs : slug' = [slug EXCEPT ![wish[e]] = s]
          /\ \E x \in {"active", "inactive"} : state' = [state EXCEPT ![wish[e]] = x]
      BY <1>3, <2>8 DEF WriteTenant
    <3>2. slug' \in [Tenants -> Slugs \cup {PlatformSlug, None}]
      BY <3>1 DEF Shapes, TablesTyped
    <3> QED BY <1>3, <2>5, <2>6, <3>1, <3>2 DEF WriteTenant, Shapes, TablesTyped, access, locals, counts
  <2> QED BY <2>7, <2>8
<1> QED BY <1>2, <1>3

\* Deletions and failures keep the shapes.
LEMMA OtherShapes ==
    ASSUME Shapes,
           \/ \E t \in Tenants : DeleteTenant(t)
           \/ \E p \in Fragile : DeletePermission(p)
           \/ \E r \in Requests : Fail(r)
           \/ UNCHANGED vars
    PROVE  Shapes'
<1>1. ASSUME UNCHANGED <<pc, wish>> PROVE RequestsTyped'
  BY <1>1 DEF Shapes, RequestsTyped, Placed, About
<1>2. ASSUME NEW t \in Tenants, DeleteTenant(t) PROVE Shapes'
  <2>1. TablesTyped'
    BY <1>2 DEF DeleteTenant, Shapes, TablesTyped, locals
  <2> QED BY <1>1, <1>2, <2>1 DEF DeleteTenant, Shapes, locals
<1>3. ASSUME NEW p \in Fragile, DeletePermission(p) PROVE Shapes'
  <2>1. TablesTyped'
    BY <1>3 DEF DeletePermission, Shapes, TablesTyped, shop
  <2> QED BY <1>1, <1>3, <2>1 DEF DeletePermission, Shapes
<1>4. ASSUME NEW r \in Requests, Fail(r) PROVE Shapes'
  <2>1. RequestsTyped /\ Placed(r) /\ About(r) /\ pc[r] # "idle"
    BY <1>4 DEF Fail, Working, Shapes, RequestsTyped
  <2>2. /\ pc' = [x \in Requests |-> pc'[x]] /\ \A x \in Requests \ {r} : pc'[x] = pc[x]
        /\ pc'[r] = "failed" /\ UNCHANGED wish
    BY <1>4, <2>1, OneMoves DEF Fail, locals
  <2>3. Placed(r)' /\ About(r)'
    BY <2>1, <2>2 DEF Placed, About, CreationSteps, RegistrationSteps, EditSteps, Signed
  <2>4. RequestsTyped'
    BY <2>1, <2>2, <2>3, OneMoved DEF RequestsTyped
  <2> QED BY <1>4, <2>4 DEF Fail, Shapes, TablesTyped, shop, access, locals, counts
<1>5. ASSUME UNCHANGED vars PROVE Shapes'
  BY <1>1, <1>5 DEF vars, shop, access, locals, counts, Shapes, TablesTyped
<1> QED BY <1>2, <1>3, <1>4, <1>5

\* Every step keeps the shapes.
LEMMA NextShapes == Shapes /\ [Next]_vars => Shapes'
  BY CreationShapes, RegistrationShapes, EditShapes, OtherShapes DEF Next

------------------------------------------------------------------------------
(* Edits *)

\* An edit that was lost has another that overlapped it.
Lost(f) ==
    \E g \in Edits \ {f} : /\ At(g, "success") /\ wish[g] = wish[f]
                          /\ f \notin before[g] /\ g \notin before[f]

\* What an edit has not read, although it was stored before, has been lost
\* to some other; so an edit that overwrites more overlaps what it overwrites.
EditInv ==
    /\ \A e, f \in Edits : f \in before[e] => At(f, "success")
    /\ \A f \in Edits : At(f, "success") /\ f \notin config[wish[f]] => Lost(f)
    /\ \A e, f \in Edits : At(e, "write") /\ f \in before[e] /\ wish[f] = wish[e] /\ f \notin seen[e]
                           => Lost(f)

\* A lost edit stays lost.
LEMMA LostStays ==
    ASSUME NEW f \in Edits, Lost(f),
           \A g \in Edits : At(g, "success") => /\ pc'[g] = "success" /\ wish'[g] = wish[g]
                                                /\ before'[g] = before[g],
           At(f, "success")
    PROVE  Lost(f)'
  BY DEF Lost, At

\* Edits keep EditInv.
LEMMA EditKeepsEdits ==
    ASSUME Shapes, EditInv, NEW e \in Edits, FindTenant(e) \/ WriteTenant(e)
    PROVE  EditInv'
<1>1. RequestsTyped /\ e \in Requests /\ \A f \in Edits : f \in Requests
  BY KindsOfRequest DEF Shapes
<1>2. CASE FindTenant(e)
  <2>1. PICK t \in Tenants : /\ wish' = [wish EXCEPT ![e] = t]
                             /\ seen' = [seen EXCEPT ![e] = config[t]]
    BY <1>2 DEF FindTenant
  <2>2. /\ pc[e] = "idle" /\ pc'[e] = "write" /\ \A f \in Edits \ {e} : pc'[f] = pc[f]
    BY <1>1, <1>2, OneMoves DEF FindTenant, At
  <2>3. /\ wish'[e] = t /\ \A f \in Edits \ {e} : wish'[f] = wish[f]
        /\ seen'[e] = config[t] /\ \A f \in Edits \ {e} : seen'[f] = seen[f]
        /\ before'[e] = {f \in Edits : At(f, "success")}
        /\ \A f \in Edits \ {e} : before'[f] = before[f]
    BY <1>1, <1>2, <2>1 DEF FindTenant, RequestsTyped, Shapes, TablesTyped
  <2>4. UNCHANGED config
    BY <1>2 DEF FindTenant, shop
  <2>5. \A f \in Edits : At(f, "success") <=> pc'[f] = "success"
    BY <2>2 DEF At
  <2>6. \A f \in Edits : At(f, "success") /\ Lost(f) => Lost(f)'
    <3>1. \A g \in Edits : At(g, "success") => /\ pc'[g] = "success" /\ wish'[g] = wish[g]
                                               /\ before'[g] = before[g]
      BY <2>2, <2>3 DEF At
    <3> QED BY <3>1, LostStays
  <2>7. \A f, g \in Edits : f \in before'[g] => pc'[f] = "success"
    BY <2>3, <2>5 DEF EditInv
  <2>8. \A f \in Edits : pc'[f] = "success" /\ f \notin config'[wish'[f]] => Lost(f)'
    BY <2>2, <2>3, <2>4, <2>5, <2>6 DEF EditInv
  <2>9. ASSUME NEW g \in Edits, NEW f \in Edits, pc'[g] = "write", f \in before'[g],
               wish'[f] = wish'[g], f \notin seen'[g]
        PROVE  Lost(f)'
    <3>1. At(f, "success") /\ f # e
      BY <2>2, <2>5, <2>7, <2>9
    <3>2. CASE g = e
      BY <2>3, <2>6, <2>9, <3>1, <3>2 DEF EditInv
    <3>3. CASE g # e
      BY <2>2, <2>3, <2>6, <2>9, <3>1, <3>3 DEF EditInv, At
    <3> QED BY <3>2, <3>3
  <2> QED BY <2>7, <2>8, <2>9 DEF EditInv, At
<1>3. CASE WriteTenant(e)
  <2>1. pc[e] = "write" /\ UNCHANGED <<wish, seen, before>>
    BY <1>3 DEF WriteTenant, At, locals, counts
  <2>2. pc'[e] \in {"failed", "success"} /\ \A f \in Edits \ {e} : pc'[f] = pc[f]
    BY <1>1, <1>3, OneMoves DEF WriteTenant
  <2>3. \A g \in Edits : At(g, "success") => g # e /\ pc'[g] = "success"
    BY <2>1, <2>2 DEF At
  <2>4. \A f \in Edits : At(f, "success") /\ Lost(f) => Lost(f)'
    BY <2>1, <2>3, LostStays
  <2>5. \A f, g \in Edits : f \in before'[g] => pc'[f] = "success" /\ f # e
    BY <2>1, <2>3 DEF EditInv
  <2>6. ASSUME NEW g \in Edits, NEW f \in Edits, pc'[g] = "write", f \in before'[g],
               wish'[f] = wish'[g], f \notin seen'[g]
        PROVE  Lost(f)'
    <3>1. At(g, "write") /\ At(f, "success")
      BY <2>1, <2>2, <2>6 DEF At, EditInv
    <3> QED BY <2>1, <2>4, <2>6, <3>1 DEF EditInv
  <2>7. ASSUME NEW f \in Edits, pc'[f] = "success", f \notin config'[wish'[f]]
        PROVE  Lost(f)'
    <3>1. CASE UNCHANGED config /\ f # e
      BY <2>1, <2>2, <2>4, <2>7, <3>1 DEF EditInv, At
    <3>2. CASE config' = [config EXCEPT ![wish[e]] = Merge(e)] /\ pc'[e] = "success"
      <4>1. wish[e] \in Tenants /\ e \in Merge(e)
        BY <1>1, <2>1 DEF RequestsTyped, About, Merge
      <4>2. f # e
        BY <2>1, <2>7, <3>2, <4>1 DEF Shapes, TablesTyped
      <4>3. At(f, "success")
        BY <2>2, <2>7, <4>2 DEF At
      <4>4. CASE f \notin config[wish[f]]
        BY <2>4, <4>3, <4>4 DEF EditInv
      <4>5. CASE f \in config[wish[f]]
        <5>1. wish[f] = wish[e] /\ f \notin seen[e]
          <6>1. wish[f] \in Tenants
            BY <1>1, <4>3 DEF RequestsTyped, About, At
          <6> QED BY <2>1, <2>7, <3>2, <4>1, <4>5, <6>1 DEF Shapes, TablesTyped, Merge
        <5>2. CASE f \in before[e]
          BY <2>1, <2>4, <4>3, <5>1, <5>2 DEF EditInv, At
        <5>3. CASE f \notin before[e]
          <6>1. e \notin before[f]
            BY <2>1 DEF EditInv, At
          <6> QED BY <2>1, <3>2, <4>2, <5>1, <5>3, <6>1 DEF Lost, At
        <5> QED BY <5>2, <5>3
      <4> QED BY <4>4, <4>5
    <3>3. CASE UNCHANGED config /\ f = e
      BY <1>3, <2>7, <3>3, <1>1, OneMoves, <2>1 DEF WriteTenant, Merge, RequestsTyped, About, Shapes, TablesTyped
    <3> QED BY <1>1, <1>3, <2>7, <3>1, <3>2, <3>3, OneMoves DEF WriteTenant, shop
  <2> QED BY <2>5, <2>6, <2>7 DEF EditInv, At
<1> QED BY <1>2, <1>3

\* Every step keeps EditInv.
LEMMA NextKeepsEdits == Shapes /\ EditInv /\ [Next]_vars => EditInv'
<1> SUFFICES ASSUME Shapes, EditInv, [Next]_vars PROVE EditInv'
  OBVIOUS
<1>1. ASSUME UNCHANGED <<config, seen, before>>,
             \A f \in Edits : /\ pc'[f] = "success" <=> pc[f] = "success"
                              /\ pc'[f] = "write" => pc[f] = "write"
                              /\ wish'[f] = wish[f]
      PROVE  EditInv'
  <2>1. \A f \in Edits : At(f, "success") /\ Lost(f) => Lost(f)'
    BY <1>1, LostStays DEF At
  <2>2. \A e, f \in Edits : f \in before'[e] => pc'[f] = "success"
    BY <1>1 DEF EditInv, At
  <2>3. \A f \in Edits : pc'[f] = "success" /\ f \notin config'[wish'[f]] => Lost(f)'
    BY <1>1, <2>1 DEF EditInv, At
  <2>4. \A e, f \in Edits : pc'[e] = "write" /\ f \in before'[e] /\ wish'[f] = wish'[e]
                            /\ f \notin seen'[e] => Lost(f)'
    BY <1>1, <2>1 DEF EditInv, At
  <2> QED BY <2>2, <2>3, <2>4 DEF EditInv, At
<1>2. RequestsTyped
  BY DEF Shapes
<1>3. ASSUME NEW c \in Creations, CreateTenant(c) PROVE EditInv'
  <2>1. \A f \in Edits : pc'[f] = pc[f] /\ wish'[f] = wish[f]
    <3>1. \A f \in Edits : pc'[f] = pc[f]
      BY <1>2, <1>3, CreationMoves, KindsOfRequest
    <3>2. \A f \in Edits : wish'[f] = wish[f]
      BY <1>2, <1>3, KindsOfRequest DEF CreateTenant, FindBySlug, Create, FindPermissions,
         CreatePermission, CreateRole, AddCreator, locals, RequestsTyped
    <3> QED BY <3>1, <3>2
  <2>2. UNCHANGED <<config, seen, before>>
    BY <1>3 DEF CreateTenant, FindBySlug, Create, FindPermissions, CreatePermission, CreateRole,
       AddCreator, shop, locals, counts
  <2> QED BY <1>1, <2>1, <2>2
<1>4. ASSUME NEW r \in Registrations, Register(r) PROVE EditInv'
  <2>1. \A f \in Edits : pc'[f] = pc[f] /\ wish'[f] = wish[f]
    <3>1. \A f \in Edits : pc'[f] = pc[f]
      BY <1>2, <1>4, RegistrationMoves, KindsOfRequest
    <3>2. \A f \in Edits : wish'[f] = wish[f]
      BY <1>2, <1>4, KindsOfRequest DEF Register, Signup, FindByEmail, CreateUser, FindRole,
         AddMember, Welcome, locals, RequestsTyped
    <3> QED BY <3>1, <3>2
  <2>2. UNCHANGED <<config, seen, before>>
    BY <1>4 DEF Register, Signup, FindByEmail, CreateUser, FindRole, AddMember, Welcome, shop,
       locals, counts
  <2> QED BY <1>1, <2>1, <2>2
<1>5. ASSUME NEW r \in Requests, Fail(r) PROVE EditInv'
  <2>1. /\ pc'[r] = "failed" /\ pc[r] # "success" /\ \A x \in Requests \ {r} : pc'[x] = pc[x]
    BY <1>2, <1>5, OneMoves DEF Fail, Working
  <2>2. UNCHANGED <<config, seen, before, wish>>
    BY <1>5 DEF Fail, shop, locals, counts
  <2> QED BY <1>1, <2>1, <2>2, KindsOfRequest
<1>6. ASSUME \/ \E t \in Tenants : DeleteTenant(t)
             \/ \E p \in Fragile : DeletePermission(p)
             \/ UNCHANGED vars
      PROVE  EditInv'
  <2>1. UNCHANGED <<config, seen, before, pc, wish>>
    BY <1>6 DEF DeleteTenant, DeletePermission, vars, shop, locals, counts
  <2> QED BY <1>1, <2>1
<1> QED BY <1>3, <1>4, <1>5, <1>6, EditKeepsEdits DEF Next

\* Whatever else is created, registered and deleted, and however edits are
\* interleaved: an edit whose values are gone overlapped one that was stored.
THEOREM OnlyConcurrentEditsAreLost == Spec => []EditsAreLostToConcurrentOnes
<1>1. Init => EditInv
  BY KindsOfRequest DEF Init, InitAt, EditInv, At
<1>2. EditInv => EditsAreLostToConcurrentOnes
  BY DEF EditInv, EditsAreLostToConcurrentOnes, Lost
<1> QED BY <1>1, <1>2, InitShapes, NextShapes, NextKeepsEdits, PTL DEF Spec

------------------------------------------------------------------------------
(* Names *)

\* A registration that has created its user.
Past(r) == pc[r] \in {"findRole", "addTenant", "welcome", "success"}

NamesInv ==
    /\ \A t, x \in Tenants : Present(t) /\ Present(x) /\ slug[t] = slug[x] => t = x
    /\ \A r \in Registrations : Past(r) => wish[r][1] \in exists
    /\ \A r, x \in Registrations : Past(r) /\ Past(x) /\ wish[r][1] = wish[x][1] => r = x

\* What is taken stays taken, so whoever writes next must ask for another.
LEMMA SlugsStayUnique ==
    ASSUME TablesTyped,
           \A t, x \in Tenants : Present(t) /\ Present(x) /\ slug[t] = slug[x] => t = x,
           NEW n \in Tenants, NEW s, ~SlugTaken(s),
           \A t \in Tenants \ {n} : slug'[t] = slug[t] /\ (Present(t)' => Present(t)),
           slug'[n] = s \/ (slug'[n] = slug[n] /\ Present(n))
    PROVE  \A t, x \in Tenants : Present(t)' /\ Present(x)' /\ slug'[t] = slug'[x] => t = x
  BY DEF SlugTaken

\* The steps of a creation, of an edit and the deletions keep slugs unique.
LEMMA NextKeepsSlugs ==
    ASSUME Shapes, NamesInv, [Next]_vars
    PROVE  \A t, x \in Tenants : Present(t)' /\ Present(x)' /\ slug'[t] = slug'[x] => t = x
<1>0. TablesTyped /\ \A t, x \in Tenants : Present(t) /\ Present(x) /\ slug[t] = slug[x] => t = x
  BY DEF Shapes, NamesInv
<1>1. ASSUME UNCHANGED slug, \A t \in Tenants : Present(t)' => Present(t)
      PROVE  \A t, x \in Tenants : Present(t)' /\ Present(x)' /\ slug'[t] = slug'[x] => t = x
  BY <1>0, <1>1
<1>2. CASE \E c \in Creations : Create(c) /\ ~UNCHANGED <<state, slug>>
  <2>1. PICK c \in Creations : Create(c) /\ ~UNCHANGED <<state, slug>>
    BY <1>2
  <2>2. /\ ~SlugTaken(wish[c]) /\ slug' = [slug EXCEPT ![c] = wish[c]]
        /\ state' = [state EXCEPT ![c] = "active"] /\ c \in Tenants
    BY <2>1, KindsOfRequest DEF Create
  <2>3. /\ \A t \in Tenants \ {c} : slug'[t] = slug[t] /\ state'[t] = state[t]
        /\ slug'[c] = wish[c]
    BY <1>0, <2>2 DEF TablesTyped
  <2> QED BY <1>0, <2>2, <2>3, SlugsStayUnique DEF Present
<1>3. CASE \E e \in Edits : WriteTenant(e) /\ ~UNCHANGED shop
  <2>1. PICK e \in Edits : WriteTenant(e) /\ ~UNCHANGED shop
    BY <1>3
  <2>2. Present(wish[e]) /\ wish[e] \in Tenants
    BY <2>1, KindsOfRequest DEF WriteTenant, Shapes, RequestsTyped, About, At
  <2>3. \A t \in Tenants \ {wish[e]} : state'[t] = state[t]
    BY <1>0, <2>1, <2>2 DEF WriteTenant, TablesTyped
  <2>4. CASE UNCHANGED slug
    <3>1. \A t \in Tenants : Present(t)' => Present(t)
      BY <2>2, <2>3 DEF Present
    <3> QED BY <1>1, <2>4, <3>1
  <2>5. CASE \E s \in Slugs : ~SlugTaken(s) /\ slug' = [slug EXCEPT ![wish[e]] = s]
    <3>1. PICK s \in Slugs : ~SlugTaken(s) /\ slug' = [slug EXCEPT ![wish[e]] = s]
      BY <2>5
    <3>2. slug'[wish[e]] = s /\ \A t \in Tenants \ {wish[e]} : slug'[t] = slug[t]
      BY <1>0, <2>2, <3>1 DEF TablesTyped
    <3> DEFINE n == wish[e]
    <3>3. n \in Tenants /\ ~SlugTaken(s) /\ slug'[n] = s
          /\ \A t \in Tenants \ {n} : slug'[t] = slug[t] /\ (Present(t)' => Present(t))
      BY <2>2, <2>3, <3>1, <3>2 DEF Present
    <3> HIDE DEF n
    <3> QED BY <1>0, <3>3, SlugsStayUnique
  <2> QED BY <2>1, <2>4, <2>5 DEF WriteTenant
<1>4. CASE \E t \in Tenants : DeleteTenant(t)
  <2>1. UNCHANGED slug /\ \A t \in Tenants : Present(t)' => Present(t)
    BY <1>0, <1>4 DEF DeleteTenant, Present, TablesTyped
  <2> QED BY <1>1, <2>1
<1>5. CASE UNCHANGED <<state, slug>>
  <2>1. \A t \in Tenants : Present(t)' => Present(t)
    BY <1>5 DEF Present
  <2> QED BY <1>1, <1>5, <2>1
<1>6. \/ \E c \in Creations : Create(c) /\ ~UNCHANGED <<state, slug>>
      \/ \E e \in Edits : WriteTenant(e) /\ ~UNCHANGED shop
      \/ \E t \in Tenants : DeleteTenant(t)
      \/ UNCHANGED <<state, slug>>
  <2>1. ASSUME NEW c \in Creations, CreateTenant(c)
        PROVE  (Create(c) /\ ~UNCHANGED <<state, slug>>) \/ UNCHANGED <<state, slug>>
    <3>1. CASE Create(c)
      BY <3>1 DEF Create
    <3>2. CASE ~Create(c)
      BY <2>1, <3>2 DEF CreateTenant, FindBySlug, FindPermissions, CreatePermission, CreateRole,
                        AddCreator, shop
    <3> QED BY <3>1, <3>2
  <2>2. ASSUME NEW r \in Registrations, Register(r) PROVE UNCHANGED <<state, slug>>
    BY <2>2 DEF Register, Signup, FindByEmail, CreateUser, FindRole, AddMember, Welcome, shop
  <2>3. ASSUME \/ \E e \in Edits : FindTenant(e) \/ (WriteTenant(e) /\ UNCHANGED shop)
               \/ \E p \in Fragile : DeletePermission(p)
               \/ \E r \in Requests : Fail(r)
               \/ UNCHANGED vars
        PROVE  UNCHANGED <<state, slug>>
    BY <2>3 DEF FindTenant, DeletePermission, Fail, vars, shop
  <2> QED BY <2>1, <2>2, <2>3 DEF Next
<1> QED BY <1>2, <1>3, <1>4, <1>5, <1>6

\* The steps of a registration keep users apart, and the others leave them be.
LEMMA NextKeepsUsers ==
    ASSUME Shapes, NamesInv, [Next]_vars
    PROVE  /\ \A r \in Registrations : Past(r)' => wish'[r][1] \in exists'
           /\ \A r, x \in Registrations : Past(r)' /\ Past(x)' /\ wish'[r][1] = wish'[x][1] => r = x
<1> DEFINE Goal == /\ \A r \in Registrations : Past(r)' => wish'[r][1] \in exists'
                   /\ \A r, x \in Registrations :
                        Past(r)' /\ Past(x)' /\ wish'[r][1] = wish'[x][1] => r = x
<1>0. RequestsTyped
  BY DEF Shapes
<1>1. ASSUME exists \subseteq exists',
             \A r \in Registrations : Past(r)' => Past(r) /\ wish'[r][1] = wish[r][1]
      PROVE  Goal
  BY <1>1 DEF NamesInv
<1>2. ASSUME NEW r \in Registrations, Register(r) PROVE Goal
  <2>1. r \in Requests /\ \A x \in Registrations \ {r} : pc'[x] = pc[x] /\ wish'[x] = wish[x]
    <3>1. \A x \in Registrations \ {r} : pc'[x] = pc[x]
      BY <1>0, <1>2, RegistrationMoves, KindsOfRequest
    <3>2. \A x \in Registrations \ {r} : wish'[x] = wish[x]
      BY <1>0, <1>2, KindsOfRequest DEF Register, Signup, FindByEmail, CreateUser, FindRole,
         AddMember, Welcome, locals, RequestsTyped
    <3> QED BY <3>1, <3>2, KindsOfRequest
  <2>2. CASE CreateUser(r)
    <3>1. UNCHANGED wish
      BY <2>2 DEF CreateUser, locals
    <3>2. CASE User(r) \in exists
      <4>1. ~Past(r)' /\ UNCHANGED exists
        BY <1>0, <2>1, <2>2, <3>2, OneMoves DEF CreateUser, Past
      <4> QED BY <1>1, <2>1, <3>1, <4>1 DEF Past
    <3>3. CASE User(r) \notin exists
      <4>1. exists' = exists \cup {wish[r][1]} /\ wish[r][1] \notin exists
        BY <2>2, <3>3 DEF CreateUser, User
      <4>2. \A x \in Registrations \ {r} : Past(x)' => Past(x) /\ wish'[x] = wish[x]
        BY <2>1 DEF Past
      <4> QED BY <3>1, <4>1, <4>2 DEF NamesInv
    <3> QED BY <3>2, <3>3
  <2>3. CASE ~CreateUser(r)
    <3>1. UNCHANGED exists
      BY <1>2, <2>3 DEF Register, Signup, FindByEmail, FindRole, AddMember, Welcome, access
    <3>2. Past(r)' => Past(r)
      BY <1>0, <1>2, <2>3, RegistrationMoves DEF Past, Register
    <3>3. Past(r) => wish'[r][1] = wish[r][1]
      <4>1. CASE Signup(r)
        BY <1>0, <1>2, <4>1, RegistrationMoves DEF Past
      <4>2. CASE FindRole(r)
        <5>1. pc[r] = "findRole" /\ About(r)
          BY <1>0, <1>2, <2>1, <4>2, RegistrationMoves DEF RequestsTyped
        <5>2. PICK u \in Users, t \in Tenants, x \in Roles \cup {None} : wish[r] = <<u, t, x>>
          BY <5>1 DEF About, Signed
        <5>3. CASE UNCHANGED wish
          BY <5>3
        <5>4. CASE \E ro \in Visible(TenantOf(r), "USER") : wish' = [wish EXCEPT ![r][3] = ro]
          <6>1. PICK ro \in Roles : wish' = [wish EXCEPT ![r][3] = ro]
            BY <5>4 DEF Visible
          <6>2. [<<u, t, x>> EXCEPT ![3] = ro] = <<u, t, ro>>
            OBVIOUS
          <6>3. wish'[r] = <<u, t, ro>>
            BY <1>0, <2>1, <5>2, <6>1, <6>2 DEF RequestsTyped
          <6> QED BY <5>2, <6>3
        <5> QED BY <4>2, <5>3, <5>4 DEF FindRole
      <4> QED BY <1>2, <2>3, <4>1, <4>2 DEF Register, FindByEmail, AddMember, Welcome, locals
    <3>4. \A x \in Registrations : Past(x)' => Past(x) /\ wish'[x][1] = wish[x][1]
      BY <2>1, <3>2, <3>3 DEF Past
    <3> QED BY <1>1, <3>1, <3>4
  <2> QED BY <2>2, <2>3
<1>3. ASSUME NEW c \in Creations, CreateTenant(c) PROVE Goal
  <2>1. \A x \in Registrations : pc'[x] = pc[x] /\ wish'[x] = wish[x]
    <3>1. \A x \in Registrations : pc'[x] = pc[x]
      BY <1>0, <1>3, CreationMoves, KindsOfRequest
    <3>2. \A x \in Registrations : wish'[x] = wish[x]
      BY <1>0, <1>3, KindsOfRequest DEF CreateTenant, FindBySlug, Create, FindPermissions,
         CreatePermission, CreateRole, AddCreator, locals, RequestsTyped
    <3> QED BY <3>1, <3>2
  <2>2. UNCHANGED exists
    BY <1>3 DEF CreateTenant, FindBySlug, Create, FindPermissions, CreatePermission, CreateRole,
       AddCreator, access
  <2> QED BY <1>1, <2>1, <2>2 DEF Past
<1>4. ASSUME NEW e \in Edits, FindTenant(e) \/ WriteTenant(e) PROVE Goal
  <2>1. \A x \in Registrations : pc'[x] = pc[x] /\ wish'[x] = wish[x]
    BY <1>0, <1>4, KindsOfRequest, OneMoves DEF FindTenant, WriteTenant, locals, RequestsTyped
  <2>2. UNCHANGED exists
    BY <1>4 DEF FindTenant, WriteTenant, access
  <2> QED BY <1>1, <2>1, <2>2 DEF Past
<1>5. ASSUME NEW r \in Requests, Fail(r) PROVE Goal
  <2>1. pc'[r] = "failed" /\ \A x \in Requests \ {r} : pc'[x] = pc[x]
    BY <1>0, <1>5, OneMoves DEF Fail
  <2>2. UNCHANGED <<exists, wish>>
    BY <1>5 DEF Fail, access, locals
  <2> QED BY <1>1, <2>1, <2>2, KindsOfRequest DEF Past
<1>6. ASSUME \/ \E t \in Tenants : DeleteTenant(t)
             \/ \E p \in Fragile : DeletePermission(p)
             \/ UNCHANGED vars
      PROVE  Goal
  <2>1. UNCHANGED <<exists, pc, wish>>
    BY <1>6 DEF DeleteTenant, DeletePermission, vars, access, locals
  <2> QED BY <1>1, <2>1 DEF Past
<1> QED BY <1>2, <1>3, <1>4, <1>5, <1>6 DEF Next

\* However creations, edits and registrations are interleaved: no two tenants
\* have one slug, and no two users registered with one address.
THEOREM NamesStayUnique == Spec => []NamesAreUnique
<1>1. Init => NamesInv
  BY KindsOfRequest DEF Init, InitAt, NamesInv, Past, Present
<1>2. NamesInv => NamesAreUnique
  BY DEF NamesInv, NamesAreUnique, Past, At
<1>3. Shapes /\ NamesInv /\ [Next]_vars => NamesInv'
  BY NextKeepsSlugs, NextKeepsUsers DEF NamesInv
<1> QED BY <1>1, <1>2, <1>3, InitShapes, NextShapes, PTL DEF Spec

------------------------------------------------------------------------------
(* Homes of roles *)

\* A role is good in a tenant if it is the tenant's, or was one's that is gone.
GoodIn(ro, t) == ro[1] = t \/ state[ro[1]] = "deleted"

HomeInv ==
    /\ \A k \in Keys : member[k] # None => GoodIn(member[k], k[2])
    /\ \A ro \in Roles : RoleExists(ro) => state[ro[1]] # "none"
    /\ \A r \in Registrations : pc[r] = "addTenant" => GoodIn(wish[r][3], wish[r][2])
    /\ \A c \in Creations : pc[c] = "create" => state[c] = "none"

\* A step that gives nobody a role and creates none keeps HomeInv, provided
\* that tenants that are gone do not come back.
LEMMA HomesKept ==
    ASSUME Shapes, HomeInv,
           \A t \in Tenants : /\ state[t] = "deleted" => state'[t] = "deleted"
                              /\ state'[t] = "none" => state[t] = "none",
           \A k \in Keys : member'[k] \in {member[k], None},
           \A ro \in Roles : grants'[ro] # None => grants[ro] # None,
           \A r \in Registrations : pc'[r] = "addTenant" => pc[r] = "addTenant" /\ wish'[r] = wish[r],
           \A c \in Creations : pc'[c] = "create" => state'[c] = "none"
    PROVE  HomeInv'
<1>1. \A ro \in Roles : \A t : ro[1] \in Tenants /\ (GoodIn(ro, t) => GoodIn(ro, t)')
  BY DEF Roles, GoodIn
<1>2. ASSUME NEW k \in Keys, member'[k] # None PROVE GoodIn(member[k], k[2])' /\ member'[k] = member[k]
  <2>1. member'[k] = member[k] /\ member[k] \in Roles /\ GoodIn(member[k], k[2])
    BY <1>2 DEF Shapes, TablesTyped, HomeInv
  <2> QED BY <1>1, <2>1 DEF GoodIn
<1>3. ASSUME NEW r \in Registrations, pc'[r] = "addTenant" PROVE GoodIn(wish[r][3], wish[r][2])'
      /\ wish'[r] = wish[r]
  <2>1. pc[r] = "addTenant" /\ wish'[r] = wish[r] /\ About(r)
    BY <1>3, KindsOfRequest DEF Shapes, RequestsTyped
  <2>2. wish[r][3] \in Roles
    BY <2>1 DEF About, Signed
  <2> QED BY <1>1, <2>1, <2>2 DEF HomeInv, GoodIn
<1>4. \A ro \in Roles : grants'[ro] # None => state'[ro[1]] # "none"
  BY <1>1 DEF HomeInv, RoleExists
<1> QED BY <1>2, <1>3, <1>4 DEF HomeInv, GoodIn, RoleExists

\* The creation of a tenant: it comes to be once, before its roles, and the
\* creator gets one of them.
LEMMA CreationKeepsHomes ==
    ASSUME Shapes, HomeInv, NEW c \in Creations, CreateTenant(c)
    PROVE  HomeInv'
<1>1. RequestsTyped /\ TablesTyped /\ c \in Requests /\ c \in Tenants /\ c \notin Registrations
  BY KindsOfRequest DEF Shapes
<1>2. \A r \in Registrations : pc'[r] = pc[r] /\ wish'[r] = wish[r]
  <2>1. \A r \in Registrations : pc'[r] = pc[r]
    BY <1>1, CreationMoves, KindsOfRequest
  <2>2. \A r \in Registrations : wish'[r] = wish[r]
    BY <1>1, KindsOfRequest DEF CreateTenant, FindBySlug, Create, FindPermissions,
       CreatePermission, CreateRole, AddCreator, locals, RequestsTyped
  <2> QED BY <2>1, <2>2
<1>3. \A x \in Creations \ {c} : pc'[x] = pc[x]
  BY <1>1, CreationMoves, KindsOfRequest
<1>4. CASE FindBySlug(c) \/ FindPermissions(c) \/ CreatePermission(c)
  <2>1. UNCHANGED <<state, grants, member>>
    BY <1>4 DEF FindBySlug, FindPermissions, CreatePermission, shop, access
  <2>2. pc'[c] = "create" => state[c] = "none"
    <3>1. FindBySlug(c) => state[c] = "none"
      BY DEF FindBySlug
    <3> QED BY <1>1, <1>4, <3>1, CreationMoves
  <2> QED BY <1>2, <1>3, <2>1, <2>2, HomesKept DEF HomeInv
<1>5. CASE Create(c)
  <2>1. state[c] = "none" /\ pc'[c] # "create"
    BY <1>1, <1>5, CreationMoves DEF HomeInv
  <2>2. /\ \A t \in Tenants \ {c} : state'[t] = state[t]
        /\ state'[c] \in {"none", "active"}
    BY <1>1, <1>5, <2>1 DEF Create, TablesTyped
  <2>3. UNCHANGED <<grants, member>>
    BY <1>5 DEF Create, access
  <2>4. \A x \in Creations : pc'[x] = "create" => state'[x] = "none"
    BY <1>3, <2>1, <2>2, KindsOfRequest DEF HomeInv
  <2> QED BY <1>2, <2>1, <2>2, <2>3, <2>4, HomesKept
<1>6. CASE CreateRole(c)
  <2>1. UNCHANGED <<state, member>> /\ pc'[c] # "create"
    BY <1>1, <1>6, CreationMoves DEF CreateRole, shop
  <2>2. \A ro \in Roles : grants'[ro] # None => grants[ro] # None \/ state[ro[1]] # "none"
    <3>1. CASE UNCHANGED grants
      BY <3>1
    <3>2. CASE ~UNCHANGED grants
      <4>1. /\ Present(c)
            /\ grants' = [grants EXCEPT ![<<c, pc[c]>>] = DefaultRoles[pc[c]]]
        BY <1>6, <3>2 DEF CreateRole
      <4>2. \A ro \in Roles : ro # <<c, pc[c]>> => grants'[ro] = grants[ro]
        BY <1>1, <4>1 DEF TablesTyped
      <4> QED BY <4>1, <4>2 DEF Present
    <3> QED BY <3>1, <3>2
  <2>3. \A x \in Creations : pc'[x] = "create" => state'[x] = "none"
    BY <1>3, <2>1 DEF HomeInv
  <2> QED BY <1>2, <2>1, <2>2, <2>3 DEF HomeInv, GoodIn, RoleExists
<1>7. CASE AddCreator(c)
  <2>1. UNCHANGED <<state, grants>> /\ pc'[c] # "create"
    BY <1>1, <1>7, CreationMoves DEF AddCreator, shop
  <2>2. \A k \in Keys : member'[k] = member[k] \/ (member'[k] = <<c, "ADMIN">> /\ k[2] = c)
    BY <1>1, <1>7 DEF AddCreator, TablesTyped
  <2>3. \A x \in Creations : pc'[x] = "create" => state'[x] = "none"
    BY <1>3, <2>1 DEF HomeInv
  <2> QED BY <1>2, <2>1, <2>2, <2>3 DEF HomeInv, GoodIn, RoleExists
<1> QED BY <1>4, <1>5, <1>6, <1>7 DEF CreateTenant

\* The registration of a user: the role that is found is good in the tenant,
\* and still is when the user gets it.
LEMMA RegistrationKeepsHomes ==
    ASSUME Shapes, HomeInv, NEW r \in Registrations, Register(r)
    PROVE  HomeInv'
<1>1. RequestsTyped /\ TablesTyped /\ r \in Requests
  BY KindsOfRequest DEF Shapes
<1>2. UNCHANGED <<state, grants>>
  BY DEF Register, Signup, FindByEmail, CreateUser, FindRole, AddMember, Welcome, shop, access
<1>3. \A x \in Registrations \ {r} : pc'[x] = pc[x] /\ wish'[x] = wish[x]
  <2>1. \A x \in Registrations \ {r} : pc'[x] = pc[x]
    BY <1>1, RegistrationMoves, KindsOfRequest
  <2>2. \A x \in Registrations \ {r} : wish'[x] = wish[x]
    BY <1>1, KindsOfRequest DEF Register, Signup, FindByEmail, CreateUser, FindRole,
       AddMember, Welcome, locals, RequestsTyped
  <2> QED BY <2>1, <2>2
<1>4. \A c \in Creations : pc'[c] = "create" => state'[c] = "none"
  BY <1>1, <1>2, RegistrationMoves, KindsOfRequest DEF HomeInv
<1>5. CASE AddMember(r)
  <2>1. pc[r] = "addTenant" /\ pc'[r] # "addTenant" /\ GoodIn(wish[r][3], wish[r][2])
    BY <1>1, <1>5, RegistrationMoves DEF HomeInv
  <2>2. \A k \in Keys : member'[k] = member[k] \/ (member'[k] = wish[r][3] /\ k[2] = wish[r][2])
    BY <1>1, <1>5 DEF AddMember, TablesTyped, User, TenantOf
  <2>3. \A k \in Keys : member'[k] # None => GoodIn(member'[k], k[2])
    BY <2>1, <2>2 DEF HomeInv
  <2>4. \A x \in Registrations : pc'[x] = "addTenant" => pc[x] = "addTenant" /\ wish'[x] = wish[x]
    BY <1>3, <2>1
  <2> QED BY <1>2, <1>4, <2>3, <2>4 DEF HomeInv, GoodIn, RoleExists
<1>6. CASE FindRole(r)
  <2>1. UNCHANGED member
    BY <1>6 DEF FindRole, access
  <2>2. CASE pc'[r] # "addTenant"
    BY <1>2, <1>3, <1>4, <2>1, <2>2, HomesKept
  <2>3. CASE pc'[r] = "addTenant"
    <3>1. PICK ro \in Visible(TenantOf(r), "USER") : wish' = [wish EXCEPT ![r][3] = ro]
      BY <1>1, <1>6, <2>3, OneMoves DEF FindRole
    <3>2. pc[r] = "findRole" /\ About(r)
      BY <1>1, <1>6, RegistrationMoves DEF RequestsTyped
    <3>3. PICK u \in Users, t \in Tenants, x \in Roles \cup {None} : wish[r] = <<u, t, x>>
      BY <3>2 DEF About, Signed
    <3>4. [<<u, t, x>> EXCEPT ![3] = ro] = <<u, t, ro>>
      OBVIOUS
    <3>5. wish'[r] = <<u, t, ro>>
      BY <1>1, <3>1, <3>3, <3>4 DEF RequestsTyped
    <3>6. GoodIn(ro, t)
      <4>1. ro \in Roles /\ RoleExists(ro) /\ HomeOf(ro) \in {t, None}
        BY <3>1, <3>3 DEF Visible, TenantOf
      <4>2. ro[1] \in Tenants /\ ro[1] # None /\ state[ro[1]] # "none"
        BY <4>1, ProvisioningConstants DEF Roles, Tenants, HomeInv
      <4>3. CASE Present(ro[1])
        BY <4>1, <4>2, <4>3 DEF HomeOf, GoodIn
      <4>4. CASE ~Present(ro[1])
        BY <1>1, <4>2, <4>4 DEF Present, TablesTyped, GoodIn
      <4> QED BY <4>3, <4>4
    <3>7. \A y \in Registrations : pc'[y] = "addTenant" => GoodIn(wish'[y][3], wish'[y][2])
      <4>1. wish'[r][3] = ro /\ wish'[r][2] = t
        BY <3>5
      <4> QED BY <1>3, <3>6, <4>1 DEF HomeInv
    <3> QED BY <1>2, <1>4, <2>1, <3>7 DEF HomeInv, GoodIn, RoleExists
  <2> QED BY <2>2, <2>3
<1>7. CASE Signup(r) \/ FindByEmail(r) \/ CreateUser(r) \/ Welcome(r)
  <2>1. UNCHANGED member
    BY <1>7 DEF Signup, FindByEmail, CreateUser, Welcome, access
  <2>2. pc'[r] # "addTenant"
    BY <1>1, <1>7, RegistrationMoves
  <2> QED BY <1>2, <1>3, <1>4, <2>1, <2>2, HomesKept
<1> QED BY <1>5, <1>6, <1>7 DEF Register

\* Every step keeps HomeInv.
LEMMA NextKeepsHomes == Shapes /\ HomeInv /\ [Next]_vars => HomeInv'
<1> SUFFICES ASSUME Shapes, HomeInv, [Next]_vars PROVE HomeInv'
  OBVIOUS
<1>1. RequestsTyped /\ TablesTyped
  BY DEF Shapes
<1>2. ASSUME NEW e \in Edits, FindTenant(e) \/ WriteTenant(e) PROVE HomeInv'
  <2>1. /\ \A r \in Registrations : pc'[r] = pc[r] /\ wish'[r] = wish[r]
        /\ \A c \in Creations : pc'[c] = pc[c]
    BY <1>1, <1>2, KindsOfRequest, OneMoves DEF FindTenant, WriteTenant, locals, RequestsTyped
  <2>2. UNCHANGED <<grants, member>>
    BY <1>2 DEF FindTenant, WriteTenant, access
  <2>3. \A t \in Tenants : state'[t] = state[t] \/ (Present(t) /\ Present(t)')
    BY <1>1, <1>2 DEF FindTenant, WriteTenant, TablesTyped, Present, shop
  <2>4. \A t \in Tenants : /\ state[t] = "deleted" => state'[t] = "deleted"
                           /\ state'[t] = "none" <=> state[t] = "none"
    BY <2>3 DEF Present
  <2> QED BY <2>1, <2>2, <2>4, KindsOfRequest, HomesKept DEF HomeInv
<1>3. ASSUME NEW t \in Tenants, DeleteTenant(t) PROVE HomeInv'
  <2>1. UNCHANGED <<grants, pc, wish>>
    BY <1>3 DEF DeleteTenant, locals
  <2>2. \A x \in Tenants : /\ state[x] = "deleted" => state'[x] = "deleted"
                           /\ state'[x] = "none" <=> state[x] = "none"
    BY <1>1, <1>3 DEF DeleteTenant, Present, TablesTyped
  <2>3. \A k \in Keys : member'[k] \in {member[k], None}
    BY <1>3 DEF DeleteTenant
  <2> QED BY <2>1, <2>2, <2>3, KindsOfRequest, HomesKept DEF HomeInv
<1>4. ASSUME NEW p \in Fragile, DeletePermission(p) PROVE HomeInv'
  <2>1. UNCHANGED <<state, member, pc, wish>>
    BY <1>4 DEF DeletePermission, shop
  <2>2. \A ro \in Roles : grants'[ro] # None => grants[ro] # None
    BY <1>4 DEF DeletePermission, RoleExists
  <2> QED BY <2>1, <2>2, HomesKept DEF HomeInv
<1>5. ASSUME NEW r \in Requests, Fail(r) PROVE HomeInv'
  <2>1. pc'[r] = "failed" /\ \A x \in Requests \ {r} : pc'[x] = pc[x]
    BY <1>1, <1>5, OneMoves DEF Fail
  <2>2. UNCHANGED <<state, grants, member, wish>>
    BY <1>5 DEF Fail, shop, access, locals
  <2> QED BY <2>1, <2>2, KindsOfRequest, HomesKept DEF HomeInv
<1>6. CASE UNCHANGED vars
  BY <1>6 DEF vars, shop, access, locals, HomeInv, GoodIn, RoleExists
<1> QED BY <1>2, <1>3, <1>4, <1>5, <1>6, CreationKeepsHomes, RegistrationKeepsHomes DEF Next

\* In the beginning there are only the roles of the platform.
LEMMA HomesAtFirst == Init => HomeInv
<1> SUFFICES ASSUME Init PROVE HomeInv
  OBVIOUS
<1>1. \A k \in Keys : member[k] # None => member[k] = <<Platform, "SUPER_ADMIN">> /\ k[2] = Platform
  BY DEF Init, InitAt
<1>2. \A ro \in Roles : RoleExists(ro) => ro[1] = Platform /\ state[ro[1]] = "active"
  BY DEF Init, InitAt, RoleExists, Roles
<1>3. \A r \in Requests : pc[r] = "idle"
  BY DEF Init, InitAt
<1> QED BY <1>1, <1>2, <1>3, KindsOfRequest DEF HomeInv, GoodIn

\* However registrations, creations and deletions are interleaved: nobody is
\* a member of a tenant with the role of another that still exists.
THEOREM RolesAreTheTenants == Spec => []MembersRolesAreTheirTenants
<1>1. HomeInv => MembersRolesAreTheirTenants
  BY DEF HomeInv, MembersRolesAreTheirTenants, GoodIn
<1> QED BY <1>1, HomesAtFirst, InitShapes, NextShapes, NextKeepsHomes, PTL DEF Spec

------------------------------------------------------------------------------
(* Success *)

\* Where a creation is while it has yet to create a role, and afterwards.
Until(name) ==
    {"idle", "create", "findPermission", "createPermission", "ADMIN"}
    \cup (IF name = "ADMIN" THEN {} ELSE {"STAFF"}) \cup (IF name = "USER" THEN {"USER"} ELSE {})

Since(name) ==
    {"addTenant", "success"}
    \cup (IF name = "USER" THEN {} ELSE {"USER"}) \cup (IF name = "ADMIN" THEN {"STAFF"} ELSE {})

\* A role that a creation has made has its permissions, less those it lost;
\* one that it has yet to make does not exist, and so has lost none.
RolesInv ==
    \A c \in Creations, name \in DOMAIN DefaultRoles :
        /\ pc[c] \in Until(name) =>
              grants[<<c, name>>] = None /\ \A p \in Fragile : <<<<c, name>>, p>> \notin taken
        /\ pc[c] \in Since(name) =>
              grants[<<c, name>>] =
                  DefaultRoles[name] \ {p \in Fragile : <<<<c, name>>, p>> \in taken}

\* A step that leaves the roles alone, and moves no creation past one.
LEMMA RolesKept ==
    ASSUME RolesInv, UNCHANGED <<grants, taken>>,
           \A c \in Creations, name \in DOMAIN DefaultRoles :
               /\ pc'[c] \in Until(name) => pc[c] \in Until(name)
               /\ pc'[c] \in Since(name) => pc[c] \in Since(name)
    PROVE  RolesInv'
<1> SUFFICES ASSUME NEW c \in Creations, NEW name \in DOMAIN DefaultRoles
             PROVE  /\ pc'[c] \in Until(name) =>
                          /\ grants[<<c, name>>] = None
                          /\ \A p \in Fragile : <<<<c, name>>, p>> \notin taken
                    /\ pc'[c] \in Since(name) =>
                          grants[<<c, name>>] =
                              DefaultRoles[name] \ {p \in Fragile : <<<<c, name>>, p>> \in taken}
  BY Zenon DEF RolesInv, Until, Since
<1> QED BY Zenon DEF RolesInv

\* The creation of a tenant makes its roles in order.
LEMMA CreationKeepsRoles ==
    ASSUME Shapes, RolesInv, NEW c \in Creations, CreateTenant(c)
    PROVE  RolesInv'
<1>1. RequestsTyped /\ TablesTyped /\ \A x \in Creations \ {c} : pc'[x] = pc[x]
  BY CreationMoves, KindsOfRequest DEF Shapes
<1>2. CASE ~CreateRole(c)
  <2>1. UNCHANGED <<grants, taken>>
    BY <1>2 DEF CreateTenant, FindBySlug, Create, FindPermissions, CreatePermission, AddCreator,
       access, counts
  <2>2. \A name \in DOMAIN DefaultRoles : /\ pc'[c] \in Until(name) => pc[c] \in Until(name)
                                          /\ pc'[c] \in Since(name) => pc[c] \in Since(name)
    BY <1>1, <1>2, CreationMoves, DefaultRoleNames DEF CreateTenant, Until, Since
  <2> QED BY <1>1, <2>1, <2>2, RolesKept
<1>3. CASE CreateRole(c)
  <2>1. UNCHANGED taken /\ pc[c] \in DOMAIN DefaultRoles
    BY <1>3 DEF CreateRole, counts
  <2>2. CASE UNCHANGED grants /\ pc'[c] = "failed"
    <3>1. \A name : pc'[c] \notin Until(name) /\ pc'[c] \notin Since(name)
      BY <2>2 DEF Until, Since
    <3> QED BY <1>1, <2>1, <2>2, <3>1, RolesKept
  <2>3. CASE /\ grants' = [grants EXCEPT ![<<c, pc[c]>>] = DefaultRoles[pc[c]]]
             /\ pc'[c] = After(pc[c])
    <3>1. \A name \in DOMAIN DefaultRoles :
             /\ pc'[c] \in Until(name) => pc[c] \in Until(name) /\ pc[c] # name
             /\ pc'[c] \in Since(name) => pc[c] \in Since(name) \/ pc[c] = name
      BY <2>1, <2>3, RolesInOrder, DefaultRoleNames DEF Until, Since
    <3>2. pc[c] \in Until(pc[c])
      BY <2>1, DefaultRoleNames DEF Until
    <3>3. \A p \in Fragile : <<<<c, pc[c]>>, p>> \notin taken'
      BY <2>1, <3>2 DEF RolesInv
    <3>4. /\ grants'[<<c, pc[c]>>] = DefaultRoles[pc[c]]
          /\ \A x \in Creations, name \in DOMAIN DefaultRoles :
                x # c \/ name # pc[c] => grants'[<<x, name>>] = grants[<<x, name>>]
      <4>1. \A x \in Creations, name \in DOMAIN DefaultRoles : <<x, name>> \in Roles
        BY KindsOfRequest DEF Roles, RoleNames
      <4> QED BY <1>1, <2>1, <2>3, <4>1 DEF TablesTyped
    <3>5. ASSUME NEW x \in Creations, NEW name \in DOMAIN DefaultRoles
          PROVE  /\ pc'[x] \in Until(name) =>
                       grants'[<<x, name>>] = None /\ \A p \in Fragile : <<<<x, name>>, p>> \notin taken'
                 /\ pc'[x] \in Since(name) =>
                       grants'[<<x, name>>] =
                           DefaultRoles[name] \ {p \in Fragile : <<<<x, name>>, p>> \in taken'}
      <4>1. CASE x = c /\ name = pc[c]
        BY <3>1, <3>3, <3>4, <4>1
      <4>2. CASE x # c \/ name # pc[c]
        <5>1. /\ pc'[x] \in Until(name) => pc[x] \in Until(name)
              /\ pc'[x] \in Since(name) => pc[x] \in Since(name)
          BY <1>1, <3>1, <4>2
        <5> QED BY <2>1, <3>4, <4>2, <5>1 DEF RolesInv
      <4> QED BY <4>1, <4>2
    <3> QED BY <3>5 DEF RolesInv, Until, Since
  <2> QED BY <1>1, <1>3, <2>2, <2>3, KindsOfRequest, OneMoves DEF CreateRole
<1> QED BY <1>2, <1>3

\* A permission that goes is gone from all roles, and that is remembered.
LEMMA DeletionKeepsRoles ==
    ASSUME RolesInv, NEW p \in Fragile, DeletePermission(p)
    PROVE  RolesInv'
<1> SUFFICES ASSUME NEW c \in Creations, NEW name \in DOMAIN DefaultRoles
             PROVE  /\ pc'[c] \in Until(name) =>
                          /\ grants'[<<c, name>>] = None
                          /\ \A q \in Fragile : <<<<c, name>>, q>> \notin taken'
                    /\ pc'[c] \in Since(name) =>
                          grants'[<<c, name>>] =
                              DefaultRoles[name] \ {q \in Fragile : <<<<c, name>>, q>> \in taken'}
  BY DEF RolesInv, Until, Since
<1> DEFINE ro == <<c, name>>
           lost == {q \in Fragile : <<ro, q>> \in taken}
<1>1. ro \in Roles
  BY KindsOfRequest DEF Roles, RoleNames
<1>2. UNCHANGED pc
  BY DEF DeletePermission
<1>3. grants'[ro] = IF grants[ro] # None THEN grants[ro] \ {p} ELSE None
  BY <1>1 DEF DeletePermission, RoleExists
<1>4. \A q : <<ro, q>> \in taken' <=>
          <<ro, q>> \in taken \/ (q = p /\ grants[ro] # None /\ p \in grants[ro])
  <2>1. taken' = taken \cup {<<x, p>> : x \in {y \in Roles : RoleExists(y) /\ p \in grants[y]}}
    BY DEF DeletePermission
  <2> HIDE DEF ro
  <2>2. ro \in {y \in Roles : RoleExists(y) /\ p \in grants[y]} <=> grants[ro] # None /\ p \in grants[ro]
    BY <1>1 DEF RoleExists
  <2> QED BY <2>1, <2>2
<1>5. CASE pc[c] \in Until(name)
  <2>1. grants[ro] = None /\ \A q \in Fragile : <<ro, q>> \notin taken
    BY <1>5 DEF RolesInv
  <2>2. pc[c] \notin Since(name)
    BY <1>5 DEF Until, Since
  <2> QED BY <1>2, <1>3, <1>4, <2>1, <2>2
<1>6. CASE pc[c] \in Since(name)
  <2>1. grants[ro] = DefaultRoles[name] \ lost /\ pc[c] \notin Until(name)
    BY <1>6 DEF RolesInv, Until, Since
  <2> DEFINE gone == {q \in Fragile : <<ro, q>> \in taken'}
  <2>2. gone = IF grants[ro] # None /\ p \in grants[ro] THEN lost \cup {p} ELSE lost
    BY <1>4
  <2> HIDE DEF ro, lost, gone
  <2>3. grants'[ro] = DefaultRoles[name] \ gone
    <3>1. CASE grants[ro] = None
      BY <1>3, <2>1, <2>2, <3>1
    <3>2. CASE grants[ro] # None /\ p \in grants[ro]
      BY <1>3, <2>1, <2>2, <3>2
    <3>3. CASE grants[ro] # None /\ p \notin grants[ro]
      <4>1. grants[ro] \ {p} = grants[ro]
        BY <3>3
      <4> QED BY <1>3, <2>1, <2>2, <3>3, <4>1
    <3> QED BY <3>1, <3>2, <3>3
  <2> QED BY <1>2, <2>1, <2>3 DEF ro, gone
<1> QED BY <1>2, <1>5, <1>6

\* Every step keeps RolesInv.
LEMMA NextKeepsRoles == Shapes /\ RolesInv /\ [Next]_vars => RolesInv'
<1> SUFFICES ASSUME Shapes, RolesInv, [Next]_vars PROVE RolesInv'
  OBVIOUS
<1>1. RequestsTyped
  BY DEF Shapes
<1>2. ASSUME NEW r \in Registrations, Register(r) PROVE RolesInv'
  <2>1. \A c \in Creations : pc'[c] = pc[c]
    BY <1>1, <1>2, RegistrationMoves, KindsOfRequest
  <2>2. UNCHANGED <<grants, taken>>
    BY <1>2 DEF Register, Signup, FindByEmail, CreateUser, FindRole, AddMember, Welcome, access, counts
  <2> QED BY <2>1, <2>2, RolesKept
<1>3. ASSUME NEW e \in Edits, FindTenant(e) \/ WriteTenant(e) PROVE RolesInv'
  <2>1. \A c \in Creations : pc'[c] = pc[c]
    BY <1>1, <1>3, KindsOfRequest, OneMoves DEF FindTenant, WriteTenant
  <2>2. UNCHANGED <<grants, taken>>
    BY <1>3 DEF FindTenant, WriteTenant, access, counts
  <2> QED BY <2>1, <2>2, RolesKept
<1>4. ASSUME NEW r \in Requests, Fail(r) PROVE RolesInv'
  <2>1. pc'[r] = "failed" /\ \A x \in Requests \ {r} : pc'[x] = pc[x]
    BY <1>1, <1>4, OneMoves DEF Fail
  <2>2. UNCHANGED <<grants, taken>>
    BY <1>4 DEF Fail, access, counts
  <2>3. \A name : "failed" \notin Until(name) /\ "failed" \notin Since(name)
    BY DEF Until, Since
  <2> QED BY <2>1, <2>2, <2>3, KindsOfRequest, RolesKept
<1>5. ASSUME (\E t \in Tenants : DeleteTenant(t)) \/ UNCHANGED vars PROVE RolesInv'
  <2>1. UNCHANGED <<grants, taken, pc>>
    BY <1>5 DEF DeleteTenant, vars, access, counts
  <2> QED BY <2>1, RolesKept
<1> QED BY <1>2, <1>3, <1>4, <1>5, CreationKeepsRoles, DeletionKeepsRoles DEF Next

\* A registration that has made its user a member.
Let(r) == pc[r] \in {"welcome", "success"}

\* The creator of a tenant is its administrator, as long as there is the
\* tenant: nobody can register as the creator, who exists already.  Who has
\* been let into a tenant is in it, as long as there is the tenant.
PresenceInv ==
    /\ Founder \in exists /\ \A r \in Registrations : Past(r) => wish[r][1] # Founder
    /\ \A c \in Creations : pc[c] = "success" /\ Present(c) => member[<<Founder, c>>] = <<c, "ADMIN">>
    /\ \A r \in Registrations : Let(r) =>
          /\ state[wish[r][2]] # "none"
          /\ Present(wish[r][2]) => member[<<wish[r][1], wish[r][2]>>] # None

\* A step that takes nobody from a tenant that stays, and lets nobody in.
LEMMA PresenceKept ==
    ASSUME Shapes, PresenceInv, exists \subseteq exists',
           \A t \in Tenants : /\ Present(t)' => Present(t) \/ state[t] = "none"
                              /\ state'[t] = "none" => state[t] = "none",
           \A k \in Keys : Present(k[2])' => member'[k] = member[k],
           \A r \in Registrations : Past(r)' => Past(r) /\ wish'[r][1] = wish[r][1],
           \A r \in Registrations : Let(r)' => Let(r) /\ wish'[r] = wish[r],
           \A c \in Creations : pc'[c] = "success" /\ Present(c)' => pc[c] = "success" /\ Present(c)
    PROVE  PresenceInv'
<1>1. ASSUME NEW r \in Registrations, Let(r)'
      PROVE  /\ state'[wish'[r][2]] # "none"
             /\ Present(wish[r][2])' => member'[<<wish'[r][1], wish'[r][2]>>] # None
  <2>1. Let(r) /\ wish'[r] = wish[r] /\ About(r)
    BY <1>1, KindsOfRequest DEF Shapes, RequestsTyped
  <2>2. PICK u \in Users, t \in Tenants, x \in Roles \cup {None} : wish[r] = <<u, t, x>>
    BY <2>1 DEF About, Signed, Let
  <2>3. state[t] # "none" /\ (Present(t) => member[<<u, t>>] # None)
    BY <2>1, <2>2 DEF PresenceInv
  <2>4. state'[t] # "none" /\ (Present(t)' => member'[<<u, t>>] # None)
    <3>1. <<u, t>> \in Keys /\ <<u, t>>[2] = t
      BY DEF Keys
    <3>2. Present(t)' => member'[<<u, t>>] = member[<<u, t>>]
      BY <3>1
    <3> QED BY <2>3, <3>2
  <2> QED BY <2>1, <2>2, <2>4 DEF Present
<1>2. ASSUME NEW c \in Creations, pc'[c] = "success", Present(c)'
      PROVE  member'[<<Founder, c>>] = <<c, "ADMIN">>
  <2>1. <<Founder, c>> \in Keys /\ <<Founder, c>>[2] = c
    BY ProvisioningConstants, KindsOfRequest DEF Keys
  <2>2. member'[<<Founder, c>>] = member[<<Founder, c>>]
    BY <1>2, <2>1
  <2> QED BY <1>2, <2>2 DEF PresenceInv
<1>3. Founder \in exists' /\ \A r \in Registrations : Past(r)' => wish'[r][1] # Founder
  BY DEF PresenceInv
<1> QED BY <1>1, <1>2, <1>3 DEF PresenceInv, Let, Present

\* The creation of a tenant ends with its administrator.
LEMMA CreationKeepsPresence ==
    ASSUME Shapes, PresenceInv, HomeInv, NEW c \in Creations, CreateTenant(c)
    PROVE  PresenceInv'
<1>1. RequestsTyped /\ TablesTyped /\ c \in Requests /\ c \in Tenants
  BY KindsOfRequest DEF Shapes
<1>2. \A r \in Registrations : pc'[r] = pc[r] /\ wish'[r] = wish[r]
  <2>1. \A r \in Registrations : pc'[r] = pc[r]
    BY <1>1, CreationMoves, KindsOfRequest
  <2>2. \A r \in Registrations : wish'[r] = wish[r]
    BY <1>1, KindsOfRequest DEF CreateTenant, FindBySlug, Create, FindPermissions,
       CreatePermission, CreateRole, AddCreator, locals, RequestsTyped
  <2> QED BY <2>1, <2>2
<1>3. UNCHANGED exists /\ \A x \in Creations \ {c} : pc'[x] = pc[x]
  BY <1>1, CreationMoves, KindsOfRequest DEF CreateTenant, FindBySlug, Create, FindPermissions,
     CreatePermission, CreateRole, AddCreator, access
<1>4. CASE ~AddCreator(c)
  <2>1. UNCHANGED member /\ pc'[c] # "success"
    BY <1>1, <1>4, CreationMoves DEF CreateTenant, FindBySlug, Create, FindPermissions,
       CreatePermission, CreateRole, access
  <2>2. CASE Create(c)
    <3>1. state[c] = "none"
      BY <1>1, <2>2, CreationMoves DEF HomeInv
    <3>2. \A t \in Tenants : t # c => state'[t] = state[t]
      BY <1>1, <2>2 DEF Create, TablesTyped
    <3>3. state'[c] = "none" => state[c] = "none"
      BY <3>1
    <3> QED BY <1>2, <1>3, <2>1, <3>1, <3>2, <3>3, KindsOfRequest, PresenceKept DEF Present, Past, Let
  <2>3. CASE ~Create(c)
    <3>1. UNCHANGED state
      BY <1>4, <2>3 DEF CreateTenant, FindBySlug, FindPermissions, CreatePermission, CreateRole, shop
    <3> QED BY <1>2, <1>3, <2>1, <3>1, KindsOfRequest, PresenceKept DEF Present, Past, Let
  <2> QED BY <2>2, <2>3
<1>5. CASE AddCreator(c)
  <2>1. UNCHANGED state /\ pc'[c] \in {"success", "failed"}
    BY <1>1, <1>5, CreationMoves DEF AddCreator, shop
  <2>2. CASE UNCHANGED member /\ pc'[c] = "failed"
    BY <1>2, <1>3, <2>1, <2>2, KindsOfRequest, PresenceKept DEF Present, Past, Let
  <2>3. CASE member' = [member EXCEPT ![<<Founder, c>>] = <<c, "ADMIN">>]
    <3>1. /\ member'[<<Founder, c>>] = <<c, "ADMIN">>
          /\ \A k \in Keys : k # <<Founder, c>> => member'[k] = member[k]
      BY <1>1, <2>3, ProvisioningConstants DEF TablesTyped, Keys
    <3>2. ASSUME NEW x \in Creations, pc'[x] = "success", Present(x)
          PROVE  member'[<<Founder, x>>] = <<x, "ADMIN">>
      <4>1. CASE x = c
        BY <3>1, <4>1
      <4>2. CASE x # c
        <5>1. pc[x] = "success" /\ <<Founder, x>> \in Keys /\ <<Founder, x>> # <<Founder, c>>
          BY <1>3, <3>2, <4>2, ProvisioningConstants, KindsOfRequest DEF Keys
        <5> QED BY <3>1, <3>2, <5>1 DEF PresenceInv
      <4> QED BY <4>1, <4>2
    <3>3. ASSUME NEW r \in Registrations, Let(r), Present(wish[r][2])
          PROVE  member'[<<wish[r][1], wish[r][2]>>] # None
      <4>1. About(r) /\ pc[r] \in Signed /\ Past(r)
        BY <3>3, KindsOfRequest DEF Shapes, RequestsTyped, Let, Signed, Past
      <4>2. wish[r][1] # Founder /\ member[<<wish[r][1], wish[r][2]>>] # None
        BY <3>3, <4>1 DEF PresenceInv
      <4>3. <<wish[r][1], wish[r][2]>> \in Keys
        BY <4>1 DEF About, Keys
      <4> QED BY <3>1, <4>2, <4>3
    <3> QED BY <1>2, <1>3, <2>1, <3>2, <3>3 DEF PresenceInv, Present, Past, Let
  <2> QED BY <1>1, <1>5, <2>2, <2>3, OneMoves DEF AddCreator
<1> QED BY <1>4, <1>5

\* Finding a role changes neither the user nor the tenant of a registration.
LEMMA FindRoleKeeps ==
    ASSUME Shapes, NEW r \in Registrations, FindRole(r)
    PROVE  wish'[r][1] = wish[r][1] /\ wish'[r][2] = wish[r][2]
<1>1. r \in Requests /\ RequestsTyped /\ pc[r] = "findRole" /\ About(r)
  BY RegistrationMoves, KindsOfRequest DEF Shapes, RequestsTyped, Register
<1>2. PICK u \in Users, t \in Tenants, x \in Roles \cup {None} : wish[r] = <<u, t, x>>
  BY <1>1 DEF About, Signed
<1>3. CASE \E ro \in Visible(TenantOf(r), "USER") : wish' = [wish EXCEPT ![r][3] = ro]
  <2>1. PICK ro \in Roles : wish' = [wish EXCEPT ![r][3] = ro]
    BY <1>3 DEF Visible
  <2>2. [<<u, t, x>> EXCEPT ![3] = ro] = <<u, t, ro>>
    OBVIOUS
  <2>3. wish'[r] = <<u, t, ro>>
    BY <1>1, <1>2, <2>1, <2>2 DEF RequestsTyped
  <2> QED BY <1>2, <2>3
<1> QED BY <1>3 DEF FindRole

\* The registration of a user: nobody becomes the creator, and who is let in
\* gets a role.
LEMMA RegistrationKeepsPresence ==
    ASSUME Shapes, PresenceInv, NEW r \in Registrations, Register(r)
    PROVE  PresenceInv'
<1>1. RequestsTyped /\ TablesTyped /\ r \in Requests
  BY KindsOfRequest DEF Shapes
<1>2. UNCHANGED state
  BY DEF Register, Signup, FindByEmail, CreateUser, FindRole, AddMember, Welcome, shop
<1>3. \A x \in Registrations \ {r} : pc'[x] = pc[x] /\ wish'[x] = wish[x]
  <2>1. \A x \in Registrations \ {r} : pc'[x] = pc[x]
    BY <1>1, RegistrationMoves, KindsOfRequest
  <2>2. \A x \in Registrations \ {r} : wish'[x] = wish[x]
    BY <1>1, KindsOfRequest DEF Register, Signup, FindByEmail, CreateUser, FindRole,
       AddMember, Welcome, locals, RequestsTyped
  <2> QED BY <2>1, <2>2
<1>4. \A c \in Creations : pc'[c] = pc[c]
  BY <1>1, RegistrationMoves, KindsOfRequest
<1>5. Founder \in exists' /\ (Past(r)' => wish'[r][1] # Founder)
  <2>1. CASE CreateUser(r)
    BY <1>1, <2>1, OneMoves DEF CreateUser, User, Past, PresenceInv, locals
  <2>2. CASE FindRole(r)
    <3>1. UNCHANGED exists /\ Past(r)
      BY <1>1, <2>2, RegistrationMoves DEF FindRole, access, Past
    <3> QED BY <2>2, <3>1, FindRoleKeeps DEF PresenceInv
  <2>3. CASE ~CreateUser(r) /\ ~FindRole(r)
    <3>1. UNCHANGED exists
      BY <2>3 DEF Register, Signup, FindByEmail, AddMember, Welcome, access
    <3>2. Past(r)' => Past(r) /\ wish'[r] = wish[r]
      <4>1. Past(r)' => AddMember(r) \/ Welcome(r)
        BY <1>1, <2>3, RegistrationMoves DEF Past, Register
      <4> QED BY <1>1, <4>1, RegistrationMoves DEF Past, AddMember, Welcome, locals
    <3> QED BY <3>1, <3>2 DEF PresenceInv
  <2> QED BY <2>1, <2>2, <2>3
<1>6. Founder \in exists' /\ \A x \in Registrations : Past(x)' => wish'[x][1] # Founder
  BY <1>3, <1>5 DEF PresenceInv, Past
<1>7. CASE AddMember(r) /\ ~UNCHANGED member
  <2>1. PICK u \in Users, t \in Tenants, ro \in Roles : wish[r] = <<u, t, ro>>
    BY <1>1, <1>7, RegistrationMoves DEF RequestsTyped, About, Signed
  <2>2. /\ Present(t) /\ UNCHANGED wish
        /\ member' = [member EXCEPT ![<<u, t>>] = ro]
    BY <1>7, <2>1 DEF AddMember, User, TenantOf, locals
  <2>3. /\ member'[<<u, t>>] = ro /\ ro # None
        /\ \A k \in Keys : k # <<u, t>> => member'[k] = member[k]
    BY <1>1, <2>1, <2>2, NoneIsNoRole DEF TablesTyped, Keys
  <2>4. u # Founder
    BY <1>1, <1>7, <2>1, RegistrationMoves DEF PresenceInv, Past
  <2>5. ASSUME NEW c \in Creations, pc[c] = "success", Present(c)
        PROVE  member'[<<Founder, c>>] = <<c, "ADMIN">>
    <3>1. <<Founder, c>> \in Keys /\ <<Founder, c>> # <<u, t>>
      BY <2>4, ProvisioningConstants, KindsOfRequest DEF Keys
    <3> QED BY <2>3, <2>5, <3>1 DEF PresenceInv
  <2>6. ASSUME NEW x \in Registrations, Let(x)'
        PROVE  /\ state[wish[x][2]] # "none"
               /\ Present(wish[x][2]) => member'[<<wish[x][1], wish[x][2]>>] # None
    <3>1. CASE x = r
      BY <2>1, <2>2, <2>3, <3>1 DEF Present
    <3>2. CASE x # r
      <4>1. Let(x) /\ About(x) /\ pc[x] \in Signed
        BY <1>3, <2>6, <3>2, KindsOfRequest DEF Shapes, RequestsTyped, Let, Signed
      <4>2. <<wish[x][1], wish[x][2]>> \in Keys
        BY <4>1 DEF About, Keys
      <4>3. /\ state[wish[x][2]] # "none"
            /\ Present(wish[x][2]) => member[<<wish[x][1], wish[x][2]>>] # None
        BY <4>1 DEF PresenceInv
      <4> QED BY <2>3, <4>2, <4>3
    <3> QED BY <3>1, <3>2
  <2> QED BY <1>2, <1>4, <1>6, <2>2, <2>5, <2>6 DEF PresenceInv, Present, Let, Past
<1>8. CASE UNCHANGED member /\ ~(Let(r)' /\ ~Let(r))
  <2>1. Let(r)' => Let(r) /\ wish'[r] = wish[r]
    <3>1. Let(r)' => Welcome(r) \/ AddMember(r)
      BY <1>1, RegistrationMoves DEF Let, Register
    <3> QED BY <1>8, <3>1 DEF Welcome, AddMember, locals
  <2>2. \A x \in Registrations : Let(x)' => Let(x) /\ wish'[x] = wish[x]
    BY <1>3, <2>1 DEF Let
  <2> QED BY <1>2, <1>4, <1>6, <1>8, <2>2 DEF PresenceInv, Present, Let, Past
<1>9. (AddMember(r) /\ ~UNCHANGED member) \/ (UNCHANGED member /\ ~(Let(r)' /\ ~Let(r)))
      \/ (AddMember(r) /\ UNCHANGED member /\ Let(r)')
  <2>1. ~AddMember(r) => UNCHANGED member /\ (Let(r)' => Let(r))
    <3>1. ~AddMember(r) => UNCHANGED member
      BY DEF Register, Signup, FindByEmail, CreateUser, FindRole, Welcome, access
    <3>2. ~AddMember(r) /\ Let(r)' => Let(r)
      BY <1>1, RegistrationMoves DEF Let, Register
    <3> QED BY <3>1, <3>2
  <2> QED BY <2>1
<1>10. CASE AddMember(r) /\ UNCHANGED member /\ Let(r)'
  <2>1. PICK u \in Users, t \in Tenants, ro \in Roles : wish[r] = <<u, t, ro>>
    BY <1>1, <1>10, RegistrationMoves DEF RequestsTyped, About, Signed
  <2>2. pc'[r] # "failed"
    BY <1>10 DEF Let
  <2>3. /\ Present(t) /\ UNCHANGED wish
        /\ member' = [member EXCEPT ![<<u, t>>] = ro]
    BY <1>1, <1>10, <2>1, <2>2, OneMoves DEF AddMember, User, TenantOf, locals
  <2>4. member[<<u, t>>] # None
    BY <1>1, <1>10, <2>1, <2>3, NoneIsNoRole DEF TablesTyped, Keys
  <2>5. \A x \in Registrations : Let(x)' =>
          /\ state[wish[x][2]] # "none"
          /\ Present(wish[x][2]) => member[<<wish[x][1], wish[x][2]>>] # None
    BY <1>3, <2>1, <2>3, <2>4 DEF PresenceInv, Let, Present
  <2> QED BY <1>2, <1>4, <1>6, <1>10, <2>3, <2>5 DEF PresenceInv, Present, Let, Past
<1> QED BY <1>7, <1>8, <1>9, <1>10

\* Every step keeps PresenceInv.
LEMMA NextKeepsPresence == Shapes /\ HomeInv /\ PresenceInv /\ [Next]_vars => PresenceInv'
<1> SUFFICES ASSUME Shapes, HomeInv, PresenceInv, [Next]_vars PROVE PresenceInv'
  OBVIOUS
<1>1. RequestsTyped /\ TablesTyped
  BY DEF Shapes
<1>2. ASSUME NEW e \in Edits, FindTenant(e) \/ WriteTenant(e) PROVE PresenceInv'
  <2>1. /\ \A r \in Registrations : pc'[r] = pc[r] /\ wish'[r] = wish[r]
        /\ \A c \in Creations : pc'[c] = pc[c]
    BY <1>1, <1>2, KindsOfRequest, OneMoves DEF FindTenant, WriteTenant, locals, RequestsTyped
  <2>2. UNCHANGED <<exists, member>>
    BY <1>2 DEF FindTenant, WriteTenant, access
  <2>3. \A t \in Tenants : state'[t] = state[t] \/ (Present(t) /\ Present(t)')
    BY <1>1, <1>2 DEF FindTenant, WriteTenant, TablesTyped, Present, shop
  <2>4. \A t \in Tenants : /\ Present(t)' => Present(t)
                           /\ state'[t] = "none" => state[t] = "none"
    BY <2>3 DEF Present
  <2> QED BY <2>1, <2>2, <2>4, KindsOfRequest, PresenceKept DEF Past, Let
<1>3. ASSUME NEW t \in Tenants, DeleteTenant(t) PROVE PresenceInv'
  <2>1. UNCHANGED <<exists, pc, wish>>
    BY <1>3 DEF DeleteTenant, locals
  <2>2. /\ ~Present(t)'
        /\ \A x \in Tenants : /\ Present(x)' => Present(x)
                              /\ state'[x] = "none" => state[x] = "none"
    BY <1>1, <1>3 DEF DeleteTenant, Present, TablesTyped
  <2>3. \A k \in Keys : Present(k[2])' => member'[k] = member[k]
    BY <1>3, <2>2 DEF DeleteTenant
  <2> QED BY <2>1, <2>2, <2>3, KindsOfRequest, PresenceKept DEF Past, Let
<1>4. ASSUME NEW r \in Requests, Fail(r) PROVE PresenceInv'
  <2>1. pc'[r] = "failed" /\ \A x \in Requests \ {r} : pc'[x] = pc[x]
    BY <1>1, <1>4, OneMoves DEF Fail
  <2>2. UNCHANGED <<state, exists, member, wish>>
    BY <1>4 DEF Fail, shop, access, locals
  <2> QED BY <2>1, <2>2, KindsOfRequest, PresenceKept DEF Past, Let, Present
<1>5. ASSUME (\E p \in Fragile : DeletePermission(p)) \/ UNCHANGED vars PROVE PresenceInv'
  <2>1. UNCHANGED <<state, exists, member, pc, wish>>
    BY <1>5 DEF DeletePermission, vars, shop, access, locals
  <2> QED BY <2>1, PresenceKept DEF Past, Let, Present
<1> QED BY <1>2, <1>3, <1>4, <1>5, CreationKeepsPresence, RegistrationKeepsPresence DEF Next

\* In the beginning no tenant but the platform has roles, and nobody is in.
LEMMA RolesAtFirst == Init => RolesInv
<1> SUFFICES ASSUME Init PROVE RolesInv
  OBVIOUS
<1>1. taken = {} /\ \A c \in Creations : pc[c] = "idle"
  BY KindsOfRequest DEF Init, InitAt
<1>2. \A c \in Creations, name \in DOMAIN DefaultRoles : grants[<<c, name>>] = None
  <2>1. \A c \in Creations, name \in DOMAIN DefaultRoles : <<c, name>> \in Roles /\ c # Platform
    BY KindsOfRequest, ProvisioningConstants DEF Roles, RoleNames
  <2> QED BY <2>1 DEF Init, InitAt
<1>3. \A name : "idle" \notin Since(name)
  BY DEF Since
<1> QED BY <1>1, <1>2, <1>3 DEF RolesInv

\* The platform's administrator exists, and nothing has been asked for.
LEMMA PresenceAtFirst == Init => PresenceInv
  BY KindsOfRequest DEF Init, InitAt, PresenceInv, Past, Let

\* Whatever is deleted, edited and created meanwhile: a creation that reports
\* success has made its roles, with their permissions, and an administrator,
\* and a registration that does has let its user in.
THEOREM SuccessIsComplete == Spec => []SuccessMeansComplete
<1>1. Init => HomeInv
  BY HomesAtFirst
<1>2. Init => RolesInv
  BY RolesAtFirst
<1>3. Init => PresenceInv
  BY PresenceAtFirst
<1>4. RolesInv /\ PresenceInv => SuccessMeansComplete
  <2> SUFFICES ASSUME RolesInv, PresenceInv PROVE SuccessMeansComplete
    OBVIOUS
  <2>1. \A name : "success" \in Since(name)
    BY DEF Since
  <2>2. ASSUME NEW c \in Creations, pc[c] = "success", NEW name \in DOMAIN DefaultRoles
        PROVE  grants[<<c, name>>] =
                   DefaultRoles[name] \ {p \in Fragile : <<<<c, name>>, p>> \in taken}
    <3>1. pc[c] \in Since(name)
      BY <2>1, <2>2
    <3> QED BY <3>1 DEF RolesInv
  <2> QED BY <2>2 DEF PresenceInv, SuccessMeansComplete, At, Let
<1> QED BY <1>1, <1>2, <1>3, <1>4, InitShapes, NextShapes, NextKeepsHomes, NextKeepsRoles,
           NextKeepsPresence, PTL DEF Spec


------------------------------------------------------------------------------
(* Types *)

\* The permissions a creation looks for are default ones, and those it has
\* exist, until they are deleted.
PermissionsInv ==
    /\ names \subseteq SeededPermissions \cup DefaultPermissions
    /\ todo \in [Creations -> SUBSET DefaultPermissions]
    /\ hand \in [Creations -> SUBSET names]
    /\ missing = [c \in Creations |-> missing[c]]
    /\ \A c \in Creations : pc[c] = "createPermission" => missing[c] \in DefaultPermissions
    /\ away \in 0..MaxAway

\* A role has a name that its tenant's roles may have, and its permissions,
\* less some that were deleted.
GrantsInv ==
    \A t \in Tenants, name \in RoleNames : RoleExists(<<t, name>>) =>
        /\ name \in DOMAIN RolesFor(t)
        /\ \E gone \in SUBSET Fragile : grants[<<t, name>>] = RolesFor(t)[name] \ gone

\* Members exist, and so do their roles, and a role that one is to get.
MembersInv ==
    /\ \A k \in Keys : member[k] # None => RoleExists(member[k]) /\ k[1] \in exists
    /\ \A r \in Registrations : pc[r] = "addTenant" => RoleExists(wish[r][3])

\* Only these steps touch the roles.
LEMMA GrantSteps ==
    ASSUME [Next]_vars
    PROVE  \/ UNCHANGED grants
           \/ \E c \in Creations : CreateRole(c)
           \/ \E p \in Fragile : DeletePermission(p)
<1>1. ASSUME NEW c \in Creations, CreateTenant(c) PROVE UNCHANGED grants \/ CreateRole(c)
  BY <1>1 DEF CreateTenant, FindBySlug, Create, FindPermissions, CreatePermission, AddCreator, access
<1>2. ASSUME NEW r \in Registrations, Register(r) PROVE UNCHANGED grants
  BY <1>2 DEF Register, Signup, FindByEmail, CreateUser, FindRole, AddMember, Welcome, access
<1>3. ASSUME \/ \E e \in Edits : FindTenant(e) \/ WriteTenant(e)
             \/ \E t \in Tenants : DeleteTenant(t)
             \/ \E r \in Requests : Fail(r)
             \/ UNCHANGED vars
      PROVE  UNCHANGED grants
  BY <1>3 DEF FindTenant, WriteTenant, DeleteTenant, Fail, vars, access
<1> QED BY <1>1, <1>2, <1>3 DEF Next

\* A creation makes a role of its tenant with the permissions of its name.
LEMMA NewGrant ==
    ASSUME Shapes, NEW c \in Creations, CreateRole(c), ~UNCHANGED grants
    PROVE  \E name \in DOMAIN DefaultRoles :
               /\ <<c, name>> \in Roles /\ grants'[<<c, name>>] = DefaultRoles[name]
               /\ \A ro \in Roles : ro # <<c, name>> => grants'[ro] = grants[ro]
<1>1. pc[c] \in DOMAIN DefaultRoles /\ grants' = [grants EXCEPT ![<<c, pc[c]>>] = DefaultRoles[pc[c]]]
  BY DEF CreateRole
<1>2. <<c, pc[c]>> \in Roles
  BY <1>1, KindsOfRequest DEF Roles, RoleNames
<1> QED BY <1>1, <1>2 DEF Shapes, TablesTyped

\* Every step keeps GrantsInv, and no role is ever deleted.
LEMMA NextKeepsGrants ==
    ASSUME Shapes, GrantsInv, [Next]_vars
    PROVE  GrantsInv' /\ \A ro \in Roles : RoleExists(ro) => RoleExists(ro)'
<1>1. CASE UNCHANGED grants
  BY <1>1 DEF GrantsInv, RoleExists
<1>2. ASSUME NEW c \in Creations, CreateRole(c), ~UNCHANGED grants
      PROVE  GrantsInv' /\ \A ro \in Roles : RoleExists(ro) => RoleExists(ro)'
  <2>1. PICK name \in DOMAIN DefaultRoles :
            /\ <<c, name>> \in Roles /\ grants'[<<c, name>>] = DefaultRoles[name]
            /\ \A ro \in Roles : ro # <<c, name>> => grants'[ro] = grants[ro]
    BY <1>2, NewGrant
  <2>2. RolesFor(c) = DefaultRoles /\ c \in Tenants
    BY KindsOfRequest, ProvisioningConstants DEF RolesFor
  <2>3. DefaultRoles[name] = DefaultRoles[name] \ {} /\ {} \in SUBSET Fragile
    OBVIOUS
  <2>4. DefaultRoles[name] # None
    BY <2>1, <2>2, <2>3, NoneIsNoGrant
  <2>5. GrantsInv'
    <3> SUFFICES ASSUME NEW t \in Tenants, NEW x \in RoleNames, grants'[<<t, x>>] # None
                 PROVE  /\ x \in DOMAIN RolesFor(t)
                        /\ \E gone \in SUBSET Fragile :
                               grants'[<<t, x>>] = RolesFor(t)[x] \ gone
      BY DEF GrantsInv, RoleExists
    <3>1. CASE <<t, x>> = <<c, name>>
      BY <2>1, <2>2, <2>3, <3>1
    <3>2. CASE <<t, x>> # <<c, name>>
      BY <2>1, <3>2 DEF GrantsInv, RoleExists, Roles
    <3> QED BY <3>1, <3>2
  <2> QED BY <2>1, <2>4, <2>5 DEF RoleExists
<1>3. ASSUME NEW p \in Fragile, DeletePermission(p)
      PROVE  GrantsInv' /\ \A ro \in Roles : RoleExists(ro) => RoleExists(ro)'
  <2>1. grants' = [ro \in Roles |-> IF RoleExists(ro) THEN grants[ro] \ {p} ELSE None]
    BY <1>3 DEF DeletePermission
  <2>2. ASSUME NEW t \in Tenants, NEW x \in RoleNames, RoleExists(<<t, x>>)
        PROVE  /\ x \in DOMAIN RolesFor(t) /\ grants'[<<t, x>>] # None
               /\ \E gone \in SUBSET Fragile : grants'[<<t, x>>] = RolesFor(t)[x] \ gone
    <3>1. PICK gone \in SUBSET Fragile : grants[<<t, x>>] = RolesFor(t)[x] \ gone
      BY <2>2 DEF GrantsInv
    <3>2. x \in DOMAIN RolesFor(t)
      BY <2>2 DEF GrantsInv
    <3>3. grants'[<<t, x>>] = RolesFor(t)[x] \ (gone \cup {p}) /\ gone \cup {p} \in SUBSET Fragile
      BY <2>1, <2>2, <3>1 DEF Roles
    <3> HIDE DEF RolesFor
    <3> QED BY <3>2, <3>3, NoneIsNoGrant
  <2>3. ASSUME NEW ro \in Roles, ~RoleExists(ro) PROVE ~RoleExists(ro)'
    BY <2>1, <2>3 DEF RoleExists
  <2> QED BY <2>2, <2>3 DEF GrantsInv, RoleExists, Roles
<1> QED BY <1>1, <1>2, <1>3, GrantSteps


\* A step that leaves the permissions and those who look for them alone.
LEMMA PermissionsKept ==
    ASSUME PermissionsInv, UNCHANGED <<names, todo, hand, missing>>, away' \in 0..MaxAway,
           \A c \in Creations : pc'[c] = "createPermission" => pc[c] = "createPermission"
    PROVE  PermissionsInv'
  BY DEF PermissionsInv

\* The creation of a tenant keeps PermissionsInv.
LEMMA CreationKeepsPermissions ==
    ASSUME Shapes, PermissionsInv, NEW c \in Creations, CreateTenant(c)
    PROVE  PermissionsInv'
<1>1. RequestsTyped /\ c \in Requests /\ \A x \in Creations \ {c} : pc'[x] = pc[x]
  BY CreationMoves, KindsOfRequest DEF Shapes
<1>2. away' = away
  BY DEF CreateTenant, FindBySlug, Create, FindPermissions, CreatePermission, CreateRole,
         AddCreator, counts
<1>3. CASE FindBySlug(c) \/ CreateRole(c) \/ AddCreator(c)
  <2>1. UNCHANGED <<names, todo, hand, missing>>
    BY <1>3 DEF FindBySlug, CreateRole, AddCreator, access, locals
  <2>2. pc'[c] # "createPermission"
    BY <1>1, <1>3, CreationMoves
  <2> QED BY <1>1, <1>2, <2>1, <2>2, PermissionsKept DEF PermissionsInv
<1>4. CASE Create(c)
  <2>1. UNCHANGED <<names, hand, missing>> /\ pc'[c] # "createPermission"
    BY <1>1, <1>4, CreationMoves DEF Create, access
  <2>2. todo' \in [Creations -> SUBSET DefaultPermissions]
    BY <1>4 DEF Create, PermissionsInv
  <2> QED BY <1>1, <1>2, <2>1, <2>2 DEF PermissionsInv
<1>5. CASE FindPermissions(c)
  <2>1. UNCHANGED names /\ hand' = [hand EXCEPT ![c] = @ \cup (todo[c] \cap names)]
    BY <1>5 DEF FindPermissions, access
  <2>2. hand' \in [Creations -> SUBSET names]
    BY <2>1 DEF PermissionsInv
  <2>3. CASE todo[c] \subseteq names
    <3>1. /\ todo' = [todo EXCEPT ![c] = {}] /\ UNCHANGED missing
          /\ Goto(c, RoleOrder[1])
      BY <1>5, <2>3 DEF FindPermissions
    <3>2. pc'[c] # "createPermission"
      BY <1>1, <3>1, RolesInOrder, OneMoves
    <3> QED BY <1>1, <1>2, <2>1, <2>2, <3>1, <3>2 DEF PermissionsInv
  <2>4. CASE ~(todo[c] \subseteq names)
    <3>1. PICK p \in todo[c] \ names : /\ todo' = [todo EXCEPT ![c] = (@ \ names) \ {p}]
                                       /\ missing' = [missing EXCEPT ![c] = p]
      BY <1>5, <2>4 DEF FindPermissions
    <3>2. p \in DefaultPermissions
      BY DEF PermissionsInv
    <3>3. todo' \in [Creations -> SUBSET DefaultPermissions]
      BY <3>1 DEF PermissionsInv
    <3>4. missing' = [x \in Creations |-> missing'[x]] /\ missing'[c] = p
          /\ \A x \in Creations \ {c} : missing'[x] = missing[x]
      BY <3>1 DEF PermissionsInv
    <3> QED BY <1>1, <1>2, <2>1, <2>2, <3>2, <3>3, <3>4 DEF PermissionsInv
  <2> QED BY <2>3, <2>4
<1>6. CASE CreatePermission(c)
  <2>1. UNCHANGED todo /\ missing' = [missing EXCEPT ![c] = None]
        /\ pc[c] = "createPermission" /\ pc'[c] # "createPermission"
    BY <1>1, <1>6, CreationMoves DEF CreatePermission
  <2>2. missing' = [x \in Creations |-> missing'[x]]
        /\ \A x \in Creations \ {c} : missing'[x] = missing[x]
    BY <2>1 DEF PermissionsInv
  <2>3. CASE UNCHANGED <<names, hand>>
    BY <1>1, <1>2, <2>1, <2>2, <2>3 DEF PermissionsInv
  <2>4. CASE /\ names' = names \cup {missing[c]}
             /\ hand' = [hand EXCEPT ![c] = @ \cup {missing[c]}]
    <3>1. missing[c] \in DefaultPermissions
      BY <2>1 DEF PermissionsInv
    <3>2. hand' \in [Creations -> SUBSET names']
      BY <2>4 DEF PermissionsInv
    <3> QED BY <1>1, <1>2, <2>1, <2>2, <2>4, <3>1, <3>2 DEF PermissionsInv
  <2> QED BY <1>6, <2>3, <2>4 DEF CreatePermission
<1> QED BY <1>3, <1>4, <1>5, <1>6 DEF CreateTenant

\* Every step does.
LEMMA NextKeepsPermissions == Shapes /\ PermissionsInv /\ [Next]_vars => PermissionsInv'
<1> SUFFICES ASSUME Shapes, PermissionsInv, [Next]_vars PROVE PermissionsInv'
  OBVIOUS
<1>1. RequestsTyped /\ away \in 0..MaxAway
  BY DEF Shapes, PermissionsInv
<1>2. ASSUME NEW r \in Registrations, Register(r) PROVE PermissionsInv'
  <2>1. \A c \in Creations : pc'[c] = pc[c]
    BY <1>1, <1>2, RegistrationMoves, KindsOfRequest
  <2>2. UNCHANGED <<names, todo, hand, missing, away>>
    BY <1>2 DEF Register, Signup, FindByEmail, CreateUser, FindRole, AddMember, Welcome,
                access, locals, counts
  <2> QED BY <1>1, <2>1, <2>2, PermissionsKept
<1>3. ASSUME NEW e \in Edits, FindTenant(e) \/ WriteTenant(e) PROVE PermissionsInv'
  <2>1. \A c \in Creations : pc'[c] = pc[c]
    BY <1>1, <1>3, KindsOfRequest, OneMoves DEF FindTenant, WriteTenant
  <2>2. UNCHANGED <<names, todo, hand, missing, away>>
    BY <1>3 DEF FindTenant, WriteTenant, access, locals, counts
  <2> QED BY <1>1, <2>1, <2>2, PermissionsKept
<1>4. ASSUME NEW r \in Requests, Fail(r) PROVE PermissionsInv'
  <2>1. pc'[r] = "failed" /\ \A x \in Requests \ {r} : pc'[x] = pc[x]
    BY <1>1, <1>4, OneMoves DEF Fail
  <2>2. UNCHANGED <<names, todo, hand, missing, away>>
    BY <1>4 DEF Fail, access, locals, counts
  <2> QED BY <1>1, <2>1, <2>2, KindsOfRequest, PermissionsKept
<1>5. ASSUME NEW t \in Tenants, DeleteTenant(t) PROVE PermissionsInv'
  <2>1. UNCHANGED <<names, todo, hand, missing, pc>> /\ away' = away + 1 /\ away < MaxAway
    BY <1>5 DEF DeleteTenant, locals
  <2>2. away' \in 0..MaxAway
    BY <1>1, <2>1, ProvisioningConstants
  <2> QED BY <2>1, <2>2, PermissionsKept
<1>6. ASSUME NEW p \in Fragile, DeletePermission(p) PROVE PermissionsInv'
  <2>1. /\ UNCHANGED <<todo, missing, pc>> /\ away' = away + 1 /\ away < MaxAway
        /\ names' = names \ {p} /\ hand' = [c \in Creations |-> hand[c] \ {p}]
    BY <1>6 DEF DeletePermission
  <2>2. away' \in 0..MaxAway
    BY <1>1, <2>1, ProvisioningConstants
  <2>3. hand' \in [Creations -> SUBSET names']
    BY <2>1 DEF PermissionsInv
  <2> QED BY <2>1, <2>2, <2>3 DEF PermissionsInv
<1>7. CASE UNCHANGED vars
  BY <1>1, <1>7, PermissionsKept DEF vars, access, locals, counts
<1> QED BY <1>2, <1>3, <1>4, <1>5, <1>6, <1>7, CreationKeepsPermissions DEF Next


\* A step that makes nobody a member keeps MembersInv.
LEMMA MembersKept ==
    ASSUME Shapes, MembersInv, exists \subseteq exists',
           \A ro \in Roles : RoleExists(ro) => RoleExists(ro)',
           \A k \in Keys : member'[k] \in {member[k], None},
           \A r \in Registrations :
               pc'[r] = "addTenant" => pc[r] = "addTenant" /\ wish'[r] = wish[r]
    PROVE  MembersInv'
<1>1. ASSUME NEW k \in Keys, member'[k] # None
      PROVE  RoleExists(member[k])' /\ member'[k] = member[k] /\ k[1] \in exists'
  <2>1. member'[k] = member[k] /\ member[k] \in Roles
    BY <1>1 DEF Shapes, TablesTyped
  <2> QED BY <1>1, <2>1 DEF MembersInv
<1>2. ASSUME NEW r \in Registrations, pc'[r] = "addTenant"
      PROVE  RoleExists(wish[r][3])' /\ wish'[r] = wish[r]
  <2>1. pc[r] = "addTenant" /\ wish'[r] = wish[r] /\ About(r)
    BY <1>2, KindsOfRequest DEF Shapes, RequestsTyped
  <2>2. wish[r][3] \in Roles
    BY <2>1 DEF About, Signed
  <2> QED BY <2>1, <2>2 DEF MembersInv
<1> QED BY <1>1, <1>2 DEF MembersInv, RoleExists

\* The administrator of a new tenant has a role that exists.
LEMMA CreationKeepsMembers ==
    ASSUME Shapes, RolesInv, GrantsInv, PresenceInv, MembersInv, [Next]_vars,
           NEW c \in Creations, CreateTenant(c)
    PROVE  MembersInv'
<1>1. RequestsTyped /\ TablesTyped /\ c \in Requests /\ c \in Tenants
      /\ \A ro \in Roles : RoleExists(ro) => RoleExists(ro)'
  BY KindsOfRequest, NextKeepsGrants DEF Shapes
<1>2. \A r \in Registrations : pc'[r] = pc[r] /\ wish'[r] = wish[r]
  <2>1. \A r \in Registrations : pc'[r] = pc[r]
    BY <1>1, CreationMoves, KindsOfRequest
  <2>2. \A r \in Registrations : wish'[r] = wish[r]
    BY <1>1, KindsOfRequest DEF CreateTenant, FindBySlug, Create, FindPermissions,
       CreatePermission, CreateRole, AddCreator, locals, RequestsTyped
  <2> QED BY <2>1, <2>2
<1>3. UNCHANGED exists
  BY DEF CreateTenant, FindBySlug, Create, FindPermissions, CreatePermission, CreateRole,
         AddCreator, access
<1>4. CASE ~AddCreator(c)
  <2>1. UNCHANGED member
    BY <1>4 DEF CreateTenant, FindBySlug, Create, FindPermissions, CreatePermission, CreateRole,
                access
  <2> QED BY <1>1, <1>2, <1>3, <2>1, MembersKept
<1>5. CASE AddCreator(c)
  <2>1. pc[c] = "addTenant" /\ UNCHANGED grants
    BY <1>5 DEF AddCreator, At
  <2>2. <<c, "ADMIN">> \in Roles /\ RoleExists(<<c, "ADMIN">>)
    <3>1. "ADMIN" \in DOMAIN DefaultRoles /\ "ADMIN" \in RoleNames
      BY DefaultRoleNames
    <3>2. pc[c] \in Since("ADMIN")
      BY <2>1 DEF Since
    <3>3. grants[<<c, "ADMIN">>] =
              DefaultRoles["ADMIN"] \ {p \in Fragile : <<<<c, "ADMIN">>, p>> \in taken}
      BY <3>1, <3>2 DEF RolesInv
    <3>4. RolesFor(c) = DefaultRoles
      BY KindsOfRequest, ProvisioningConstants DEF RolesFor
    <3> DEFINE gone == {p \in Fragile : <<<<c, "ADMIN">>, p>> \in taken}
    <3>5. gone \in SUBSET Fragile
      OBVIOUS
    <3> HIDE DEF gone
    <3>6. DefaultRoles["ADMIN"] \ gone # None
      BY <1>1, <3>1, <3>4, <3>5, NoneIsNoGrant
    <3> QED BY <1>1, <3>1, <3>3, <3>6 DEF RoleExists, Roles, gone
  <2>3. \A k \in Keys : \/ member'[k] = member[k]
                        \/ member'[k] = <<c, "ADMIN">> /\ k[1] = Founder
    BY <1>1, <1>5 DEF AddCreator, TablesTyped
  <2>4. Founder \in exists
    BY DEF PresenceInv
  <2> QED BY <1>1, <1>2, <1>3, <2>1, <2>2, <2>3, <2>4 DEF MembersInv, RoleExists
<1> QED BY <1>4, <1>5

\* A user who registers exists when made a member, and so does the role.
LEMMA RegistrationKeepsMembers ==
    ASSUME Shapes, NamesInv, MembersInv, NEW r \in Registrations, Register(r)
    PROVE  MembersInv'
<1>1. RequestsTyped /\ TablesTyped /\ r \in Requests
  BY KindsOfRequest DEF Shapes
<1>2. UNCHANGED grants /\ \A ro \in Roles : RoleExists(ro) => RoleExists(ro)'
  BY DEF Register, Signup, FindByEmail, CreateUser, FindRole, AddMember, Welcome, access, RoleExists
<1>3. \A x \in Registrations \ {r} : pc'[x] = pc[x] /\ wish'[x] = wish[x]
  <2>1. \A x \in Registrations \ {r} : pc'[x] = pc[x]
    BY <1>1, RegistrationMoves, KindsOfRequest
  <2>2. \A x \in Registrations \ {r} : wish'[x] = wish[x]
    BY <1>1, KindsOfRequest DEF Register, Signup, FindByEmail, CreateUser, FindRole,
       AddMember, Welcome, locals, RequestsTyped
  <2> QED BY <2>1, <2>2
<1>4. exists \subseteq exists'
  BY DEF Register, Signup, FindByEmail, CreateUser, FindRole, AddMember, Welcome, access
<1>5. CASE AddMember(r)
  <2>1. pc[r] = "addTenant" /\ pc'[r] # "addTenant" /\ About(r)
    BY <1>1, <1>5, RegistrationMoves DEF RequestsTyped
  <2>2. wish[r][3] \in Roles /\ RoleExists(wish[r][3]) /\ wish[r][1] \in exists
    BY <2>1 DEF About, Signed, MembersInv, NamesInv, Past
  <2>3. \A k \in Keys : \/ member'[k] = member[k]
                        \/ member'[k] = wish[r][3] /\ k[1] = wish[r][1]
    BY <1>1, <1>5 DEF AddMember, TablesTyped, User, TenantOf
  <2>4. \A k \in Keys : member'[k] # None => RoleExists(member'[k]) /\ k[1] \in exists
    BY <2>2, <2>3 DEF MembersInv
  <2>5. \A x \in Registrations : pc'[x] = "addTenant" => pc[x] = "addTenant" /\ wish'[x] = wish[x]
    BY <1>3, <2>1
  <2> QED BY <1>2, <1>4, <2>4, <2>5 DEF MembersInv, RoleExists
<1>6. CASE FindRole(r) /\ pc'[r] = "addTenant"
  <2>1. UNCHANGED <<member, exists>>
    BY <1>6 DEF FindRole, access
  <2>2. PICK ro \in Visible(TenantOf(r), "USER") : wish' = [wish EXCEPT ![r][3] = ro]
    BY <1>1, <1>6, OneMoves DEF FindRole
  <2>3. pc[r] = "findRole" /\ About(r)
    BY <1>1, <1>6, RegistrationMoves DEF RequestsTyped
  <2>4. PICK u \in Users, t \in Tenants, x \in Roles \cup {None} : wish[r] = <<u, t, x>>
    BY <2>3 DEF About, Signed
  <2>5. [<<u, t, x>> EXCEPT ![3] = ro] = <<u, t, ro>>
    OBVIOUS
  <2>6. wish'[r] = <<u, t, ro>>
    BY <1>1, <2>2, <2>4, <2>5 DEF RequestsTyped
  <2>7. wish'[r][3] = ro /\ RoleExists(ro)
    BY <2>6 DEF Visible
  <2> QED BY <1>2, <1>3, <2>1, <2>7 DEF MembersInv, RoleExists
<1>7. CASE ~AddMember(r) /\ pc'[r] # "addTenant"
  <2>1. UNCHANGED member
    BY <1>7 DEF Register, Signup, FindByEmail, CreateUser, FindRole, Welcome, access
  <2> QED BY <1>2, <1>3, <1>4, <1>7, <2>1, MembersKept
<1>8. ~AddMember(r) /\ pc'[r] = "addTenant" => FindRole(r)
  BY <1>1, RegistrationMoves DEF Register
<1> QED BY <1>5, <1>6, <1>7, <1>8

\* Every step keeps MembersInv.
LEMMA NextKeepsMembers ==
    Shapes /\ NamesInv /\ RolesInv /\ GrantsInv /\ PresenceInv /\ MembersInv /\ [Next]_vars
        => MembersInv'
<1> SUFFICES ASSUME Shapes, NamesInv, RolesInv, GrantsInv, PresenceInv, MembersInv, [Next]_vars
             PROVE  MembersInv'
  OBVIOUS
<1>1. RequestsTyped /\ \A ro \in Roles : RoleExists(ro) => RoleExists(ro)'
  BY NextKeepsGrants DEF Shapes
<1>2. ASSUME NEW e \in Edits, FindTenant(e) \/ WriteTenant(e) PROVE MembersInv'
  <2>1. \A r \in Registrations : pc'[r] = pc[r] /\ wish'[r] = wish[r]
    BY <1>1, <1>2, KindsOfRequest, OneMoves DEF FindTenant, WriteTenant, locals, RequestsTyped
  <2>2. UNCHANGED <<exists, member>>
    BY <1>2 DEF FindTenant, WriteTenant, access
  <2> QED BY <1>1, <2>1, <2>2, MembersKept
<1>3. ASSUME NEW r \in Requests, Fail(r) PROVE MembersInv'
  <2>1. pc'[r] = "failed" /\ \A x \in Requests \ {r} : pc'[x] = pc[x]
    BY <1>1, <1>3, OneMoves DEF Fail
  <2>2. UNCHANGED <<exists, member, wish>>
    BY <1>3 DEF Fail, access, locals
  <2> QED BY <1>1, <2>1, <2>2, KindsOfRequest, MembersKept
<1>4. ASSUME \/ \E t \in Tenants : DeleteTenant(t)
             \/ \E p \in Fragile : DeletePermission(p)
             \/ UNCHANGED vars
      PROVE  MembersInv'
  <2>1. UNCHANGED <<exists, pc, wish>> /\ \A k \in Keys : member'[k] \in {member[k], None}
    BY <1>4 DEF DeleteTenant, DeletePermission, vars, access, locals
  <2> QED BY <1>1, <2>1, MembersKept
<1> QED BY <1>2, <1>3, <1>4, CreationKeepsMembers, RegistrationKeepsMembers DEF Next


\* In the beginning there are the roles of the platform, as they are seeded,
\* and its administrator is its only member.
LEMMA TablesAtFirst == Init => PermissionsInv /\ GrantsInv /\ MembersInv
<1> SUFFICES ASSUME Init PROVE PermissionsInv /\ GrantsInv /\ MembersInv
  OBVIOUS
<1>1. PermissionsInv
  BY KindsOfRequest, ProvisioningConstants DEF Init, InitAt, PermissionsInv
<1>2. \A t \in Tenants, name \in RoleNames :
          grants[<<t, name>>] = IF t = Platform /\ name \in DOMAIN SeededRoles
                                THEN SeededRoles[name] ELSE None
  <2>1. \A t \in Tenants, name \in RoleNames :
            <<t, name>> \in Roles /\ <<t, name>>[1] = t /\ <<t, name>>[2] = name
    BY DEF Roles
  <2> HIDE DEF SeededRoles
  <2> QED BY <2>1 DEF Init, InitAt
<1>3. GrantsInv
  <2> SUFFICES ASSUME NEW t \in Tenants, NEW name \in RoleNames, RoleExists(<<t, name>>)
               PROVE  /\ name \in DOMAIN RolesFor(t)
                      /\ \E gone \in SUBSET Fragile :
                             grants[<<t, name>>] = RolesFor(t)[name] \ gone
    BY DEF GrantsInv
  <2>1. /\ t = Platform /\ name \in DOMAIN SeededRoles
        /\ grants[<<t, name>>] = SeededRoles[name]
    BY <1>2 DEF RoleExists
  <2>2. SeededRoles[name] = SeededRoles[name] \ {} /\ {} \in SUBSET Fragile
    OBVIOUS
  <2> QED BY <2>1, <2>2 DEF RolesFor
<1>4. <<Platform, "SUPER_ADMIN">> \in Roles /\ RoleExists(<<Platform, "SUPER_ADMIN">>)
  <2>1. "SUPER_ADMIN" \in DOMAIN SeededRoles /\ Platform \in Tenants
    BY DEF SeededRoles, Tenants
  <2>2. SeededRoles["SUPER_ADMIN"] \ {} # None /\ "SUPER_ADMIN" \in RoleNames
    BY <2>1, NoneIsNoGrant DEF RolesFor, RoleNames
  <2>3. SeededRoles["SUPER_ADMIN"] # None
    <3>1. SeededRoles["SUPER_ADMIN"] \ {} = SeededRoles["SUPER_ADMIN"]
      OBVIOUS
    <3> QED BY <2>2, <3>1
  <2> QED BY <1>2, <2>1, <2>2, <2>3 DEF RoleExists, Roles
<1>5. MembersInv
  <2>1. \A k \in Keys : member[k] # None => member[k] = <<Platform, "SUPER_ADMIN">> /\ k[1] \in exists
    BY DEF Init, InitAt
  <2>2. \A r \in Registrations : pc[r] = "idle"
    BY KindsOfRequest DEF Init, InitAt
  <2> QED BY <1>4, <2>1, <2>2 DEF MembersInv
<1> QED BY <1>1, <1>3, <1>5

\* All of the above.
TypeInv ==
    /\ Shapes /\ NamesInv /\ HomeInv /\ RolesInv /\ PresenceInv
    /\ PermissionsInv /\ GrantsInv /\ MembersInv

\* Together they hold at first, and every step keeps them.
LEMMA ProvisioningInv == Spec => []TypeInv
<1>1. Init => NamesInv
  BY KindsOfRequest DEF Init, InitAt, NamesInv, Past, Present
<1>2. Init => TypeInv
  BY <1>1, InitShapes, HomesAtFirst, RolesAtFirst, PresenceAtFirst, TablesAtFirst DEF TypeInv
<1>3. TypeInv /\ [Next]_vars => TypeInv'
  <2> SUFFICES ASSUME TypeInv, [Next]_vars PROVE TypeInv'
    OBVIOUS
  <2>1. NamesInv'
    BY NextKeepsSlugs, NextKeepsUsers DEF NamesInv, TypeInv
  <2> QED BY <2>1, NextShapes, NextKeepsHomes, NextKeepsRoles, NextKeepsPresence,
             NextKeepsPermissions, NextKeepsGrants, NextKeepsMembers DEF TypeInv
<1> QED BY <1>2, <1>3, PTL DEF Spec

\* Whatever is created, registered, edited and deleted meanwhile: the tables
\* keep their types, roles have permissions that are known, and every
\* membership is that of a user who exists, with a role that exists.
THEOREM ProvisioningTyped == Spec => []TypeOK
<1>1. TypeInv => TypeOK
  <2> SUFFICES ASSUME TypeInv PROVE TypeOK
    OBVIOUS
  <2>1. ASSUME NEW ro \in Roles, RoleExists(ro)
        PROVE  grants[ro] \subseteq SeededPermissions \cup DefaultPermissions
    <3>1. PICK t \in Tenants, name \in RoleNames : ro = <<t, name>>
      BY DEF Roles
    <3>2. name \in DOMAIN RolesFor(t) /\ grants[ro] \subseteq RolesFor(t)[name]
      BY <2>1, <3>1 DEF TypeInv, GrantsInv
    <3>3. CASE t = Platform
      BY <3>2, <3>3, SeededRolesAreSeeded DEF RolesFor
    <3>4. CASE t # Platform
      <4>1. RolesFor(t) = DefaultRoles
        BY <3>4 DEF RolesFor
      <4> QED BY <3>2, <4>1, DefaultRoleNames
    <3> QED BY <3>3, <3>4
  <2> QED BY <2>1 DEF TypeInv, TypeOK, Shapes, TablesTyped, PermissionsInv, MembersInv
<1> QED BY <1>1, ProvisioningInv, PTL

\* The operations that none of the default roles may call.
ClosedByDesign ==
    {o \in Operations : \A name \in DOMAIN DefaultRoles : ~MayCall(DefaultRoles[name], o)}

\* What a complete tenant's users may call is what its default roles may, as
\* they are written down: whatever interleaves with its creation and follows
\* it, short of deleting permissions, no role is left out, is made with less,
\* or comes from elsewhere.  That those tables leave exactly the known
\* operations closed is a computation on strings, which TLC does.
THEOREM NewTenantsAreOpen ==
    ASSUME ClosedByDesign = KnownClosed
    PROVE  Spec => []RoutesAreOpen
<1>1. TypeInv => RoutesAreOpen
  <2> SUFFICES ASSUME TypeInv, NEW c \in Creations, pc[c] = "success", taken = {}
               PROVE  Closed(c) = ClosedByDesign
    BY DEF RoutesAreOpen, At
  <2>1. c \in Tenants /\ RolesFor(c) = DefaultRoles
    BY KindsOfRequest, ProvisioningConstants DEF RolesFor
  <2>2. ASSUME NEW name \in DOMAIN DefaultRoles
        PROVE  /\ grants[<<c, name>>] = DefaultRoles[name]
               /\ RoleExists(<<c, name>>) /\ name \in RoleNames
    <3>1. pc[c] \in Since(name)
      BY DEF Since
    <3>2. grants[<<c, name>>] = DefaultRoles[name] \ {}
      BY <3>1 DEF TypeInv, RolesInv
    <3>3. DefaultRoles[name] \ {} # None
      BY <2>1, NoneIsNoGrant
    <3> QED BY <3>2, <3>3 DEF RoleExists, RoleNames
  <2>3. ASSUME NEW name \in RoleNames, RoleExists(<<c, name>>) PROVE name \in DOMAIN DefaultRoles
    BY <2>1, <2>3 DEF TypeInv, GrantsInv
  <2> QED BY <2>2, <2>3 DEF Closed, ClosedByDesign
<1> QED BY <1>1, ProvisioningInv, PTL
===============================================================================
