---------------------------- MODULE IdentityProofs ----------------------------
(* Theorems about Identity, for any users, tenants, roles and permissions,   *)
(* any number of requests and administrators, and any lifetime of an entry.  *)
EXTENDS Identity, TLAPS

------------------------------------------------------------------------------
(* Types *)

\* Some key exists.
LEMMA SomeKeyIsKey == SomeKey \in Keys
<1>1. PICK u \in Users : TRUE
  BY IdentityConstants
<1>2. <<u, Platform>> \in Keys
  BY IdentityConstants DEF Keys
<1> QED BY <1>2 DEF SomeKey

\* In the beginning every variable has its type.
LEMMA InitTyped == Init => TypeOK
<1> SUFFICES ASSUME Init PROVE TypeOK
  OBVIOUS
<1>1. lastHeld \in [Holdings -> Int]
  BY IdentityConstants DEF Init, Never
<1>2. roles \in [Roles -> {"new", "live", "deleted"}] /\ grants \in [Roles -> SUBSET Permissions]
  BY DEF Init
<1> QED BY <1>1, <1>2, SomeKeyIsKey, IdentityConstants DEF Init, TypeOK

\* What is observed is a time.
LEMMA ObserveTyped ==
    ASSUME TypeOK, Observe, now' \in Nat
    PROVE  lastHeld' \in [Holdings -> Int]
  BY DEF TypeOK, Observe

\* A user holds permissions.
LEMMA HeldTyped ==
    ASSUME TypeOK, NEW u \in Users, NEW t \in Tenants
    PROVE  /\ ActingRole(u, t) \in Roles \cup {None}
           /\ Held(u, t) \in SUBSET Permissions
  BY IdentityConstants DEF TypeOK, ActingRole, Held, Keys

\* A request that ends leaves its slot as it was.
LEMMA FinishTyped ==
    ASSUME TypeOK, NEW r \in Requests, Finish(r)
    PROVE  /\ pc' \in [Requests -> {"idle", "cacheGet", "findById", "findByEmail",
                                    "cacheSet", "loginSet", "decided"}]
           /\ who' \in [Requests -> Keys]
           /\ role' \in [Requests -> Roles \cup {None}]
           /\ perms' \in [Requests -> SUBSET Permissions]
           /\ since' \in [Requests -> Nat]
  BY SomeKeyIsKey DEF TypeOK, Finish, Goto

\* The requests keep the types.
LEMMA RequestTyped ==
    ASSUME TypeOK, Observe, NEW r \in Requests, Request(r)
    PROVE  TypeOK'
<1> USE DEF At, Goto
<1>1. ASSUME Arrive(r) PROVE TypeOK'
  <2>1. lastHeld' \in [Holdings -> Int]
    BY <1>1, ObserveTyped DEF Arrive, TypeOK
  <2>2. PICK u \in Users, t \in Tenants :
          /\ who' = [who EXCEPT ![r] = <<u, t>>]
          /\ \/ pc' = [pc EXCEPT ![r] = "cacheGet"] /\ role' = [role EXCEPT ![r] = token[u]]
             \/ pc' = [pc EXCEPT ![r] = "findByEmail"] /\ UNCHANGED role
    BY <1>1 DEF Arrive
  <2> QED BY <1>1, <2>1, <2>2 DEF Arrive, TypeOK, db, admin, Keys
<1>2. ASSUME CacheGet(r) PROVE TypeOK'
  <2>1. lastHeld' \in [Holdings -> Int]
    BY <1>2, ObserveTyped DEF CacheGet, TypeOK
  <2>2. /\ pc' \in [Requests -> {"idle", "cacheGet", "findById", "findByEmail",
                                 "cacheSet", "loginSet", "decided"}]
        /\ perms' \in [Requests -> SUBSET Permissions]
    BY <1>2 DEF CacheGet, TypeOK, Hit, Entry, Keys
  <2> QED BY <1>2, <2>1, <2>2 DEF CacheGet, TypeOK, db, admin
<1>3. ASSUME FindById(r) PROVE TypeOK'
  <2>1. lastHeld' \in [Holdings -> Int]
    BY <1>3, ObserveTyped DEF FindById, TypeOK
  <2>2. who[r][1] \in Users /\ who[r][2] \in Tenants
    BY DEF TypeOK, Keys
  <2>3. /\ pc' \in [Requests -> {"idle", "cacheGet", "findById", "findByEmail",
                                 "cacheSet", "loginSet", "decided"}]
        /\ who' \in [Requests -> Keys]
        /\ role' \in [Requests -> Roles \cup {None}]
        /\ perms' \in [Requests -> SUBSET Permissions]
        /\ since' \in [Requests -> Nat]
    BY <1>3, <2>2, FinishTyped, HeldTyped DEF FindById, Read, TypeOK
  <2> QED BY <1>3, <2>1, <2>3 DEF FindById, TypeOK, db, admin
<1>4. ASSUME FindByEmail(r) PROVE TypeOK'
  <2>1. lastHeld' \in [Holdings -> Int]
    BY <1>4, ObserveTyped DEF FindByEmail, TypeOK
  <2>2. who[r][1] \in Users /\ who[r][2] \in Tenants
    BY DEF TypeOK, Keys
  <2>3. /\ pc' \in [Requests -> {"idle", "cacheGet", "findById", "findByEmail",
                                 "cacheSet", "loginSet", "decided"}]
        /\ who' \in [Requests -> Keys]
        /\ role' \in [Requests -> Roles \cup {None}]
        /\ perms' \in [Requests -> SUBSET Permissions]
        /\ since' \in [Requests -> Nat]
    BY <1>4, <2>2, FinishTyped, HeldTyped DEF FindByEmail, Read, TypeOK
  <2> QED BY <1>4, <2>1, <2>3 DEF FindByEmail, TypeOK, db, admin
<1>5. ASSUME CacheSet(r) PROVE TypeOK'
  <2>1. lastHeld' \in [Holdings -> Int]
    BY <1>5, ObserveTyped DEF CacheSet, TypeOK
  <2>2. /\ cache' = [cache EXCEPT ![who[r]] = [perms |-> perms[r], until |-> now + TTL]]
        /\ who[r] \in Keys /\ who[r][1] \in Users
    BY <1>5 DEF CacheSet, Store, TypeOK, Keys
  <2>3. [perms |-> perms[r], until |-> now + TTL] \in Entry
    BY IdentityConstants DEF TypeOK, Entry
  <2>4. /\ cache' \in [Keys -> Entry \cup {None}]
        /\ \A k \in Keys : cache'[k] # None => cache'[k].until <= now + TTL
        /\ excused' \in SUBSET Keys
    BY <1>5, <2>2, <2>3, IdentityConstants DEF CacheSet, TypeOK
  <2>5. /\ pc' \in [Requests -> {"idle", "cacheGet", "findById", "findByEmail",
                                 "cacheSet", "loginSet", "decided"}]
        /\ who' \in [Requests -> Keys]
        /\ role' \in [Requests -> Roles \cup {None}]
        /\ perms' \in [Requests -> SUBSET Permissions]
        /\ since' \in [Requests -> Nat]
        /\ token' \in [Users -> Roles \cup {None}]
    BY <1>5, <2>2, FinishTyped DEF CacheSet, TypeOK
  <2> QED BY <1>5, <2>1, <2>4, <2>5 DEF CacheSet, TypeOK, db, admin
<1>6. ASSUME Leave(r) PROVE TypeOK'
  <2>1. lastHeld' \in [Holdings -> Int]
    BY <1>6, ObserveTyped DEF Leave, TypeOK
  <2> QED BY <1>6, <2>1, FinishTyped DEF Leave, TypeOK, db, admin
<1> QED BY <1>1, <1>2, <1>3, <1>4, <1>5, <1>6 DEF Request

\* What an administrator's operation changes of itself keeps its type.
LEMMA OpTyped ==
    ASSUME TypeOK, NEW a \in Admins, op[a] # None
    PROVE  /\ op[a] \in Op
           /\ Doing(a, "assign") => /\ op[a].user \in Users /\ op[a].tenant \in Tenants
                                    /\ op[a].role \in Roles
                                    /\ \A x \in {"addTenant", "syncStaff", "del"} :
                                          [op[a] EXCEPT !.step = x] \in Op
           /\ Doing(a, "enroll") => /\ op[a].user \in Users /\ op[a].tenant \in Tenants
                                    /\ op[a].role \in Roles /\ op[a].step = "addTenant"
           /\ op[a].step = "addTenant" => Doing(a, "assign") \/ Doing(a, "enroll")
           /\ Doing(a, "update") => /\ op[a].tenant \in Tenants \cup {None}
                                    /\ op[a].role \in Roles
                                    /\ \A x \in {"write", "list", "del"} :
                                          [op[a] EXCEPT !.step = x] \in Op
<1>1. op[a] \in Op
  BY DEF TypeOK
<1>2. ASSUME Doing(a, "assign")
      PROVE  op[a] \in [kind : {"assign"}, step : {"addTenant", "syncStaff", "del"},
                        user : Users, tenant : Tenants, role : Roles]
  BY <1>1, <1>2 DEF Op, Doing
<1>3. ASSUME Doing(a, "update")
      PROVE  op[a] \in [kind : {"update"}, step : {"write", "list", "del"},
                        tenant : Tenants \cup {None}, role : Roles]
  BY <1>1, <1>3 DEF Op, Doing
<1>4. ASSUME Doing(a, "enroll")
      PROVE  op[a] \in [kind : {"enroll"}, step : {"addTenant"},
                        user : Users, tenant : Tenants, role : Roles]
  BY <1>1, <1>4 DEF Op, Doing
<1>5. op[a].step = "addTenant" => Doing(a, "assign") \/ Doing(a, "enroll")
  BY <1>1 DEF Op, Doing
<1> QED BY <1>1, <1>2, <1>3, <1>4, <1>5 DEF Op

\* The operations that take several statements keep the types.
LEMMA OperationTyped ==
    ASSUME TypeOK, Observe, NEW a \in Admins,
           \/ StartAssignRole(a) \/ StartEnroll(a) \/ AddTenant(a) \/ SyncStaff(a)
           \/ StartUpdateRole(a) \/ WriteRole(a) \/ ListHolders(a)
           \/ Invalidate(a) \/ Fail(a)
    PROVE  TypeOK'
<1>1. ASSUME StartAssignRole(a) PROVE TypeOK'
  <2>1. PICK u \in Users, t \in Tenants, ro \in Roles :
          /\ Begin(a, [kind |-> "assign", step |-> "addTenant",
                       user |-> u, tenant |-> t, role |-> ro])
          /\ todo' = [todo EXCEPT ![a] = {<<u, t>>}]
    BY <1>1 DEF StartAssignRole, TypeOK
  <2>2. op' \in [Admins -> Op \cup {None}] /\ todo' \in [Admins -> SUBSET Keys] /\ changes' \in Nat
    BY <2>1 DEF Begin, Op, TypeOK, Keys
  <2> QED BY <1>1, <2>2, ObserveTyped DEF StartAssignRole, TypeOK, db, request
<1>2. ASSUME AddTenant(a) PROVE TypeOK'
  <2>1. op' \in [Admins -> Op \cup {None}]
    BY <1>2, OpTyped DEF AddTenant, Step, End, TypeOK
  <2>2. member' \in [Keys -> Roles \cup {None}]
    BY <1>2, OpTyped DEF AddTenant, TypeOK, Keys
  <2>3. excused' \in SUBSET Keys
    <3>1. Losers \subseteq Keys /\ Listed \subseteq Keys
      BY DEF Losers, Listed
    <3> QED BY <1>2, <3>1 DEF AddTenant, TypeOK
  <2> QED BY <1>2, <2>1, <2>2, <2>3, ObserveTyped DEF AddTenant, TypeOK, request
<1>3. ASSUME SyncStaff(a) PROVE TypeOK'
  <2>1. op' \in [Admins -> Op \cup {None}]
    BY <1>3, OpTyped DEF SyncStaff, Doing, Step, TypeOK
  <2> QED BY <1>3, <2>1, ObserveTyped DEF SyncStaff, TypeOK, db, request
<1>4. ASSUME StartUpdateRole(a) PROVE TypeOK'
  <2>1. PICK t \in Tenants \cup {None}, ro \in Roles :
          /\ Begin(a, [kind |-> "update", step |-> "write", tenant |-> t, role |-> ro])
          /\ todo' = [todo EXCEPT ![a] = {}]
    BY <1>4 DEF StartUpdateRole, TypeOK
  <2>2. op' \in [Admins -> Op \cup {None}] /\ todo' \in [Admins -> SUBSET Keys] /\ changes' \in Nat
    BY <2>1 DEF Begin, Op, TypeOK, Keys
  <2> QED BY <1>4, <2>2, ObserveTyped DEF StartUpdateRole, TypeOK, db, request
<1>5. ASSUME WriteRole(a) PROVE TypeOK'
  <2>1. op' \in [Admins -> Op \cup {None}]
    BY <1>5, OpTyped DEF WriteRole, Doing, Step, End, TypeOK
  <2>2. grants' \in [Roles -> SUBSET Permissions]
    BY <1>5 DEF WriteRole, TypeOK
  <2>3. excused' \in SUBSET Keys
    BY <1>5 DEF WriteRole, Losers, TypeOK
  <2> QED BY <1>5, <2>1, <2>2, <2>3, ObserveTyped DEF WriteRole, TypeOK, request
<1>6. ASSUME ListHolders(a) PROVE TypeOK'
  <2>1. op' \in [Admins -> Op \cup {None}]
    BY <1>6, OpTyped DEF ListHolders, Doing, Step, End, TypeOK
  <2>2. todo' \in [Admins -> SUBSET Keys]
    BY <1>6 DEF ListHolders, HoldersIn, TypeOK
  <2> QED BY <1>6, <2>1, <2>2, ObserveTyped DEF ListHolders, TypeOK, db, request
<1>7. ASSUME Invalidate(a) PROVE TypeOK'
  <2>1. PICK k \in todo[a] :
          /\ cache' = [cache EXCEPT ![k] = None]
          /\ todo' = [todo EXCEPT ![a] = @ \ {k}]
          /\ excused' = excused \ {k}
          /\ IF todo[a] = {k} THEN End(a) ELSE UNCHANGED op
    BY <1>7 DEF Invalidate
  <2>2. /\ op' \in [Admins -> Op \cup {None}]
        /\ todo' \in [Admins -> SUBSET Keys]
        /\ excused' \in SUBSET Keys
        /\ cache' \in [Keys -> Entry \cup {None}]
        /\ \A x \in Keys : cache'[x] # None => cache'[x].until <= now + TTL
    BY <2>1 DEF End, TypeOK
  <2> QED BY <1>7, <2>2, ObserveTyped DEF Invalidate, TypeOK, db, request
<1>8. ASSUME Fail(a) PROVE TypeOK'
  <2>1. op' \in [Admins -> Op \cup {None}] /\ todo' \in [Admins -> SUBSET Keys]
    BY <1>8 DEF Fail, End, TypeOK
  <2>2. excused' \in SUBSET Keys
    BY <1>8 DEF Fail, HoldersIn, TypeOK
  <2> QED BY <1>8, <2>1, <2>2, ObserveTyped DEF Fail, TypeOK, db, request
<1>9. ASSUME StartEnroll(a) PROVE TypeOK'
  <2>1. PICK u \in Users, t \in Tenants, ro \in Roles :
          /\ Begin(a, [kind |-> "enroll", step |-> "addTenant",
                       user |-> u, tenant |-> t, role |-> ro])
          /\ todo' = [todo EXCEPT ![a] = {}]
    BY <1>9 DEF StartEnroll, TypeOK
  <2>2. op' \in [Admins -> Op \cup {None}] /\ todo' \in [Admins -> SUBSET Keys] /\ changes' \in Nat
    BY <2>1 DEF Begin, Op, TypeOK
  <2> QED BY <1>9, <2>2, ObserveTyped DEF StartEnroll, TypeOK, db, request
<1> QED BY <1>1, <1>2, <1>3, <1>4, <1>5, <1>6, <1>7, <1>8, <1>9

\* The changes that leave the cache alone keep the types.
LEMMA SilentTyped ==
    ASSUME TypeOK, Observe, NEW a \in Admins,
           \/ CreateRole(a) \/ DeleteRole(a)
           \/ CreatePermission(a) \/ DeletePermission(a) \/ RenamePermission(a)
           \/ UpdateUser(a) \/ DeleteUser(a) \/ DeleteTenant(a)
    PROVE  TypeOK'
<1>1. Silently(a)
  BY DEF CreateRole, DeleteRole, CreatePermission, DeletePermission, RenamePermission,
         UpdateUser, DeleteUser, DeleteTenant
<1>2. /\ roles' \in [Roles -> {"new", "live", "deleted"}]
      /\ account' \in [Users -> {"active", "inactive", "deleted"}]
      /\ names' \in SUBSET Permissions
      /\ tenants' \in SUBSET Tenants /\ home' \in [Roles -> Tenants \cup {None}]
  BY DEF CreateRole, DeleteRole, CreatePermission, DeletePermission, RenamePermission,
         UpdateUser, DeleteUser, DeleteTenant, TypeOK
<1>3. grants' \in [Roles -> SUBSET Permissions]
  <2>1. CASE RenamePermission(a)
    <3>1. PICK p \in names, q \in Permissions \ names :
            grants' = [ro \in Roles |-> IF p \in grants[ro]
                                        THEN (grants[ro] \ {p}) \cup {q} ELSE grants[ro]]
      BY <2>1 DEF RenamePermission
    <3>2. \A ro \in Roles : (grants[ro] \ {p}) \cup {q} \in SUBSET Permissions
      BY DEF TypeOK
    <3> QED BY <3>1, <3>2 DEF TypeOK
  <2>2. CASE DeletePermission(a)
    BY <2>2 DEF DeletePermission, TypeOK
  <2>3. CASE CreateRole(a) \/ DeleteRole(a)
    BY <2>3 DEF CreateRole, DeleteRole, TypeOK
  <2>4. CASE CreatePermission(a) \/ UpdateUser(a) \/ DeleteUser(a) \/ DeleteTenant(a)
    BY <2>4 DEF CreatePermission, UpdateUser, DeleteUser, DeleteTenant, TypeOK
  <2> QED BY <2>1, <2>2, <2>3, <2>4
<1>4. member' \in [Keys -> Roles \cup {None}]
  BY DEF CreateRole, DeleteRole, CreatePermission, DeletePermission, RenamePermission,
         UpdateUser, DeleteUser, DeleteTenant, TypeOK
<1>5. excused' \in SUBSET Keys
  BY DEF CreateRole, DeleteRole, CreatePermission, DeletePermission, RenamePermission,
         UpdateUser, DeleteUser, DeleteTenant, Holders, Losers, TypeOK
<1> QED BY <1>1, <1>2, <1>3, <1>4, <1>5, ObserveTyped DEF Silently, TypeOK, request

\* Every step keeps the types.
LEMMA NextTyped == TypeOK /\ [Next]_vars => TypeOK'
<1> SUFFICES ASSUME TypeOK, [Next]_vars PROVE TypeOK'
  OBVIOUS
<1>1. CASE Next
  <2>1. ASSUME NEW r \in Requests, Request(r), Observe PROVE TypeOK'
    BY <2>1, RequestTyped
  <2>2. ASSUME NEW a \in Admins, Administer(a), Observe PROVE TypeOK'
    BY <2>2, OperationTyped, SilentTyped DEF Administer
  <2>3. ASSUME Tick, Observe PROVE TypeOK'
    <3>1. now' \in Nat
      BY <2>3 DEF Tick, TypeOK
    <3>2. \A k \in Keys : cache[k] # None => cache[k].until <= now' + TTL
      BY <2>3, IdentityConstants DEF Tick, TypeOK, Entry
    <3> QED BY <2>3, <3>1, <3>2, ObserveTyped DEF Tick, TypeOK, db, request, admin
  <2> QED BY <1>1, <2>1, <2>2, <2>3 DEF Next
<1>2. CASE UNCHANGED vars
  BY <1>2 DEF vars, db, request, admin, TypeOK
<1> QED BY <1>1, <1>2

\* Whatever users and administrators do, every variable keeps its type: no
\* entry of the cache outlives its lifetime.
THEOREM IdentityTyped == Spec => []TypeOK
  BY InitTyped, NextTyped, PTL DEF Spec
------------------------------------------------------------------------------
(* Roles *)

Giving(a) == Doing(a, "assign") \/ Doing(a, "enroll")

\* A role on its way to a user was visible from the tenant it is for.
RoleInv ==
    /\ RolesAreOwnOrGlobal
    /\ \A a \in Admins : Giving(a) => home[op[a].role] \in {op[a].tenant, None}

\* The giving of a role keeps RoleInv.
LEMMA AssignmentKeepsRoles ==
    ASSUME TypeOK, RoleInv, NEW a \in Admins,
           StartAssignRole(a) \/ StartEnroll(a) \/ AddTenant(a) \/ SyncStaff(a)
    PROVE  RoleInv'
<1>1. ASSUME StartAssignRole(a) \/ StartEnroll(a) PROVE RoleInv'
  <2>1. PICK u \in Users, t \in Tenants, ro \in Roles, kind \in {"assign", "enroll"} :
          /\ Visible(ro, t)
          /\ op' = [op EXCEPT ![a] = [kind |-> kind, step |-> "addTenant",
                                      user |-> u, tenant |-> t, role |-> ro]]
    BY <1>1 DEF StartAssignRole, StartEnroll, Begin, TypeOK
  <2>2. home[ro] \in {t, None}
    BY <2>1, IdentityConstants DEF Visible
  <2>3. UNCHANGED <<home, member>>
    BY <1>1 DEF StartAssignRole, StartEnroll, db
  <2>4. RolesAreOwnOrGlobal'
    BY <2>3 DEF RoleInv, RolesAreOwnOrGlobal
  <2>5. op'[a].role = ro /\ op'[a].tenant = t /\ \A b \in Admins \ {a} : op'[b] = op[b]
    BY <2>1 DEF TypeOK
  <2> QED BY <2>2, <2>3, <2>4, <2>5 DEF RoleInv, Giving, Doing
<1>2. ASSUME AddTenant(a) PROVE RoleInv'
  <2>1. home[op[a].role] \in {op[a].tenant, None} /\ op[a].role \in Roles
    BY <1>2, OpTyped DEF AddTenant, RoleInv, Giving
  <2>2. member' = [member EXCEPT ![<<op[a].user, op[a].tenant>>] = op[a].role] /\ UNCHANGED home
    BY <1>2 DEF AddTenant
  <2>3. RolesAreOwnOrGlobal'
    BY <2>1, <2>2 DEF RoleInv, RolesAreOwnOrGlobal, TypeOK, Keys
  <2>4. /\ op[a] \in Op
        /\ \/ op' = [op EXCEPT ![a] = [op[a] EXCEPT !.step = "syncStaff"]]
           \/ op' = [op EXCEPT ![a] = None]
    BY <1>2, OpTyped DEF AddTenant, Step, End
  <2>5. [op[a] EXCEPT !.step = "syncStaff"].role = op[a].role
        /\ [op[a] EXCEPT !.step = "syncStaff"].tenant = op[a].tenant
    BY <2>4 DEF Op
  <2>6. /\ Giving(a)' => op'[a].role = op[a].role /\ op'[a].tenant = op[a].tenant
        /\ \A b \in Admins \ {a} : op'[b] = op[b]
    BY <2>4, <2>5 DEF Giving, Doing, TypeOK
  <2> QED BY <2>1, <2>2, <2>3, <2>6 DEF RoleInv, Giving, Doing
<1>3. ASSUME SyncStaff(a) PROVE RoleInv'
  <2>1. op' = [op EXCEPT ![a] = [op[a] EXCEPT !.step = "del"]] /\ op[a] \in Op
    BY <1>3, OpTyped DEF SyncStaff, Step, Doing
  <2>2. [op[a] EXCEPT !.step = "del"].role = op[a].role
        /\ [op[a] EXCEPT !.step = "del"].tenant = op[a].tenant
    BY <2>1 DEF Op
  <2>3. UNCHANGED <<home, member>> /\ Giving(a)
    BY <1>3 DEF SyncStaff, Giving, db
  <2>4. /\ op'[a].role = op[a].role /\ op'[a].tenant = op[a].tenant
        /\ \A b \in Admins \ {a} : op'[b] = op[b]
    BY <2>1, <2>2 DEF TypeOK
  <2> QED BY <2>3, <2>4 DEF RoleInv, RolesAreOwnOrGlobal, Giving, Doing
<1> QED BY <1>1, <1>2, <1>3

\* The other operations give nobody a role.
LEMMA OthersKeepRoles ==
    ASSUME TypeOK, RoleInv, NEW a \in Admins,
           StartUpdateRole(a) \/ WriteRole(a) \/ ListHolders(a) \/ Invalidate(a) \/ Fail(a)
    PROVE  RoleInv'
<1>1. UNCHANGED <<home, member>>
  BY DEF StartUpdateRole, WriteRole, ListHolders, Invalidate, Fail, db
<1>2. \A b \in Admins : Giving(b)' =>
        /\ Giving(b)
        /\ op'[b].role = op[b].role /\ op'[b].tenant = op[b].tenant
  <2>1. CASE StartUpdateRole(a)
    BY <2>1 DEF StartUpdateRole, Begin, Giving, Doing, TypeOK
  <2>2. CASE WriteRole(a)
    <3>1. op[a] \in Op /\ op[a].kind = "update"
      BY <2>2, OpTyped DEF WriteRole, Doing
    <3>2. [op[a] EXCEPT !.step = "list"].kind = "update"
      BY <3>1 DEF Op
    <3> QED BY <2>2, <3>1, <3>2 DEF WriteRole, Giving, Doing, Step, End, TypeOK
  <2>3. CASE ListHolders(a)
    <3>1. op[a] \in Op /\ op[a].kind = "update"
      BY <2>3, OpTyped DEF ListHolders, Doing
    <3>2. [op[a] EXCEPT !.step = "del"].kind = "update"
      BY <3>1 DEF Op
    <3> QED BY <2>3, <3>1, <3>2 DEF ListHolders, Giving, Doing, Step, End, TypeOK
  <2>4. CASE Invalidate(a) \/ Fail(a)
    BY <2>4 DEF Invalidate, Fail, Giving, Doing, End, TypeOK
  <2> QED BY <2>1, <2>2, <2>3, <2>4
<1> QED BY <1>1, <1>2 DEF RoleInv, RolesAreOwnOrGlobal

\* Every step keeps RoleInv.
LEMMA NextKeepsRoles == TypeOK /\ RoleInv /\ [Next]_vars => RoleInv'
<1> SUFFICES ASSUME TypeOK, RoleInv, [Next]_vars PROVE RoleInv'
  OBVIOUS
<1>1. ASSUME NEW r \in Requests, Request(r) PROVE RoleInv'
  BY <1>1 DEF Request, Arrive, CacheGet, FindById, FindByEmail, CacheSet, Leave, db, admin,
              RoleInv, RolesAreOwnOrGlobal, Giving, Doing
<1>2. ASSUME NEW a \in Admins, Administer(a) PROVE RoleInv'
  <2>1. CASE \/ CreateRole(a) \/ DeleteRole(a) \/ CreatePermission(a) \/ DeletePermission(a)
             \/ RenamePermission(a) \/ UpdateUser(a) \/ DeleteUser(a) \/ DeleteTenant(a)
    <3>1. UNCHANGED op
      BY <2>1 DEF CreateRole, DeleteRole, CreatePermission, DeletePermission,
                  RenamePermission, UpdateUser, DeleteUser, DeleteTenant, Silently
    <3>2. /\ \A k \in Keys : member'[k] \in {member[k], None}
          /\ \A ro \in Roles : home'[ro] \in {home[ro], None}
      <4>1. CASE DeleteTenant(a)
        BY <4>1 DEF DeleteTenant
      <4>2. CASE ~DeleteTenant(a)
        BY <2>1, <4>2 DEF CreateRole, DeleteRole, CreatePermission, DeletePermission,
                          RenamePermission, UpdateUser, DeleteUser
      <4> QED BY <4>1, <4>2
    <3>3. RolesAreOwnOrGlobal'
      BY <3>2 DEF RoleInv, RolesAreOwnOrGlobal, TypeOK
    <3>4. \A b \in Admins : Giving(b) => op[b].role \in Roles
      BY OpTyped DEF Giving, Doing
    <3> QED BY <3>1, <3>2, <3>3, <3>4 DEF RoleInv, Giving, Doing
  <2> QED BY <1>2, <2>1, AssignmentKeepsRoles, OthersKeepRoles DEF Administer
<1>3. ASSUME Tick \/ UNCHANGED vars PROVE RoleInv'
  BY <1>3 DEF Tick, vars, db, admin, RoleInv, RolesAreOwnOrGlobal, Giving, Doing
<1> QED BY <1>1, <1>2, <1>3 DEF Next

\* Nobody ever holds a role of a tenant other than the one they hold it in:
\* however the lookup of the role and its assignment are interleaved with
\* other operations, they name one tenant.
THEOREM RolesStayAtHome == Spec => []RolesAreOwnOrGlobal
<1>1. Init => RoleInv
  BY DEF Init, RoleInv, RolesAreOwnOrGlobal, Giving, Doing
<1>2. RoleInv => RolesAreOwnOrGlobal
  BY DEF RoleInv
<1> QED BY <1>1, <1>2, InitTyped, NextTyped, NextKeepsRoles, PTL DEF Spec

------------------------------------------------------------------------------
(* The promise of the cache *)

\* What a request has read and not yet stored was held when it was read, and
\* was read within Latency.
ReadsAreFresh ==
    \A r \in Requests : pc[r] \in {"cacheSet", "loginSet"} =>
        /\ now <= since[r] + Latency
        /\ \A p \in perms[r] : since[r] <= lastHeld[<<who[r][1], who[r][2], p>>]

\* What an entry grants was held, at most Latency before the entry was stored.
EntriesAreFresh ==
    \A k \in Keys : cache[k] # None =>
        \A p \in cache[k].perms :
            cache[k].until <= lastHeld[<<k[1], k[2], p>>] + Latency + TTL

HistoryIsTrue ==
    /\ \A h \in Holdings : lastHeld[h] <= now
    /\ \A h \in held : lastHeld[h] = now

FreshInv == HistoryIsTrue /\ ReadsAreFresh /\ EntriesAreFresh

\* Later is when something was last held, never earlier.
LEMMA HistoryGrows ==
    ASSUME TypeOK, HistoryIsTrue, Observe, now' \in Nat, now <= now'
    PROVE  /\ HistoryIsTrue'
           /\ \A h \in Holdings : lastHeld[h] <= lastHeld'[h] /\ lastHeld'[h] \in Int
<1>1. \A h \in Holdings : lastHeld[h] \in Int /\ lastHeld[h] <= now
  BY DEF TypeOK, HistoryIsTrue
<1>2. \A h \in Holdings : lastHeld'[h] = IF h \in held' THEN now' ELSE lastHeld[h]
  BY DEF Observe
<1>3. held' \subseteq Holdings
  BY DEF held
<1>4. now \in Nat
  BY DEF TypeOK
<1> QED BY <1>1, <1>2, <1>3, <1>4 DEF HistoryIsTrue

\* Who holds what is a matter of memberships and roles alone.
LEMMA HeldIsDerived == UNCHANGED <<grants, member>> => UNCHANGED held
  BY DEF held, Held, ActingRole

\* A key and one of its permissions are something that can be held.
LEMMA KeyHoldings ==
    ASSUME NEW k \in Keys, NEW p \in Permissions
    PROVE  <<k[1], k[2], p>> \in Holdings
  BY DEF Keys, Holdings
\* The requests keep what they read and store fresh.
LEMMA RequestKeepsFresh ==
    ASSUME TypeOK, FreshInv, Observe, NEW r \in Requests, Request(r)
    PROVE  FreshInv'
<1>1. UNCHANGED now
  BY DEF Request, Arrive, CacheGet, FindById, FindByEmail, CacheSet, Leave
<1>2. HistoryIsTrue' /\ \A h \in Holdings : lastHeld[h] <= lastHeld'[h] /\ lastHeld'[h] \in Int
  BY <1>1, HistoryGrows DEF FreshInv, TypeOK
<1>3. \A x \in Requests : /\ who[x] \in Keys /\ perms[x] \subseteq Permissions
                          /\ since[x] \in Nat
  BY DEF TypeOK
<1>4. \A k \in Keys : cache[k] # None => /\ cache[k].perms \subseteq Permissions
                                         /\ cache[k].until \in Nat
  BY DEF TypeOK, Entry
<1>5. \A h \in Holdings : lastHeld[h] \in Int
  BY DEF TypeOK
<1>6. ReadsAreFresh'
  <2>1. ASSUME NEW x \in Requests, pc'[x] \in {"cacheSet", "loginSet"},
               pc'[x] = pc[x], who'[x] = who[x], perms'[x] = perms[x], since'[x] = since[x]
        PROVE  /\ now' <= since'[x] + Latency
               /\ \A p \in perms'[x] : since'[x] <= lastHeld'[<<who'[x][1], who'[x][2], p>>]
    BY <1>1, <1>2, <1>3, <1>5, <2>1, KeyHoldings DEF FreshInv, ReadsAreFresh
  <2>2. \A x \in Requests \ {r} : /\ pc'[x] = pc[x] /\ who'[x] = who[x]
                                  /\ perms'[x] = perms[x] /\ since'[x] = since[x]
    BY DEF Request, Arrive, CacheGet, FindById, FindByEmail, CacheSet, Leave, Finish, Goto,
           Read, At, TypeOK, db
  <2>3. ASSUME pc'[r] \in {"cacheSet", "loginSet"}
        PROVE  /\ now' <= since'[r] + Latency
               /\ \A p \in perms'[r] : since'[r] <= lastHeld'[<<who'[r][1], who'[r][2], p>>]
    <3>1. FindById(r) \/ FindByEmail(r)
      BY <2>3 DEF Request, Arrive, CacheGet, CacheSet, Leave, Finish, Goto, TypeOK
    <3>2. /\ perms'[r] = Held(who[r][1], who[r][2]) /\ since'[r] = now /\ who' = who
          /\ UNCHANGED held
      <4>1. UNCHANGED held
        BY <3>1, HeldIsDerived DEF FindById, FindByEmail, db
      <4> QED BY <2>3, <3>1, <4>1 DEF FindById, FindByEmail, Finish, Goto, Read, TypeOK
    <3>3. ASSUME NEW p \in perms'[r]
          PROVE  lastHeld'[<<who[r][1], who[r][2], p>>] = now'
      <4>1. who[r][1] \in Users /\ who[r][2] \in Tenants
        BY <1>3 DEF Keys
      <4>2. p \in Permissions
        BY <3>2, <3>3, <4>1, HeldTyped
      <4>3. <<who[r][1], who[r][2], p>> \in held
        BY <3>2, <3>3, <4>1, <4>2 DEF held, Holdings
      <4> QED BY <1>2, <3>2, <4>3 DEF HistoryIsTrue
    <3> QED BY <1>1, <3>2, <3>3, IdentityConstants DEF TypeOK
  <2> QED BY <2>1, <2>2, <2>3 DEF ReadsAreFresh
<1>7. EntriesAreFresh'
  <2>1. CASE UNCHANGED cache
    BY <1>2, <1>4, <1>5, <2>1, KeyHoldings, IdentityConstants DEF FreshInv, EntriesAreFresh
  <2>2. CASE CacheSet(r)
    <3>1. cache' = [cache EXCEPT ![who[r]] = [perms |-> perms[r], until |-> now + TTL]]
      BY <2>2 DEF CacheSet, Store
    <3>2. \A p \in perms[r] :
            now + TTL <= lastHeld'[<<who[r][1], who[r][2], p>>] + Latency + TTL
      <4> SUFFICES ASSUME NEW p \in perms[r]
                   PROVE  now + TTL <= lastHeld'[<<who[r][1], who[r][2], p>>] + Latency + TTL
        OBVIOUS
      <4>1. now <= since[r] + Latency /\ since[r] <= lastHeld[<<who[r][1], who[r][2], p>>]
        BY <2>2 DEF FreshInv, ReadsAreFresh, CacheSet
      <4>2. <<who[r][1], who[r][2], p>> \in Holdings
        BY <1>3, KeyHoldings
      <4> QED BY <1>2, <1>3, <1>5, <4>1, <4>2, IdentityConstants DEF TypeOK
    <3>3. \A k \in Keys \ {who[r]} : cache'[k] = cache[k]
      BY <3>1 DEF TypeOK
    <3>4. cache'[who[r]] = [perms |-> perms[r], until |-> now + TTL]
      BY <1>3, <3>1 DEF TypeOK
    <3>5. ASSUME NEW k \in Keys \ {who[r]}, cache'[k] # None, NEW p \in cache'[k].perms
          PROVE  cache'[k].until <= lastHeld'[<<k[1], k[2], p>>] + Latency + TTL
      <4>1. cache[k].until <= lastHeld[<<k[1], k[2], p>>] + Latency + TTL
        BY <3>3, <3>5 DEF FreshInv, EntriesAreFresh
      <4>2. <<k[1], k[2], p>> \in Holdings
        BY <1>4, <3>3, <3>5, KeyHoldings
      <4> QED BY <1>2, <1>4, <1>5, <3>3, <3>5, <4>1, <4>2, IdentityConstants
    <3> QED BY <3>2, <3>4, <3>5 DEF EntriesAreFresh
  <2> QED BY <2>1, <2>2 DEF Request, Arrive, CacheGet, FindById, FindByEmail, Leave
<1> QED BY <1>2, <1>6, <1>7 DEF FreshInv

\* Whatever is done to users and roles, an entry that stays was fresh.
LEMMA AdministerKeepsFresh ==
    ASSUME TypeOK, FreshInv, Observe, NEW a \in Admins, Administer(a)
    PROVE  FreshInv'
<1>1. /\ UNCHANGED <<now, request>>
      /\ \A k \in Keys : cache'[k] \in {cache[k], None}
  BY DEF Administer, StartAssignRole, StartEnroll, AddTenant, SyncStaff, StartUpdateRole, WriteRole,
         ListHolders, Invalidate, Fail, CreateRole, DeleteRole, CreatePermission,
         DeletePermission, RenamePermission, UpdateUser, DeleteUser, DeleteTenant, Silently, TypeOK
<1>2. HistoryIsTrue' /\ \A h \in Holdings : lastHeld[h] <= lastHeld'[h] /\ lastHeld'[h] \in Int
  BY <1>1, HistoryGrows DEF FreshInv, TypeOK
<1>3. \A h \in Holdings : lastHeld[h] \in Int
  BY DEF TypeOK
<1>4. ReadsAreFresh'
  <2>1. \A x \in Requests : /\ who[x] \in Keys /\ perms[x] \subseteq Permissions
                            /\ since[x] \in Nat
    BY DEF TypeOK
  <2> QED BY <1>1, <1>2, <1>3, <2>1, KeyHoldings DEF FreshInv, ReadsAreFresh, request
<1>5. EntriesAreFresh'
  <2>1. \A k \in Keys : cache[k] # None => /\ cache[k].perms \subseteq Permissions
                                           /\ cache[k].until \in Nat
    BY DEF TypeOK, Entry
  <2> QED BY <1>1, <1>2, <1>3, <2>1, KeyHoldings, IdentityConstants
          DEF FreshInv, EntriesAreFresh
<1> QED BY <1>2, <1>4, <1>5 DEF FreshInv

\* The clock does not run ahead of what is on its way to the cache.
LEMMA TickKeepsFresh ==
    ASSUME TypeOK, FreshInv, Observe, Tick
    PROVE  FreshInv'
<1>1. now' = now + 1 /\ UNCHANGED <<cache, request>>
  BY DEF Tick
<1>2. HistoryIsTrue' /\ \A h \in Holdings : lastHeld[h] <= lastHeld'[h] /\ lastHeld'[h] \in Int
  BY <1>1, HistoryGrows DEF FreshInv, TypeOK
<1>3. \A h \in Holdings : lastHeld[h] \in Int
  BY DEF TypeOK
<1>4. ReadsAreFresh'
  <2>1. \A x \in Requests : /\ who[x] \in Keys /\ perms[x] \subseteq Permissions
                            /\ since[x] \in Nat
    BY DEF TypeOK
  <2>2. \A x \in Requests : pc[x] \in {"cacheSet", "loginSet"} => now + 1 <= since[x] + Latency
    BY <2>1, IdentityConstants DEF Tick, TypeOK
  <2> QED BY <1>1, <1>2, <1>3, <2>1, <2>2, KeyHoldings DEF FreshInv, ReadsAreFresh, request
<1>5. EntriesAreFresh'
  <2>1. \A k \in Keys : cache[k] # None => /\ cache[k].perms \subseteq Permissions
                                           /\ cache[k].until \in Nat
    BY DEF TypeOK, Entry
  <2> QED BY <1>1, <1>2, <1>3, <2>1, KeyHoldings, IdentityConstants
          DEF FreshInv, EntriesAreFresh
<1> QED BY <1>2, <1>4, <1>5 DEF FreshInv

\* Every step keeps what is read and stored fresh.
LEMMA NextKeepsFresh == TypeOK /\ FreshInv /\ [Next]_vars => FreshInv'
<1>1. ASSUME UNCHANGED vars, FreshInv PROVE FreshInv'
  <2>1. UNCHANGED <<now, held, lastHeld, pc, who, perms, since, cache>>
    BY <1>1, HeldIsDerived DEF vars, db, request
  <2> QED BY <1>1, <2>1 DEF FreshInv, HistoryIsTrue, ReadsAreFresh, EntriesAreFresh
<1> QED BY <1>1, RequestKeepsFresh, AdministerKeepsFresh, TickKeepsFresh DEF Next

\* In the beginning nothing has been read or stored.
LEMMA InitFresh == Init => FreshInv
<1> SUFFICES ASSUME Init PROVE FreshInv
  OBVIOUS
<1>1. \A h \in Holdings : lastHeld[h] <= now /\ (h \in held => lastHeld[h] = now)
  BY IdentityConstants DEF Init, Never
<1>2. held \subseteq Holdings
  BY DEF held
<1> QED BY <1>1, <1>2 DEF Init, FreshInv, HistoryIsTrue, ReadsAreFresh, EntriesAreFresh
\* A request is decided by what its entry, or the database, told of it.
LEMMA RequestPromised ==
    ASSUME TypeOK, FreshInv, Observe, NEW r \in Requests, Request(r)
    PROVE  Promise!Next
<1>1. UNCHANGED <<now, held>> /\ Promise!Observe
  <2>1. UNCHANGED <<now, grants, member>>
    BY DEF Request, Arrive, CacheGet, FindById, FindByEmail, CacheSet, Leave, db
  <2> QED BY <2>1, HeldIsDerived DEF Observe, Promise!Observe
<1>2. \A x \in Requests : /\ who[x] \in Keys /\ perms[x] \subseteq Permissions
                          /\ since[x] \in Nat
  BY DEF TypeOK
<1>3. trusted' = [trusted EXCEPT ![r] = trusted'[r]]
  <2>1. \A x \in Requests \ {r} : /\ pc'[x] = pc[x] /\ who'[x] = who[x] /\ perms'[x] = perms[x]
    BY DEF Request, Arrive, CacheGet, FindById, FindByEmail, CacheSet, Leave, Finish, Goto,
           Read, At, TypeOK, db
  <2>2. \A x \in Requests \ {r} : trusted'[x] = trusted[x]
    BY <2>1 DEF trusted, At
  <2>3. trusted = [x \in Requests |-> trusted[x]] /\ trusted' = [x \in Requests |-> trusted'[x]]
    BY DEF trusted
  <2> QED BY <2>2, <2>3
<1>4. trusted'[r] = IF pc'[r] = "decided"
                    THEN {<<who'[r][1], who'[r][2], p>> : p \in perms'[r]} ELSE {}
  BY DEF trusted, At
<1>5. ASSUME pc'[r] = "decided"
      PROVE  /\ who'[r] = who[r] /\ perms'[r] \subseteq Permissions
             /\ \A p \in perms'[r] : Promise!Recent(<<who[r][1], who[r][2], p>>)
  <2>1. CASE CacheGet(r)
    <3>1. /\ Hit(who[r][1], who[r][2]) /\ who'[r] = who[r]
          /\ perms'[r] = cache[<<who[r][1], who[r][2]>>].perms
      BY <1>5, <2>1 DEF CacheGet, Goto, TypeOK
    <3> DEFINE k == <<who[r][1], who[r][2]>>
    <3>2. k \in Keys
      BY <1>2 DEF Keys
    <3>3. cache[k] \in Entry /\ cache[k] # None /\ cache[k].until > now
      BY <3>1, <3>2 DEF TypeOK, Hit
    <3> HIDE DEF k
    <3>4. \A p \in cache[k].perms :
            cache[k].until <= lastHeld[<<who[r][1], who[r][2], p>>] + Latency + TTL
      BY <3>2, <3>3 DEF FreshInv, EntriesAreFresh, k
    <3>5. \A p \in cache[k].perms : lastHeld[<<who[r][1], who[r][2], p>>] \in Int
      BY <1>2, <3>3, KeyHoldings DEF TypeOK, Entry
    <3>6. \A p \in cache[k].perms : Promise!Recent(<<who[r][1], who[r][2], p>>)
      BY <3>3, <3>4, <3>5, IdentityConstants DEF Promise!Recent, Entry, TypeOK
    <3> QED BY <3>1, <3>3, <3>6 DEF Entry, k
  <2>2. CASE CacheSet(r)
    <3>1. /\ pc[r] = "cacheSet" /\ who'[r] = who[r] /\ perms'[r] = perms[r]
      BY <1>5, <2>2 DEF CacheSet, Finish, Goto, At, TypeOK
    <3>2. /\ now <= since[r] + Latency
          /\ \A p \in perms[r] : since[r] <= lastHeld[<<who[r][1], who[r][2], p>>]
      BY <3>1 DEF FreshInv, ReadsAreFresh
    <3>3. \A p \in perms[r] : lastHeld[<<who[r][1], who[r][2], p>>] \in Int
      BY <1>2, KeyHoldings DEF TypeOK
    <3>4. \A p \in perms[r] : Promise!Recent(<<who[r][1], who[r][2], p>>)
      BY <1>2, <3>2, <3>3, IdentityConstants DEF Promise!Recent, TypeOK
    <3> QED BY <1>2, <3>1, <3>4
  <2>3. CASE FindById(r)
    <3>1. who'[r] = who[r] /\ perms'[r] = {}
      BY <1>5, <2>3 DEF FindById, Finish, Goto, Read, Held, TypeOK
    <3> QED BY <3>1
  <2> QED BY <1>5, <2>1, <2>2, <2>3
          DEF Request, Arrive, FindByEmail, Leave, Finish, Goto, TypeOK
<1>6. trusted'[r] \in SUBSET {h \in Holdings : Promise!Recent(h)}
  <2>1. CASE pc'[r] = "decided"
    BY <1>2, <1>4, <1>5, <2>1, KeyHoldings
  <2>2. CASE pc'[r] # "decided"
    BY <1>4, <2>2
  <2> QED BY <2>1, <2>2
<1>7. Promise!Decide(r)
  BY <1>1, <1>3, <1>6 DEF Promise!Decide
<1> QED BY <1>1, <1>7 DEF Promise!Next

\* Every step is one the promise allows.
LEMMA StepPromised == TypeOK /\ FreshInv /\ [Next]_vars => [Promise!Next]_(Promise!vars)
<1> SUFFICES ASSUME TypeOK, FreshInv, [Next]_vars
             PROVE  [Promise!Next]_(Promise!vars)
  OBVIOUS
<1>1. ASSUME NEW a \in Admins, Administer(a), Observe PROVE Promise!Next
  <2>1. UNCHANGED <<now, request>>
    BY <1>1 DEF Administer, StartAssignRole, StartEnroll, AddTenant, SyncStaff, StartUpdateRole, WriteRole,
           ListHolders, Invalidate, Fail, CreateRole, DeleteRole, CreatePermission,
           DeletePermission, RenamePermission, UpdateUser, DeleteUser, DeleteTenant, Silently
  <2>2. UNCHANGED trusted
    BY <2>1 DEF trusted, At, request
  <2>3. held' \subseteq Holdings
    BY DEF held
  <2> QED BY <1>1, <2>1, <2>2, <2>3 DEF Observe, Promise!Observe, Promise!Change, Promise!Next
<1>2. ASSUME Tick, Observe PROVE Promise!Next
  <2>1. UNCHANGED <<held, trusted>> /\ now' = now + 1
    BY <1>2, HeldIsDerived DEF Tick, db, request, trusted, At
  <2> QED BY <1>2, <2>1 DEF Observe, Promise!Observe, Promise!Tick, Promise!Next
<1>3. ASSUME UNCHANGED vars PROVE UNCHANGED Promise!vars
  BY <1>3, HeldIsDerived DEF vars, db, request, Promise!vars, trusted, At
<1> QED BY <1>1, <1>2, <1>3, RequestPromised DEF Next

\* In the beginning no request is decided.
LEMMA InitPromised == Init => Promise!Init
<1> SUFFICES ASSUME Init PROVE Promise!Init
  OBVIOUS
<1>1. held \subseteq Holdings
  BY DEF held
<1>2. trusted = [r \in Requests |-> {}]
  BY DEF Init, trusted, At
<1> QED BY <1>1, <1>2 DEF Init, Promise!Init, Never, Promise!Never

\* Whoever loses a permission, by whatever operation, whether or not the
\* cache is told and in whatever order its entries are written and deleted:
\* no request is decided by the permission later than the lifetime of an
\* entry, and the time it takes to store one, after it was last held.
THEOREM RevocationTakesEffect == Spec => KeepsPromise
<1>1. TypeOK /\ FreshInv /\ [Next]_vars => (TypeOK /\ FreshInv)'
  BY NextTyped, NextKeepsFresh
<1> QED BY <1>1, InitTyped, InitFresh, InitPromised, StepPromised, PTL
        DEF Spec, KeepsPromise, Promise!Spec

------------------------------------------------------------------------------
(* Stale entries.  Whatever takes something away from the user of an entry   *)
(* either has the entry on its list, or marks it as one that nothing will    *)
(* bring up to date.                                                         *)

\* Operation a will delete entry k, or mark it if it fails.
Pending(a, k) ==
    /\ op[a] # None
    /\ \/ op[a].step \in {"syncStaff", "del"} /\ k \in todo[a]
       \/ op[a].step = "list" /\ k \in HoldersIn(op[a].tenant, op[a].role)

Accounted(k) ==
    \/ cache[k] = None
    \/ cache[k].perms \subseteq Held(k[1], k[2])
    \/ k \in excused
    \/ \E a \in Admins : Pending(a, k)

\* The entries that are to be deleted when a role has been given: that of the
\* user, if it is assigned.
ToDelete(o) == IF o.kind = "assign" THEN {<<o.user, o.tenant>>} ELSE {}

\* They are on the list from the start, and a role that is not created yet
\* grants nothing.
StaleInv ==
    /\ \A k \in Keys : Accounted(k)
    /\ \A a \in Admins : op[a] # None /\ op[a].step = "addTenant" =>
          todo[a] = ToDelete(op[a])
    /\ \A ro \in Roles : roles[ro] = "new" => grants[ro] = {}

\* Users hold what they held when neither roles nor memberships change.
LEMMA HeldStays ==
    ASSUME UNCHANGED <<grants, member>>
    PROVE  \A u \in Users, t \in Tenants : Held(u, t)' = Held(u, t)
  BY DEF Held, ActingRole

\* An operation says nothing of the entries of the others.
LEMMA PendingStays ==
    ASSUME NEW b \in Admins, op'[b] = op[b], todo'[b] = todo[b],
           NEW k \in Keys, member'[k] = member[k], Pending(b, k)
    PROVE  Pending(b, k)'
  BY DEF Pending, HoldersIn

\* What is new is a request's or nobody's.
LEMMA RequestKeepsStale ==
    ASSUME TypeOK, StaleInv, NEW r \in Requests, Request(r)
    PROVE  StaleInv'
<1>1. UNCHANGED <<roles, grants, member, op, todo>>
  BY DEF Request, Arrive, CacheGet, FindById, FindByEmail, CacheSet, Leave, db, admin
<1>2. ASSUME NEW k \in Keys, cache'[k] = cache[k], k \in excused => k \in excused'
      PROVE  Accounted(k)'
  <2>1. k[1] \in Users /\ k[2] \in Tenants
    BY DEF Keys
  <2>2. Held(k[1], k[2])' = Held(k[1], k[2])
    BY <1>1, <2>1, HeldStays
  <2>3. \A a \in Admins : Pending(a, k) => Pending(a, k)'
    BY <1>1, PendingStays
  <2> QED BY <1>2, <2>2, <2>3 DEF StaleInv, Accounted
<1>3. CASE CacheSet(r)
  <2>1. who[r] \in Keys /\ who[r][1] \in Users /\ who[r][2] \in Tenants
    BY DEF TypeOK, Keys
  <2>2. cache' = [cache EXCEPT ![who[r]] = [perms |-> perms[r], until |-> now + TTL]]
    BY <1>3 DEF CacheSet, Store
  <2>3. \A k \in Keys \ {who[r]} : cache'[k] = cache[k] /\ (k \in excused => k \in excused')
    BY <1>3, <2>2 DEF CacheSet, TypeOK
  <2>4. cache'[who[r]].perms = perms[r]
    BY <2>1, <2>2 DEF TypeOK
  <2>5. perms[r] \subseteq Held(who[r][1], who[r][2]) \/ who[r] \in excused'
    BY <1>3 DEF CacheSet
  <2>6. ASSUME NEW k \in Keys, k = who[r] PROVE Accounted(k)'
    <3>1. Held(k[1], k[2])' = Held(k[1], k[2])
      BY <1>1, <2>1, <2>6, HeldStays
    <3> QED BY <2>4, <2>5, <2>6, <3>1 DEF Accounted
  <2>7. \A k \in Keys : Accounted(k)'
    BY <1>2, <2>3, <2>6
  <2> QED BY <1>1, <2>7 DEF StaleInv
<1>4. CASE UNCHANGED <<cache, excused>>
  BY <1>1, <1>2, <1>4 DEF StaleInv
<1> QED BY <1>3, <1>4 DEF Request, Arrive, CacheGet, FindById, FindByEmail, Leave

\* The steps that change nobody's permissions pass their entries on.
LEMMA PassingOn ==
    ASSUME TypeOK, StaleInv, NEW a \in Admins,
           UNCHANGED <<roles, grants, member>>,
           \A b \in Admins \ {a} : op'[b] = op[b] /\ todo'[b] = todo[b],
           op'[a] # None /\ op'[a].step = "addTenant" =>
               todo'[a] = ToDelete(op'[a]),
           \A k \in Keys : \/ cache'[k] = None
                           \/ /\ cache'[k] = cache[k]
                              /\ k \in excused => k \in excused'
                              /\ Pending(a, k) => Pending(a, k)' \/ k \in excused'
    PROVE  StaleInv'
<1>1. ASSUME NEW k \in Keys PROVE Accounted(k)'
  <2>1. k[1] \in Users /\ k[2] \in Tenants
    BY DEF Keys
  <2>2. Held(k[1], k[2])' = Held(k[1], k[2])
    BY <2>1, HeldStays
  <2>3. \A b \in Admins \ {a} : Pending(b, k) => Pending(b, k)'
    BY PendingStays
  <2> QED BY <2>2, <2>3 DEF StaleInv, Accounted
<1> QED BY <1>1 DEF StaleInv

\* Only the edit of a role lists holders.
LEMMA OnlyEditsList ==
    ASSUME TypeOK, NEW a \in Admins, op[a] # None, op[a].step = "list"
    PROVE  Doing(a, "update")
<1>1. op[a] \in Op
  BY DEF TypeOK
<1> QED BY <1>1 DEF Op, Doing

\* A step of an operation changes its step and nothing else of it.
LEMMA StepOf ==
    ASSUME TypeOK, NEW a \in Admins, op[a] # None,
           NEW s \in {"syncStaff", "list", "del"}, Step(a, s),
           Doing(a, "assign") \/ Doing(a, "update"),
           Doing(a, "assign") => s # "list", Doing(a, "update") => s # "syncStaff"
    PROVE  /\ op'[a] # None /\ op'[a].step = s
           /\ op'[a].tenant = op[a].tenant /\ op'[a].role = op[a].role
           /\ \A b \in Admins \ {a} : op'[b] = op[b]
<1>1. op[a] \in Op /\ op' = [op EXCEPT ![a] = [op[a] EXCEPT !.step = s]]
  BY DEF TypeOK, Step
<1>2. [op[a] EXCEPT !.step = s] \in Op
  <2>1. CASE Doing(a, "assign")
    BY <2>1, OpTyped
  <2>2. CASE Doing(a, "update")
    BY <2>2, OpTyped
  <2> QED BY <2>1, <2>2
<1>3. op'[a] = [op[a] EXCEPT !.step = s] /\ \A b \in Admins \ {a} : op'[b] = op[b]
  BY <1>1 DEF TypeOK
<1>4. /\ [op[a] EXCEPT !.step = s].step = s
      /\ [op[a] EXCEPT !.step = s].tenant = op[a].tenant
      /\ [op[a] EXCEPT !.step = s].role = op[a].role
  BY <1>1 DEF Op
<1> QED BY <1>2, <1>3, <1>4, NoneIsNoOperation


\* When the holders have been listed, their entries are on the list.
LEMMA ListKeepsStale ==
    ASSUME TypeOK, StaleInv, NEW a \in Admins, ListHolders(a)
    PROVE  StaleInv'
<1> DEFINE S == HoldersIn(op[a].tenant, op[a].role)
<1>1. /\ op[a] # None /\ op[a].step = "list" /\ op[a].kind = "update"
      /\ UNCHANGED <<roles, grants, member, cache, excused>>
      /\ todo' = [todo EXCEPT ![a] = S]
      /\ IF S = {} THEN End(a) ELSE Step(a, "del")
  BY DEF ListHolders, Doing, db
<1>2. todo'[a] = S /\ \A b \in Admins \ {a} : todo'[b] = todo[b]
  BY <1>1 DEF TypeOK
<1>3. CASE S = {}
  <2>1. op'[a] = None /\ \A b \in Admins \ {a} : op'[b] = op[b]
    BY <1>1, <1>3 DEF End, TypeOK
  <2>2. \A k \in Keys : ~Pending(a, k)
    BY <1>1, <1>3 DEF Pending
  <2> QED BY <1>1, <1>2, <2>1, <2>2, PassingOn
<1>4. CASE S # {}
  <2>1. op'[a] # None /\ op'[a].step = "del" /\ \A b \in Admins \ {a} : op'[b] = op[b]
    BY <1>1, <1>4, StepOf DEF Doing
  <2>2. \A k \in Keys : Pending(a, k) => Pending(a, k)'
    BY <1>1, <1>2, <2>1 DEF Pending
  <2> QED BY <1>1, <1>2, <2>1, <2>2, PassingOn
<1> QED BY <1>3, <1>4

\* What an operation had still to delete when it failed is marked.
LEMMA FailKeepsStale ==
    ASSUME TypeOK, StaleInv, NEW a \in Admins, Fail(a)
    PROVE  StaleInv'
<1>1. UNCHANGED <<roles, grants, member, cache>> /\ excused \subseteq excused'
  BY DEF Fail, db
<1>2. /\ op'[a] = None /\ \A b \in Admins \ {a} : op'[b] = op[b] /\ todo'[b] = todo[b]
  BY DEF Fail, End, TypeOK
<1>3. ASSUME NEW k \in Keys, Pending(a, k) PROVE k \in excused'
  <2>1. CASE op[a].step = "list"
    <3>1. excused' = excused \cup HoldersIn(op[a].tenant, op[a].role)
      BY <2>1, Zenon DEF Fail
    <3> QED BY <1>3, <2>1, <3>1 DEF Pending
  <2>2. CASE op[a].step # "list"
    <3>1. op[a].step # "addTenant" /\ k \in todo[a]
      BY <1>3, <2>2 DEF Pending
    <3>2. excused' = excused \cup todo[a]
      BY <2>2, <3>1, Zenon DEF Fail
    <3> QED BY <3>1, <3>2
  <2> QED BY <2>1, <2>2
<1> QED BY <1>1, <1>2, <1>3, PassingOn

\* The operations keep the entries they will delete on their lists, and mark
\* those their writes make stale and they do not have there.
LEMMA OperationKeepsStale ==
    ASSUME TypeOK, StaleInv, NEW a \in Admins,
           \/ StartAssignRole(a) \/ StartEnroll(a) \/ AddTenant(a) \/ SyncStaff(a)
           \/ StartUpdateRole(a) \/ WriteRole(a) \/ ListHolders(a)
           \/ Invalidate(a) \/ Fail(a)
    PROVE  StaleInv'
<1>1. ASSUME StartAssignRole(a) \/ StartEnroll(a) \/ StartUpdateRole(a) PROVE StaleInv'
  <2>1. op[a] = None /\ UNCHANGED <<roles, grants, member, cache, excused>>
    BY <1>1 DEF StartAssignRole, StartEnroll, StartUpdateRole, Begin, db
  <2>2. /\ \A b \in Admins \ {a} : op'[b] = op[b] /\ todo'[b] = todo[b]
        /\ \/ op'[a].step = "addTenant" /\ todo'[a] = ToDelete(op'[a])
           \/ op'[a].step = "write"
    <3>1. CASE StartAssignRole(a)
      BY <3>1 DEF StartAssignRole, Begin, ToDelete, TypeOK
    <3>2. CASE StartEnroll(a)
      BY <3>2 DEF StartEnroll, Begin, ToDelete, TypeOK
    <3>3. CASE StartUpdateRole(a)
      BY <3>3 DEF StartUpdateRole, Begin, TypeOK
    <3> QED BY <1>1, <3>1, <3>2, <3>3
  <2>3. \A k \in Keys : ~Pending(a, k)
    BY <2>1 DEF Pending
  <2> QED BY <2>1, <2>2, <2>3, PassingOn
<1>2. ASSUME SyncStaff(a) PROVE StaleInv'
  <2>1. /\ op[a] # None /\ op[a].step = "syncStaff" /\ op[a].kind = "assign" /\ Step(a, "del")
        /\ UNCHANGED <<roles, grants, member, cache, excused, todo>>
    BY <1>2 DEF SyncStaff, Doing, db
  <2>2. op'[a] # None /\ op'[a].step = "del" /\ \A b \in Admins \ {a} : op'[b] = op[b]
    BY <2>1, StepOf DEF Doing
  <2>3. \A k \in Keys : Pending(a, k) => Pending(a, k)'
    BY <2>1, <2>2 DEF Pending
  <2> QED BY <2>1, <2>2, <2>3, PassingOn
<1>3. ASSUME Invalidate(a) PROVE StaleInv'
  <2>1. PICK x \in todo[a] :
          /\ cache' = [cache EXCEPT ![x] = None]
          /\ todo' = [todo EXCEPT ![a] = @ \ {x}]
          /\ excused' = excused \ {x}
          /\ IF todo[a] = {x} THEN End(a) ELSE UNCHANGED op
    BY <1>3 DEF Invalidate
  <2>2. op[a] # None /\ op[a].step = "del" /\ UNCHANGED <<roles, grants, member>>
    BY <1>3 DEF Invalidate, db
  <2>3. /\ \A k \in Keys : IF k = x THEN cache'[k] = None ELSE cache'[k] = cache[k]
        /\ todo'[a] = todo[a] \ {x}
        /\ \A b \in Admins \ {a} : op'[b] = op[b] /\ todo'[b] = todo[b]
        /\ IF todo[a] = {x} THEN op'[a] = None ELSE op'[a] = op[a]
    BY <2>1 DEF End, TypeOK
  <2>4. \A k \in Keys \ {x} : Pending(a, k) => Pending(a, k)'
    BY <2>2, <2>3 DEF Pending
  <2> QED BY <2>1, <2>2, <2>3, <2>4, PassingOn
<1>4. ASSUME AddTenant(a) PROVE StaleInv'
  <2> DEFINE x == <<op[a].user, op[a].tenant>>
  <2>1. /\ op[a] # None /\ op[a].step = "addTenant"
        /\ IF op[a].kind = "assign" THEN Step(a, "syncStaff") ELSE End(a)
        /\ todo[a] = ToDelete(op[a])
        /\ member' = [member EXCEPT ![x] = op[a].role]
        /\ UNCHANGED <<roles, grants, cache, todo>>
        /\ excused' = excused \cup ((Losers \cup (Listed \ Listed')) \ todo[a])
    BY <1>4 DEF AddTenant, Doing, StaleInv
  <2>2. /\ \A b \in Admins \ {a} : op'[b] = op[b]
        /\ IF op[a].kind = "assign" THEN op'[a] # None /\ op'[a].step = "syncStaff"
           ELSE op'[a] = None
    BY <2>1, StepOf DEF Doing, End, TypeOK
  <2>3. ~Pending(a, x)
    BY <2>1 DEF Pending
  <2>4. ASSUME NEW k \in Keys, k # x PROVE Accounted(k)'
    <3>1. member'[k] = member[k]
      BY <2>1, <2>4 DEF TypeOK
    <3>2. ~Pending(a, k) /\ k \notin todo[a]
      BY <2>1, <2>4 DEF Pending, ToDelete
    <3>3. \A b \in Admins : Pending(b, k) => Pending(b, k)'
      BY <2>1, <2>2, <3>1, <3>2, PendingStays
    <3>4. Held(k[1], k[2]) \subseteq Held(k[1], k[2])' \/ k \in excused'
      BY <2>1, <3>2 DEF Losers
    <3> QED BY <2>1, <3>3, <3>4 DEF StaleInv, Accounted
  <2>5. ASSUME NEW k \in Keys, k = x PROVE Accounted(k)'
    <3>1. CASE op[a].kind = "assign"
      BY <2>1, <2>2, <2>5, <3>1 DEF Accounted, Pending, ToDelete
    <3>2. CASE op[a].kind # "assign"
      <4>1. Held(k[1], k[2]) \subseteq Held(k[1], k[2])' \/ k \in excused'
        BY <2>1, <3>2 DEF Losers, ToDelete
      <4>2. CASE k \in excused'
        BY <4>2 DEF Accounted
      <4>3. CASE Held(k[1], k[2]) \subseteq Held(k[1], k[2])' /\ k \notin excused'
        <5>1. k \in Listed => k \in Listed'
          BY <2>1, <3>2, <4>3 DEF ToDelete
        <5>2. ASSUME NEW b \in Admins \ {a}, Pending(b, k) PROVE \E c \in Admins : Pending(c, k)'
          <6>1. CASE op[b].step \in {"syncStaff", "del"} /\ k \in todo[b]
            BY <2>1, <2>2, <5>2, <6>1 DEF Pending
          <6>2. CASE op[b].step = "list" /\ k \in HoldersIn(op[b].tenant, op[b].role)
            <7>1. k \in Listed
              BY <5>2, <6>2, OnlyEditsList DEF Listed, Pending
            <7>2. PICK c \in Admins : /\ Doing(c, "update")' /\ op'[c].step = "list"
                                      /\ k \in HoldersIn(op[c].tenant, op[c].role)'
              BY <5>1, <7>1 DEF Listed
            <7> QED BY <7>2 DEF Pending, Doing
          <6> QED BY <5>2, <6>1, <6>2 DEF Pending
        <5> QED BY <2>1, <2>3, <2>5, <4>3, <5>2 DEF StaleInv, Accounted
      <4> QED BY <4>1, <4>2, <4>3
    <3> QED BY <3>1, <3>2
  <2>6. \A b \in Admins : op'[b] # None /\ op'[b].step = "addTenant" => b # a
    BY <2>2
  <2>7. \A k \in Keys : Accounted(k)'
    BY <2>4, <2>5
  <2> QED BY <2>1, <2>2, <2>6, <2>7 DEF StaleInv
<1>5. ASSUME WriteRole(a) PROVE StaleInv'
  <2>1. /\ op[a] # None /\ op[a].step = "write" /\ op[a].kind = "update"
        /\ roles[op[a].role] = "live"
        /\ \E ps \in SUBSET names : grants' = [grants EXCEPT ![op[a].role] = ps]
        /\ IF op[a].tenant = None THEN End(a) ELSE Step(a, "list")
        /\ UNCHANGED <<roles, member, cache, todo>>
        /\ excused' = excused \cup (Losers \ HoldersIn(op[a].tenant, op[a].role))
    BY <1>5 DEF WriteRole, Doing
  <2>2. /\ \A b \in Admins \ {a} : op'[b] = op[b]
        /\ IF op[a].tenant = None THEN op'[a] = None
           ELSE /\ op'[a] # None /\ op'[a].step = "list"
                /\ op'[a].tenant = op[a].tenant /\ op'[a].role = op[a].role
    <3>1. CASE op[a].tenant = None
      BY <2>1, <3>1 DEF End, TypeOK
    <3>2. CASE op[a].tenant # None
      BY <2>1, <3>2, StepOf DEF Doing
    <3> QED BY <3>1, <3>2
  <2>3. ASSUME NEW k \in Keys PROVE Accounted(k)'
    <3>1. ~Pending(a, k)
      BY <2>1 DEF Pending
    <3>2. \A b \in Admins : Pending(b, k) => Pending(b, k)'
      BY <2>1, <2>2, <3>1, PendingStays
    <3>3. CASE Held(k[1], k[2]) \subseteq Held(k[1], k[2])'
      BY <2>1, <3>2, <3>3 DEF StaleInv, Accounted
    <3>4. CASE k \in HoldersIn(op[a].tenant, op[a].role)
      <4>1. op[a].tenant # None
        BY <3>4, IdentityConstants DEF HoldersIn, Keys
      <4>2. Pending(a, k)'
        BY <2>1, <2>2, <3>4, <4>1 DEF Pending, HoldersIn
      <4> QED BY <4>2 DEF Accounted
    <3>5. CASE k \in excused'
      BY <3>5 DEF Accounted
    <3> QED BY <2>1, <3>3, <3>4, <3>5 DEF Losers
  <2>4. \A ro \in Roles : roles'[ro] = "new" => grants'[ro] = {}
    BY <2>1 DEF StaleInv, TypeOK
  <2>5. \A b \in Admins : op'[b] # None /\ op'[b].step = "addTenant" => b # a
    BY <2>2
  <2> QED BY <2>1, <2>2, <2>3, <2>4, <2>5 DEF StaleInv
<1> QED BY <1>1, <1>2, <1>3, <1>4, <1>5, ListKeepsStale, FailKeepsStale


\* What the changes that leave the cache alone take away is marked.
LEMMA SilentMarks ==
    ASSUME TypeOK, StaleInv, NEW a \in Admins,
           \/ CreateRole(a) \/ DeleteRole(a)
           \/ CreatePermission(a) \/ DeletePermission(a) \/ RenamePermission(a)
           \/ UpdateUser(a) \/ DeleteUser(a) \/ DeleteTenant(a),
           NEW k \in Keys
    PROVE  \/ k \in excused'
           \/ member'[k] = member[k] /\ Held(k[1], k[2]) \subseteq Held(k[1], k[2])'
<1> DEFINE ro == ActingRole(k[1], k[2])
           platform == <<k[1], Platform>>
<1>1. /\ k[1] \in Users /\ k[2] \in Tenants /\ k = <<k[1], k[2]>> /\ platform \in Keys
      /\ member[k] \in Roles \cup {None} /\ member[platform] \in Roles \cup {None}
      /\ ro = IF member[k] # None THEN member[k]
              ELSE IF member[platform] = SuperRole THEN SuperRole ELSE None
      /\ ro \in Roles \cup {None} /\ None \notin Roles /\ SuperRole \in Roles
  <2>1. /\ k[1] \in Users /\ k[2] \in Tenants /\ k = <<k[1], k[2]>>
        /\ platform \in Keys
    BY IdentityConstants DEF Keys
  <2>2. member[k] \in Roles \cup {None} /\ member[platform] \in Roles \cup {None}
    BY <2>1 DEF TypeOK
  <2>3. ro = IF member[k] # None THEN member[k]
             ELSE IF member[platform] = SuperRole THEN SuperRole ELSE None
    BY <2>1 DEF ActingRole
  <2>4. None \notin Roles /\ SuperRole \in Roles
    BY IdentityConstants
  <2> QED BY <2>1, <2>2, <2>3, <2>4
<1>2. ASSUME member' = member, ro \in Roles => grants[ro] \subseteq grants'[ro]
      PROVE  member'[k] = member[k] /\ Held(k[1], k[2]) \subseteq Held(k[1], k[2])'
  <2>1. ActingRole(k[1], k[2])' = ro
    BY <1>2 DEF ActingRole
  <2> QED BY <1>1, <1>2, <2>1 DEF Held
<1>3. CASE CreateRole(a)
  <2>1. PICK new \in Roles, ps \in SUBSET names :
            roles[new] = "new" /\ grants' = [grants EXCEPT ![new] = ps]
    BY <1>3 DEF CreateRole
  <2>2. grants[new] = {} /\ \A x \in Roles : grants[x] \subseteq grants'[x]
    BY <2>1 DEF StaleInv, TypeOK
  <2> QED BY <1>2, <1>3, <2>2 DEF CreateRole
<1>4. CASE CreatePermission(a) \/ UpdateUser(a)
  BY <1>2, <1>4 DEF CreatePermission, UpdateUser
<1>5. CASE DeletePermission(a)
  <2>1. PICK p \in names :
          /\ grants' = [x \in Roles |-> grants[x] \ {p}]
          /\ excused' = excused \cup Holders({x \in Roles : p \in grants[x]})
    BY <1>5 DEF DeletePermission
  <2>2. CASE ro \in Roles /\ p \in grants[ro]
    BY <2>1, <2>2 DEF Holders
  <2>3. CASE ro \in Roles => p \notin grants[ro]
    BY <1>2, <1>5, <2>1, <2>3 DEF DeletePermission
  <2> QED BY <2>2, <2>3
<1>6. CASE RenamePermission(a)
  <2>1. PICK p \in names, q \in Permissions \ names :
          /\ grants' = [x \in Roles |-> IF p \in grants[x]
                                        THEN (grants[x] \ {p}) \cup {q} ELSE grants[x]]
          /\ excused' = excused \cup Holders({x \in Roles : p \in grants[x]})
    BY <1>6 DEF RenamePermission
  <2>2. CASE ro \in Roles /\ p \in grants[ro]
    BY <2>1, <2>2 DEF Holders
  <2>3. CASE ro \in Roles => p \notin grants[ro]
    BY <1>2, <1>6, <2>1, <2>3 DEF RenamePermission
  <2> QED BY <2>2, <2>3
<1>7. CASE DeleteRole(a)
  <2>1. PICK gone \in Roles :
          /\ grants' = [grants EXCEPT ![gone] = {}]
          /\ member' = [x \in Keys |-> IF member[x] = gone THEN None ELSE member[x]]
          /\ excused' = excused \cup Holders({gone})
    BY <1>7 DEF DeleteRole
  <2>2. CASE ro = gone
    BY <2>1, <2>2 DEF Holders
  <2>3. CASE ro # gone
    <3>1. /\ member'[k] = member[k]
          /\ member[k] = None /\ member[platform] = SuperRole
             => member'[platform] = SuperRole
      BY <1>1, <2>1, <2>3
    <3>2. ro = None \/ ActingRole(k[1], k[2])' = ro
      BY <1>1, <3>1 DEF ActingRole
    <3>3. ro # None => grants'[ro] = grants[ro]
      BY <1>1, <2>1, <2>3 DEF TypeOK
    <3> QED BY <1>1, <3>1, <3>2, <3>3 DEF Held
  <2> QED BY <2>2, <2>3
<1>8. CASE DeleteUser(a)
  <2>1. PICK u \in Users :
          /\ member' = [x \in Keys |-> IF x[1] = u THEN None ELSE member[x]]
          /\ excused' = excused \cup {x \in Keys : x[1] = u}
    BY <1>8 DEF DeleteUser
  <2>2. CASE k[1] # u
    <3>1. member'[k] = member[k] /\ member'[platform] = member[platform]
      BY <1>1, <2>1, <2>2
    <3>2. ActingRole(k[1], k[2])' = ro /\ grants' = grants
      BY <1>1, <1>8, <3>1 DEF ActingRole, DeleteUser
    <3> QED BY <3>1, <3>2 DEF Held
  <2> QED BY <2>1, <2>2
<1>9. CASE DeleteTenant(a)
  <2>1. PICK t \in tenants :
          /\ member' = [x \in Keys |-> IF x[2] = t THEN None ELSE member[x]]
          /\ excused' = excused \cup {x \in Keys : x[2] = t} \cup Losers
    BY <1>9 DEF DeleteTenant
  <2>2. CASE k[2] # t
    BY <2>1, <2>2 DEF Losers
  <2> QED BY <2>1, <2>2
<1> QED BY <1>3, <1>4, <1>5, <1>6, <1>7, <1>8, <1>9

\* So they keep every entry accounted for.
LEMMA SilentKeepsStale ==
    ASSUME TypeOK, StaleInv, NEW a \in Admins,
           \/ CreateRole(a) \/ DeleteRole(a)
           \/ CreatePermission(a) \/ DeletePermission(a) \/ RenamePermission(a)
           \/ UpdateUser(a) \/ DeleteUser(a) \/ DeleteTenant(a)
    PROVE  StaleInv'
<1>1. /\ UNCHANGED <<cache, op, todo>> /\ excused \subseteq excused'
  BY DEF CreateRole, DeleteRole, CreatePermission, DeletePermission, RenamePermission,
         UpdateUser, DeleteUser, DeleteTenant, Silently
<1>2. ASSUME NEW k \in Keys PROVE Accounted(k)'
  <2>1. CASE k \in excused'
    BY <2>1 DEF Accounted
  <2>2. CASE member'[k] = member[k] /\ Held(k[1], k[2]) \subseteq Held(k[1], k[2])'
    <3>1. \A b \in Admins : Pending(b, k) => Pending(b, k)'
      BY <1>1, <2>2, PendingStays
    <3> QED BY <1>1, <2>2, <3>1 DEF StaleInv, Accounted
  <2> QED BY <2>1, <2>2, SilentMarks
<1>3. ASSUME NEW x \in Roles, roles'[x] = "new" PROVE grants'[x] = {}
  <2>1. roles[x] = "new" /\ grants[x] = {}
    BY <1>3 DEF CreateRole, DeleteRole, CreatePermission, DeletePermission,
       RenamePermission, UpdateUser, DeleteUser, DeleteTenant, StaleInv, TypeOK
  <2> QED BY <1>3, <2>1 DEF CreateRole, DeleteRole, CreatePermission, DeletePermission,
          RenamePermission, UpdateUser, DeleteUser, DeleteTenant, TypeOK
<1> QED BY <1>1, <1>2, <1>3 DEF StaleInv

\* Every step does.
LEMMA NextKeepsStale == TypeOK /\ StaleInv /\ [Next]_vars => StaleInv'
<1> SUFFICES ASSUME TypeOK, StaleInv, [Next]_vars PROVE StaleInv'
  OBVIOUS
<1>1. ASSUME UNCHANGED <<db, cache, op, todo, excused>> PROVE StaleInv'
  <2>1. \A k \in Keys : Held(k[1], k[2])' = Held(k[1], k[2])
    BY <1>1, HeldStays DEF db, Keys
  <2>2. \A k \in Keys, a \in Admins : Pending(a, k) => Pending(a, k)'
    BY <1>1, PendingStays DEF db
  <2>3. \A k \in Keys : Accounted(k)'
    BY <1>1, <2>1, <2>2 DEF StaleInv, Accounted
  <2> QED BY <1>1, <2>3 DEF StaleInv, db
<1>2. CASE Tick \/ UNCHANGED vars
  BY <1>1, <1>2 DEF Tick, vars, admin
<1> QED BY <1>2, RequestKeepsStale, OperationKeepsStale, SilentKeepsStale
        DEF Next, Administer

\* An entry that grants more than its user holds is about to be deleted, or is
\* one of those that nothing brings up to date before it expires, whatever
\* requests and operations are under way together.
THEOREM StaleEntriesHaveReasons == Spec => []StaleEntriesAreExcused
<1>1. Init => StaleInv
  BY DEF Init, StaleInv, Accounted
<1>2. TypeOK /\ StaleInv => StaleEntriesAreExcused
  BY OnlyEditsList DEF StaleInv, Accounted, Pending, Listed, StaleEntriesAreExcused
<1> QED BY <1>1, <1>2, IdentityTyped, NextKeepsStale, PTL DEF Spec
===============================================================================
