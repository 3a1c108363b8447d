------------------------------- MODULE Identity -------------------------------
(***************************************************************************)
(* Who may do what: users, their roles in the tenants, the permissions of   *)
(* the roles, and the cache of permissions that every authenticated request *)
(* is decided by.  Requests and administrators' operations run              *)
(* concurrently; each await of the code (one call of the database or of     *)
(* Redis) is one action.                                                    *)
(*                                                                          *)
(* The cache is filled by the middleware and by login, lives for TTL, and   *)
(* is invalidated by two of the operations that change what a user may do.  *)
(* The others leave it alone, also those that give a user another role: the *)
(* keeping of staff records, and the joining of a tenant.                    *)
(***************************************************************************)
EXTENDS Integers, FiniteSets

CONSTANTS
    Users, Tenants, Roles, Permissions,
    Requests,       \* slots for requests of users
    Admins,         \* slots for operations of administrators
    Home,           \* the tenant each role is made in; a global role has none
    Platform,       \* the superadmin tenant
    SuperRole,      \* its role SUPER_ADMIN
    Protected,      \* roles that may not be deleted: those named ADMIN or USER
    StaffRoles,     \* roles named STAFF
    None,           \* no tenant, no role, or no entry
    TTL,            \* for how long an entry of the cache lives
    Latency,        \* within which what was read reaches the cache
    MaxTime,        \* bound: the clock
    MaxChanges      \* bound: operations of administrators

ASSUME IdentityConstants ==
    /\ Users # {} /\ Platform \in Tenants
    /\ SuperRole \in Roles /\ Protected \subseteq Roles /\ StaffRoles \subseteq Roles
    /\ None \notin Tenants \cup Roles
    /\ Home \in [Roles -> Tenants \cup {None}]
    /\ TTL \in Nat \ {0} /\ Latency \in Nat
    /\ MaxTime \in Nat /\ MaxChanges \in Nat
    /\ IsFiniteSet(Roles)

VARIABLES
    now,        \* the time
    tenants,    \* the tenants that are not deleted
    home,       \* the tenant of each role: none when it is deleted
    account,    \* users: "active", "inactive" or "deleted"
    roles,      \* roles: "new" until created, "live" or "deleted"
    names,      \* the permissions that exist
    grants,     \* the permissions of each role
    member,     \* the role of each user in each tenant
    cache,      \* the entry of each user and tenant in Redis
    token,      \* the role in the token of each user who has logged in
    pc,         \* where each request is
    who,        \* whose request it is, and in which tenant
    role,       \* local: the role of the request
    perms,      \* local: the permissions of the request
    since,      \* local: when the database was read
    op,         \* what each administrator is doing
    todo,       \* local: entries the operation has still to delete
    changes,    \* number of operations so far
    lastHeld,   \* history: when each permission was last held
    excused     \* history: entries that nothing will bring up to date

db == <<tenants, home, account, roles, names, grants, member>>
request == <<pc, who, role, perms, since>>
admin == <<op, todo, changes>>
vars == <<now, db, cache, token, request, admin, lastHeld, excused>>

------------------------------------------------------------------------------
(* Data *)

Keys == Users \X Tenants
Holdings == Users \X Tenants \X Permissions
Entry == [perms : SUBSET Permissions, until : Nat]

Never == -(TTL + Latency + 1)

\* The role a user acts in: the one of the tenant, or SUPER_ADMIN of the
\* platform where there is none.
ActingRole(u, t) ==
    IF member[<<u, t>>] # None THEN member[<<u, t>>]
    ELSE IF member[<<u, Platform>>] = SuperRole THEN SuperRole ELSE None

Held(u, t) == IF ActingRole(u, t) = None THEN {} ELSE grants[ActingRole(u, t)]

held == {h \in Holdings : h[3] \in Held(h[1], h[2])}

HitForEver(u, t) == cache[<<u, t>>] # None   \* variant: an entry that does not expire

Hit(u, t) == cache[<<u, t>>] # None /\ cache[<<u, t>>].until > now

VisibleAnywhere(ro, t) == roles[ro] = "live"   \* variant: no tenant in the query

\* A role may be named from its own tenant, and a global one from anywhere;
\* without a tenant, every role may.
Visible(ro, t) == roles[ro] = "live" /\ (t = None \/ home[ro] \in {t, None})

\* Whose request a slot that has none is.
SomeKey == CHOOSE k \in Keys : TRUE

At(r, step) == pc[r] = step
Goto(r, step) == pc' = [pc EXCEPT ![r] = step]
Finish(r) ==
    /\ Goto(r, "idle")
    /\ who' = [who EXCEPT ![r] = SomeKey]
    /\ role' = [role EXCEPT ![r] = None]
    /\ perms' = [perms EXCEPT ![r] = {}]
    /\ since' = [since EXCEPT ![r] = 0]

Doing(a, kind) == op[a] # None /\ op[a].kind = kind

HoldersIn(t, ro) == {k \in Keys : k[2] = t /\ member[k] = ro}

\* Entries that an edit of a role will delete when it lists the holders.
Listed == {k \in Keys : \E a \in Admins :
              Doing(a, "update") /\ op[a].step = "list" /\ k \in HoldersIn(op[a].tenant, op[a].role)}

\* Entries of users in a tenant who lose something by a step.
Losers == {k \in Keys : ~(Held(k[1], k[2]) \subseteq Held(k[1], k[2])')}

------------------------------------------------------------------------------
(* Requests *)

\* authenticate, with the token of an earlier login, or login.  The tenant of
\* the first may be that of the token, which may have been deleted since.
Arrive(r) ==
    /\ At(r, "idle")
    /\ \E u \in Users, t \in Tenants :
          /\ who' = [who EXCEPT ![r] = <<u, t>>]
          /\ \/ /\ token[u] # None
                /\ Goto(r, "cacheGet")
                /\ role' = [role EXCEPT ![r] = token[u]]
             \/ /\ t \in tenants
                /\ Goto(r, "findByEmail")
                /\ UNCHANGED role
    /\ UNCHANGED <<now, db, cache, token, perms, since, admin, excused>>

\* A hit decides the request by the entry alone: neither the account nor the
\* role is looked up.
CacheGet(r) ==
    /\ At(r, "cacheGet")
    /\ LET u == who[r][1]  t == who[r][2]
       IN IF Hit(u, t)
          THEN /\ Goto(r, "decided")
               /\ perms' = [perms EXCEPT ![r] = cache[<<u, t>>].perms]
          ELSE Goto(r, "findById") /\ UNCHANGED perms
    /\ UNCHANGED <<now, db, cache, token, who, role, since, admin, excused>>

Read(r, u, t) ==
    /\ perms' = [perms EXCEPT ![r] = Held(u, t)]
    /\ since' = [since EXCEPT ![r] = now]

\* Without a role in the tenant the request goes on with no permission and
\* the role of its token; nothing is cached.
FindById(r) ==
    /\ At(r, "findById")
    /\ LET u == who[r][1]  t == who[r][2]
       IN IF account[u] # "active"
          THEN Finish(r)
          ELSE /\ Read(r, u, t)
               /\ UNCHANGED who
               /\ IF ActingRole(u, t) = None
                  THEN Goto(r, "decided") /\ UNCHANGED role
                  ELSE /\ Goto(r, "cacheSet")
                       /\ role' = [role EXCEPT ![r] = ActingRole(u, t)]
    /\ UNCHANGED <<now, db, cache, token, admin, excused>>

\* Login: the account need not be active.
FindByEmail(r) ==
    /\ At(r, "findByEmail")
    /\ LET u == who[r][1]  t == who[r][2]
       IN IF account[u] = "deleted" \/ ActingRole(u, t) = None
          THEN Finish(r)
          ELSE /\ Read(r, u, t)
               /\ UNCHANGED who
               /\ Goto(r, "loginSet")
               /\ role' = [role EXCEPT ![r] = ActingRole(u, t)]
    /\ UNCHANGED <<now, db, cache, token, admin, excused>>

StoreForTwice(k, ps) ==   \* variant: twice the lifetime
    cache' = [cache EXCEPT ![k] = [perms |-> ps, until |-> now + TTL + TTL]]

Store(k, ps) ==
    cache' = [cache EXCEPT ![k] = [perms |-> ps, until |-> now + TTL]]

\* What was read may be out of date by now.
CacheSet(r) ==
    /\ pc[r] \in {"cacheSet", "loginSet"}
    /\ Store(who[r], perms[r])
    /\ excused' = IF perms[r] \subseteq Held(who[r][1], who[r][2])
                  THEN excused \ {who[r]} ELSE excused \cup {who[r]}
    /\ IF At(r, "loginSet")
       THEN Finish(r) /\ token' = [token EXCEPT ![who[r][1]] = role[r]]
       ELSE /\ Goto(r, "decided")
            /\ since' = [since EXCEPT ![r] = 0]
            /\ UNCHANGED <<token, who, role, perms>>
    /\ UNCHANGED <<now, db, admin>>

\* The handler has run, or the request was refused; or Redis or the database
\* answered with an error.
Leave(r) ==
    /\ ~At(r, "idle")
    /\ Finish(r)
    /\ UNCHANGED <<now, db, cache, token, admin, excused>>

------------------------------------------------------------------------------
(* Administrators *)

Begin(a, o) ==
    /\ op[a] = None
    /\ changes < MaxChanges
    /\ changes' = changes + 1
    /\ op' = [op EXCEPT ![a] = o]

Step(a, step) == op' = [op EXCEPT ![a].step = step]
End(a) == op' = [op EXCEPT ![a] = None]

\* PUT /api/users/:id/role.  The user and the role are looked up first.
StartAssignRole(a) ==
    /\ \E u \in Users, t \in tenants, ro \in Roles :
          /\ account[u] # "deleted" /\ Visible(ro, t)
          /\ Begin(a, [kind |-> "assign", step |-> "addTenant",
                       user |-> u, tenant |-> t, role |-> ro])
          /\ todo' = [todo EXCEPT ![a] = {<<u, t>>}]
    /\ UNCHANGED <<now, db, cache, token, request, excused>>

\* A staff record that is made or edited gives its user the role STAFF,
\* whichever role the user had; registration, social login and the making of
\* a tenant give a role to users who, when looked up, had none in the tenant.
StartEnroll(a) ==
    /\ \E u \in Users, t \in tenants, ro \in Roles :
          /\ account[u] # "deleted" /\ Visible(ro, t)
          /\ ro \in StaffRoles \/ member[<<u, t>>] = None
          /\ Begin(a, [kind |-> "enroll", step |-> "addTenant",
                       user |-> u, tenant |-> t, role |-> ro])
          /\ todo' = [todo EXCEPT ![a] = {}]
    /\ UNCHANGED <<now, db, cache, token, request, excused>>

\* The row refers to the user, the tenant and the role, which must still
\* exist, and replaces the one of the user and tenant.  Only an assignment
\* goes on to the cache.
AddTenant(a) ==
    /\ op[a] # None /\ op[a].step = "addTenant"
    /\ account[op[a].user] # "deleted" /\ roles[op[a].role] = "live"
    /\ op[a].tenant \in tenants
    /\ member' = [member EXCEPT ![<<op[a].user, op[a].tenant>>] = op[a].role]
    /\ IF Doing(a, "assign") THEN Step(a, "syncStaff") ELSE End(a)
    /\ UNCHANGED <<now, tenants, home, account, roles, names, grants, cache, token,
                   request, todo, changes>>
    /\ excused' = excused \cup ((Losers \cup (Listed \ Listed')) \ todo[a])

\* The staff record is brought in line with the role, and the user read back:
\* three awaits that touch nothing here, but may fail.
SyncStaff(a) ==
    /\ Doing(a, "assign") /\ op[a].step = "syncStaff"
    /\ Step(a, "del")
    /\ UNCHANGED <<now, db, cache, token, request, todo, changes, excused>>

\* PUT /api/roles/:id, on a management path, which needs no tenant.
StartUpdateRole(a) ==
    /\ \E t \in tenants \cup {None}, ro \in Roles :
          /\ Visible(ro, t)
          /\ Begin(a, [kind |-> "update", step |-> "write", tenant |-> t, role |-> ro])
          /\ todo' = [todo EXCEPT ![a] = {}]
    /\ UNCHANGED <<now, db, cache, token, request, excused>>

\* The holders of the role in the tenant of the request are those whose
\* entries will be deleted; the others keep theirs.
WriteRole(a) ==
    /\ Doing(a, "update") /\ op[a].step = "write"
    /\ roles[op[a].role] = "live"
    /\ \E ps \in SUBSET names : grants' = [grants EXCEPT ![op[a].role] = ps]
    /\ IF op[a].tenant = None THEN End(a) ELSE Step(a, "list")
    /\ UNCHANGED <<now, tenants, home, account, roles, names, member, cache, token, request,
                   todo, changes>>
    /\ excused' = excused \cup (Losers \ HoldersIn(op[a].tenant, op[a].role))

ListHolders(a) ==
    /\ Doing(a, "update") /\ op[a].step = "list"
    /\ LET S == HoldersIn(op[a].tenant, op[a].role)
       IN /\ todo' = [todo EXCEPT ![a] = S]
          /\ IF S = {} THEN End(a) ELSE Step(a, "del")
    /\ UNCHANGED <<now, db, cache, token, request, changes, excused>>

InvalidateNothing(a) ==   \* variant: the entry is left where it is
    /\ op[a] # None /\ op[a].step = "del"
    /\ \E k \in todo[a] :
          /\ todo' = [todo EXCEPT ![a] = @ \ {k}]
          /\ IF todo[a] = {k} THEN End(a) ELSE UNCHANGED op
    /\ UNCHANGED <<now, db, cache, token, request, changes, excused>>

Invalidate(a) ==
    /\ op[a] # None /\ op[a].step = "del"
    /\ \E k \in todo[a] :
          /\ cache' = [cache EXCEPT ![k] = None]
          /\ todo' = [todo EXCEPT ![a] = @ \ {k}]
          /\ excused' = excused \ {k}
          /\ IF todo[a] = {k} THEN End(a) ELSE UNCHANGED op
    /\ UNCHANGED <<now, db, token, request, changes>>

\* A call fails, and the rest of the operation is not done.
Fail(a) ==
    /\ op[a] # None
    /\ End(a)
    /\ excused' = excused \cup
         CASE op[a].step = "list" -> HoldersIn(op[a].tenant, op[a].role)
           [] op[a].step = "addTenant" -> {}
           [] OTHER -> todo[a]
    /\ todo' = [todo EXCEPT ![a] = {}]
    /\ UNCHANGED <<now, db, cache, token, request, changes>>

------------------------------------------------------------------------------
(* Changes that leave the cache alone.  What each looks up before it writes  *)
(* is looked up again by the write. *)

Silently(a) ==
    /\ op[a] = None
    /\ changes < MaxChanges
    /\ changes' = changes + 1
    /\ UNCHANGED <<now, cache, token, request, op, todo>>

Holders(S) == {k \in Keys : ActingRole(k[1], k[2]) \in S}

CreateRole(a) ==
    /\ \E ro \in Roles, ps \in SUBSET names :
          /\ roles[ro] = "new" /\ home[ro] \in tenants \cup {None}
          /\ roles' = [roles EXCEPT ![ro] = "live"]
          /\ grants' = [grants EXCEPT ![ro] = ps]
    /\ Silently(a)
    /\ UNCHANGED <<tenants, home, account, names, member, excused>>

\* The users' memberships go with the role.
DeleteRole(a) ==
    /\ \E ro \in Roles \ Protected, t \in tenants \cup {None} :
          /\ Visible(ro, t)
          /\ roles' = [roles EXCEPT ![ro] = "deleted"]
          /\ grants' = [grants EXCEPT ![ro] = {}]
          /\ member' = [k \in Keys |-> IF member[k] = ro THEN None ELSE member[k]]
          /\ excused' = excused \cup Holders({ro})
    /\ Silently(a)
    /\ UNCHANGED <<tenants, home, account, names>>

CreatePermission(a) ==
    /\ \E p \in Permissions \ names : names' = names \cup {p}
    /\ Silently(a)
    /\ UNCHANGED <<tenants, home, account, roles, grants, member, excused>>

\* A permission has one row for all tenants, and goes from every role.
DeletePermission(a) ==
    /\ \E p \in names :
          /\ names' = names \ {p}
          /\ grants' = [ro \in Roles |-> grants[ro] \ {p}]
          /\ excused' = excused \cup Holders({ro \in Roles : p \in grants[ro]})
    /\ Silently(a)
    /\ UNCHANGED <<tenants, home, account, roles, member>>

RenamePermission(a) ==
    /\ \E p \in names, q \in Permissions \ names :
          /\ names' = (names \ {p}) \cup {q}
          /\ grants' = [ro \in Roles |-> IF p \in grants[ro]
                                         THEN (grants[ro] \ {p}) \cup {q} ELSE grants[ro]]
          /\ excused' = excused \cup Holders({ro \in Roles : p \in grants[ro]})
    /\ Silently(a)
    /\ UNCHANGED <<tenants, home, account, roles, member>>

UpdateUser(a) ==
    /\ \E u \in Users, active \in {"active", "inactive"} :
          /\ account[u] # "deleted"
          /\ account' = [account EXCEPT ![u] = active]
    /\ Silently(a)
    /\ UNCHANGED <<tenants, home, roles, names, grants, member, excused>>

DeleteUser(a) ==
    /\ \E u \in Users :
          /\ account[u] # "deleted"
          /\ account' = [account EXCEPT ![u] = "deleted"]
          /\ member' = [k \in Keys |-> IF k[1] = u THEN None ELSE member[k]]
          /\ excused' = excused \cup {k \in Keys : k[1] = u}
    /\ Silently(a)
    /\ UNCHANGED <<tenants, home, roles, names, grants>>

\* The memberships go with the tenant, and its roles stay, as roles of no
\* tenant.  (The statement fails while the tenant has products or orders.)
DeleteTenant(a) ==
    /\ UNCHANGED <<account, roles, names, grants>>
    /\ \E t \in tenants :
          /\ tenants' = tenants \ {t}
          /\ member' = [k \in Keys |-> IF k[2] = t THEN None ELSE member[k]]
          /\ home' = [ro \in Roles |-> IF home[ro] = t /\ roles[ro] # "new"
                                       THEN None ELSE home[ro]]
          /\ excused' = excused \cup {k \in Keys : k[2] = t} \cup Losers
    /\ Silently(a)

------------------------------------------------------------------------------
\* The clock; what was read reaches the cache within Latency.
Tick ==
    /\ now < MaxTime
    /\ \A r \in Requests : pc[r] \in {"cacheSet", "loginSet"} => now < since[r] + Latency
    /\ now' = now + 1
    /\ UNCHANGED <<db, cache, token, request, admin, excused>>

Init ==
    /\ now = 0
    /\ tenants = Tenants /\ home = Home
    /\ account = [u \in Users |-> "active"]
    /\ roles \in [Roles -> {"new", "live"}]
    /\ names \in SUBSET Permissions
    /\ grants \in [Roles -> SUBSET names]
    /\ \A ro \in Roles : roles[ro] = "new" => grants[ro] = {}
    /\ member \in [Keys -> Roles \cup {None}]
    /\ \A k \in Keys : member[k] # None =>
          roles[member[k]] = "live" /\ Home[member[k]] \in {k[2], None}
    /\ cache = [k \in Keys |-> None]
    /\ token = [u \in Users |-> None]
    /\ pc = [r \in Requests |-> "idle"]
    /\ who = [r \in Requests |-> SomeKey]
    /\ role = [r \in Requests |-> None]
    /\ perms = [r \in Requests |-> {}]
    /\ since = [r \in Requests |-> 0]
    /\ op = [a \in Admins |-> None]
    /\ todo = [a \in Admins |-> {}]
    /\ changes = 0
    /\ lastHeld = [h \in Holdings |-> IF h \in held THEN 0 ELSE Never]
    /\ excused = {}

Observe == lastHeld' = [h \in Holdings |-> IF h \in held' THEN now' ELSE lastHeld[h]]

Request(r) ==
    Arrive(r) \/ CacheGet(r) \/ FindById(r) \/ FindByEmail(r) \/ CacheSet(r) \/ Leave(r)

Administer(a) ==
    \/ StartAssignRole(a) \/ StartEnroll(a) \/ AddTenant(a) \/ SyncStaff(a)
    \/ StartUpdateRole(a) \/ WriteRole(a) \/ ListHolders(a)
    \/ Invalidate(a) \/ Fail(a)
    \/ CreateRole(a) \/ DeleteRole(a)
    \/ CreatePermission(a) \/ DeletePermission(a) \/ RenamePermission(a)
    \/ UpdateUser(a) \/ DeleteUser(a) \/ DeleteTenant(a)

Next ==
    /\ \/ \E r \in Requests : Request(r)
       \/ \E a \in Admins : Administer(a)
       \/ Tick
    /\ Observe

Spec == Init /\ [][Next]_vars

------------------------------------------------------------------------------
(* Properties *)

Op ==
    [kind : {"assign"}, step : {"addTenant", "syncStaff", "del"},
     user : Users, tenant : Tenants, role : Roles]
    \cup [kind : {"enroll"}, step : {"addTenant"},
          user : Users, tenant : Tenants, role : Roles]
    \cup [kind : {"update"}, step : {"write", "list", "del"},
          tenant : Tenants \cup {None}, role : Roles]

ASSUME NoneIsNoOperation == None \notin Op

TypeOK ==
    /\ now \in Nat
    /\ tenants \in SUBSET Tenants
    /\ home \in [Roles -> Tenants \cup {None}]
    /\ account \in [Users -> {"active", "inactive", "deleted"}]
    /\ roles \in [Roles -> {"new", "live", "deleted"}]
    /\ names \in SUBSET Permissions
    /\ grants \in [Roles -> SUBSET Permissions]
    /\ member \in [Keys -> Roles \cup {None}]
    /\ cache \in [Keys -> Entry \cup {None}]
    /\ \A k \in Keys : cache[k] # None => cache[k].until <= now + TTL
    /\ token \in [Users -> Roles \cup {None}]
    /\ pc \in [Requests -> {"idle", "cacheGet", "findById", "findByEmail",
                            "cacheSet", "loginSet", "decided"}]
    /\ who \in [Requests -> Keys]
    /\ role \in [Requests -> Roles \cup {None}]
    /\ perms \in [Requests -> SUBSET Permissions]
    /\ since \in [Requests -> Nat]
    /\ op \in [Admins -> Op \cup {None}]
    /\ todo \in [Admins -> SUBSET Keys]
    /\ changes \in Nat
    /\ lastHeld \in [Holdings -> Int]
    /\ excused \in SUBSET Keys

\* Nobody holds a role of another tenant: a role that is being given was
\* looked up in the tenant of the request, and its tenant changes only when it
\* is deleted, with all who hold a role in it.
RolesAreOwnOrGlobal ==
    \A k \in Keys : member[k] # None => home[member[k]] \in {k[2], None}

\* An entry that grants more than its user holds is about to be deleted by
\* the operation that took something away, or is one of those that nothing
\* will bring up to date before it expires: the user, the tenant, the role or
\* the permission was deleted, the permission renamed, the role edited from
\* elsewhere, the user made staff, a role assigned to the user replaced by
\* that of a registration or social login under way, or either done before an
\* edit of the role the user had lists its holders; the operation failed
\* halfway; or the entry was read before the change and stored after the
\* invalidation.
StaleEntriesAreExcused ==
    \A k \in Keys : cache[k] # None =>
        \/ cache[k].perms \subseteq Held(k[1], k[2])
        \/ k \in excused
        \/ k \in Listed
        \/ \E a \in Admins : op[a] # None /\ k \in todo[a]

\* However a permission is taken away, and whatever becomes of the cache, no
\* request is decided by it more than the lifetime of an entry, and the time
\* it takes to store one, later.  (A role named SUPER_ADMIN needs no
\* permission: it passes by the name in the token.)
trusted == [r \in Requests |->
              IF At(r, "decided") THEN {<<who[r][1], who[r][2], p>> : p \in perms[r]}
              ELSE {}]

Promise == INSTANCE Authority WITH Window <- TTL + Latency

KeepsPromise == Promise!Spec
==============================================================================
