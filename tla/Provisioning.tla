----------------------------- MODULE Provisioning -----------------------------
(***************************************************************************)
(* How tenants and their members come to be: the creation of a tenant with  *)
(* its permissions and roles, the registration of users, edits of a tenant  *)
(* and its deletion.  Nothing of it runs in a transaction: each await is    *)
(* one action, any of them may fail, and what was written before stays.     *)
(***************************************************************************)
EXTENDS Access, Integers

CONSTANTS
    Creations,      \* requests that create a tenant; the tenant has their name
    Registrations,  \* requests that register a user
    Edits,          \* requests that edit a tenant
    Users,          \* e-mail addresses of users
    Slugs,          \* slugs of tenants
    Platform,       \* the superadmin tenant
    PlatformSlug,
    Founder,        \* its super administrator
    None,
    Fragile,        \* bound: the permissions that may be deleted
    MaxAway         \* bound: tenants and permissions that are deleted

ASSUME ProvisioningConstants ==
    /\ Platform \notin Creations /\ PlatformSlug \notin Slugs
    /\ Founder \in Users
    /\ Creations \cap Registrations = {} /\ (Creations \cup Registrations) \cap Edits = {}
    /\ None \notin Creations \cup {Platform} \cup Users
    /\ Fragile \subseteq SeededPermissions /\ MaxAway \in Nat

VARIABLES
    state,      \* tenants: "none", "active", "inactive" or "deleted"
    slug,       \* the slug of each tenant
    config,     \* the edits its configuration reflects
    names,      \* the permissions that exist
    grants,     \* the permissions of each role that exists
    exists,     \* the users that exist
    member,     \* the role of each user in each tenant
    pc,         \* where each request is
    todo,       \* local of a creation: default permissions still to be had
    hand,       \* local of a creation: the permissions whose ids it has
    missing,    \* local of a creation: one that was not found
    wish,       \* local: the slug, user, tenant or role a request is about
    seen,       \* local of an edit: the configuration it has read
    before,     \* history: edits stored before an edit began
    away,       \* number of deletions so far
    taken       \* history: permissions that roles have lost

shop == <<state, slug, config>>
access == <<names, grants, exists, member>>
locals == <<todo, hand, missing, wish, seen>>
counts == <<before, away, taken>>
vars == <<shop, access, pc, locals, counts>>

------------------------------------------------------------------------------
(* Data *)

Tenants == Creations \cup {Platform}
RoleNames == DOMAIN SeededRoles \cup DOMAIN DefaultRoles
Roles == Tenants \X RoleNames
Keys == Users \X Tenants

ASSUME NoneIsNoRole == None \notin Roles

\* The roles a tenant may have, and their permissions.
RolesFor(t) == IF t = Platform THEN SeededRoles ELSE DefaultRoles

\* A role without permissions is a role, and those of the seed are seeded.
ASSUME NoneIsNoGrant ==
    \A gone \in SUBSET Fragile, t \in Tenants :
        \A name \in DOMAIN RolesFor(t) : RolesFor(t)[name] \ gone # None
ASSUME SeededRolesAreSeeded ==
    \A name \in DOMAIN SeededRoles : SeededRoles[name] \subseteq SeededPermissions

Requests == Creations \cup Registrations \cup Edits

At(r, step) == pc[r] = step
Goto(r, step) == pc' = [pc EXCEPT ![r] = step]
Working == {r \in Requests : pc[r] \notin {"idle", "success", "failed", "duplicate"}}

Present(t) == state[t] \in {"active", "inactive"}

\* Tenants are told apart by their slugs: two never have the same.
SlugTaken(s) == \E t \in Tenants : Present(t) /\ slug[t] = s

RoleExists(ro) == grants[ro] # None

\* Deleting a tenant leaves its roles behind, as roles of no tenant.
HomeOf(ro) == IF Present(ro[1]) THEN ro[1] ELSE None

VisibleToAll(t, name) == {ro \in Roles : RoleExists(ro) /\ ro[2] = name}   \* variant

\* What findByName may return: a role of the tenant, or one of none.
Visible(t, name) ==
    {ro \in Roles : RoleExists(ro) /\ ro[2] = name /\ HomeOf(ro) \in {t, None}}

------------------------------------------------------------------------------
(* The creation of a tenant *)

FindBySlug(c) ==
    /\ At(c, "idle")
    /\ state[c] = "none"
    /\ \E s \in Slugs :
          /\ wish' = [wish EXCEPT ![c] = s]
          /\ Goto(c, IF SlugTaken(s) THEN "duplicate" ELSE "create")
    /\ UNCHANGED <<shop, access, todo, hand, missing, seen, counts>>

CreateUnchecked(c) ==   \* variant: the slug is checked only beforehand
    /\ At(c, "create")
    /\ state' = [state EXCEPT ![c] = "active"]
    /\ slug' = [slug EXCEPT ![c] = wish[c]]
    /\ todo' = [todo EXCEPT ![c] = DefaultPermissions]
    /\ Goto(c, "findPermission")
    /\ UNCHANGED <<config, access, hand, missing, wish, seen, counts>>

\* A slug taken meanwhile is refused by the unique index.
Create(c) ==
    /\ At(c, "create")
    /\ IF SlugTaken(wish[c])
       THEN Goto(c, "duplicate") /\ UNCHANGED <<state, slug, todo>>
       ELSE /\ state' = [state EXCEPT ![c] = "active"]
            /\ slug' = [slug EXCEPT ![c] = wish[c]]
            /\ todo' = [todo EXCEPT ![c] = DefaultPermissions]
            /\ Goto(c, "findPermission")
    /\ UNCHANGED <<config, access, hand, missing, wish, seen, counts>>

\* upsertByName, one name after the other: those that are found, and the next
\* that is not.
FindPermissions(c) ==
    /\ At(c, "findPermission")
    /\ hand' = [hand EXCEPT ![c] = @ \cup (todo[c] \cap names)]
    /\ IF todo[c] \subseteq names
       THEN /\ todo' = [todo EXCEPT ![c] = {}]
            /\ Goto(c, RoleOrder[1])
            /\ UNCHANGED missing
       ELSE \E p \in todo[c] \ names :
            /\ todo' = [todo EXCEPT ![c] = (@ \ names) \ {p}]
            /\ missing' = [missing EXCEPT ![c] = p]
            /\ Goto(c, "createPermission")
    /\ UNCHANGED <<shop, access, wish, seen, counts>>

\* The name of a permission is unique among all tenants.
CreatePermission(c) ==
    /\ At(c, "createPermission")
    /\ IF missing[c] \in names
       THEN Goto(c, "failed") /\ UNCHANGED <<names, hand>>
       ELSE /\ Goto(c, "findPermission")
            /\ names' = names \cup {missing[c]}
            /\ hand' = [hand EXCEPT ![c] = @ \cup {missing[c]}]
    /\ missing' = [missing EXCEPT ![c] = None]
    /\ UNCHANGED <<shop, grants, exists, member, todo, wish, seen, counts>>

\* What comes after a role: the next, or the creator.
After(name) ==
    LET i == CHOOSE i \in DOMAIN RoleOrder : RoleOrder[i] = name
    IN IF i = Len(RoleOrder) THEN "addTenant" ELSE RoleOrder[i + 1]

CreateRoleOfWhatIsLeft(c) ==   \* variant: permissions are connected if they exist
    /\ pc[c] \in DOMAIN DefaultRoles
    /\ grants' = [grants EXCEPT ![<<c, pc[c]>>] = DefaultRoles[pc[c]] \cap hand[c]]
    /\ Goto(c, After(pc[c]))
    /\ UNCHANGED <<shop, names, exists, member, locals, counts>>

\* createWithPermissions, for each role in order.  It refers to the tenant
\* and to the permissions, which must still be those that were found.
CreateRole(c) ==
    /\ pc[c] \in DOMAIN DefaultRoles
    /\ IF Present(c) /\ DefaultRoles[pc[c]] \subseteq hand[c]
       THEN /\ grants' = [grants EXCEPT ![<<c, pc[c]>>] = DefaultRoles[pc[c]]]
            /\ Goto(c, After(pc[c]))
       ELSE Goto(c, "failed") /\ UNCHANGED grants
    /\ UNCHANGED <<shop, names, exists, member, locals, counts>>

\* The user who created the tenant becomes its administrator.
AddCreator(c) ==
    /\ At(c, "addTenant")
    /\ IF Present(c)
       THEN /\ member' = [member EXCEPT ![<<Founder, c>>] = <<c, "ADMIN">>]
            /\ Goto(c, "success")
       ELSE Goto(c, "failed") /\ UNCHANGED member
    /\ UNCHANGED <<shop, names, grants, exists, locals, counts>>

CreateTenant(c) ==
    \/ FindBySlug(c) \/ Create(c) \/ FindPermissions(c) \/ CreatePermission(c)
    \/ CreateRole(c) \/ AddCreator(c)

------------------------------------------------------------------------------
(* The registration of a user *)

\* tenantMiddleware on a management path: a tenant that is not found leaves
\* the request without one.  The platform takes those who name none.
ResolveTenant(t) == IF t = None \/ ~Present(t) THEN None ELSE t

Signup(r) ==
    /\ At(r, "idle")
    /\ \E u \in Users, named \in Tenants \cup {None} :
          LET found == ResolveTenant(named)
              t == IF found = None THEN ResolveTenant(Platform) ELSE found
          IN /\ wish' = [wish EXCEPT ![r] = <<u, t, None>>]
             /\ Goto(r, IF found # None /\ state[found] = "inactive" THEN "failed"
                        ELSE IF t = None THEN "failed" ELSE "findByEmail")
    /\ UNCHANGED <<shop, access, todo, hand, missing, seen, counts>>

User(r) == wish[r][1]
TenantOf(r) == wish[r][2]

FindByEmailOnly(r) ==   \* variant: the user is not created
    /\ At(r, "findByEmail")
    /\ Goto(r, IF User(r) \in exists THEN "duplicate" ELSE "findRole")
    /\ UNCHANGED <<shop, access, locals, counts>>

FindByEmail(r) ==
    /\ At(r, "findByEmail")
    /\ Goto(r, IF User(r) \in exists THEN "duplicate" ELSE "createUser")
    /\ UNCHANGED <<shop, access, locals, counts>>

CreateUser(r) ==
    /\ At(r, "createUser")
    /\ IF User(r) \in exists
       THEN Goto(r, "duplicate") /\ UNCHANGED exists
       ELSE Goto(r, "findRole") /\ exists' = exists \cup {User(r)}
    /\ UNCHANGED <<shop, names, grants, member, locals, counts>>

\* findFirst without an order: any role that is visible and has the name.
FindRole(r) ==
    /\ At(r, "findRole")
    /\ LET S == Visible(TenantOf(r), "USER")
       IN IF S = {} THEN Goto(r, "failed") /\ UNCHANGED wish
          ELSE /\ \E ro \in S : wish' = [wish EXCEPT ![r][3] = ro]
               /\ Goto(r, "addTenant")
    /\ UNCHANGED <<shop, access, todo, hand, missing, seen, counts>>

AddMember(r) ==
    /\ At(r, "addTenant")
    /\ IF Present(TenantOf(r))
       THEN /\ member' = [member EXCEPT ![<<User(r), TenantOf(r)>>] = wish[r][3]]
            /\ Goto(r, "welcome")
       ELSE Goto(r, "failed") /\ UNCHANGED member
    /\ UNCHANGED <<shop, names, grants, exists, locals, counts>>

\* The user is read back, and a welcome is queued, whose failure is ignored.
Welcome(r) ==
    /\ At(r, "welcome")
    /\ Goto(r, "success")
    /\ UNCHANGED <<shop, access, locals, counts>>

Register(r) ==
    Signup(r) \/ FindByEmail(r) \/ CreateUser(r) \/ FindRole(r) \/ AddMember(r) \/ Welcome(r)

------------------------------------------------------------------------------
(* Edits and deletions *)

FindTenant(e) ==
    /\ At(e, "idle")
    /\ \E t \in Tenants :
          /\ Present(t)
          /\ wish' = [wish EXCEPT ![e] = t]
          /\ seen' = [seen EXCEPT ![e] = config[t]]
    /\ before' = [before EXCEPT ![e] = {f \in Edits : At(f, "success")}]
    /\ Goto(e, "write")
    /\ UNCHANGED <<shop, access, todo, hand, missing, away, taken>>

MergeNothing(e) == {e}   \* variant: the configuration is replaced

\* What was read, and the values of the request over it.
Merge(e) == seen[e] \cup {e}

\* A slug is taken over only if it is free (the edit fails otherwise); the
\* tenant may be switched off.
WriteTenant(e) ==
    /\ At(e, "write")
    /\ LET t == wish[e]
       IN IF ~Present(t)
          THEN Goto(e, "failed") /\ UNCHANGED shop
          ELSE /\ config' = [config EXCEPT ![t] = Merge(e)]
               /\ \/ UNCHANGED slug
                  \/ \E s \in Slugs : ~SlugTaken(s) /\ slug' = [slug EXCEPT ![t] = s]
               /\ \E x \in {"active", "inactive"} : state' = [state EXCEPT ![t] = x]
               /\ Goto(e, "success")
    /\ UNCHANGED <<access, locals, counts>>

\* Memberships go with a tenant, its roles stay; a tenant that has products,
\* orders, staff or the like is not deleted.
DeleteTenant(t) ==
    /\ Present(t) /\ away < MaxAway
    /\ away' = away + 1
    /\ state' = [state EXCEPT ![t] = "deleted"]
    /\ member' = [k \in Keys |-> IF k[2] = t THEN None ELSE member[k]]
    /\ UNCHANGED <<slug, config, names, grants, exists, pc, locals, before, taken>>

\* A permission goes from the roles of all tenants.
DeletePermission(p) ==
    /\ p \in names \cap Fragile /\ away < MaxAway
    /\ away' = away + 1
    /\ names' = names \ {p}
    /\ grants' = [ro \in Roles |-> IF RoleExists(ro) THEN grants[ro] \ {p} ELSE None]
    /\ taken' = taken \cup {<<ro, p>> : ro \in {x \in Roles : RoleExists(x) /\ p \in grants[x]}}
    /\ hand' = [c \in Creations |-> hand[c] \ {p}]
    /\ UNCHANGED <<shop, exists, member, pc, todo, missing, wish, seen, before>>

\* A call fails, and what the request would have done next is not done.
Fail(r) ==
    /\ r \in Working
    /\ Goto(r, "failed")
    /\ UNCHANGED <<shop, access, locals, counts>>

------------------------------------------------------------------------------
\* As seeded: the platform, its roles, and its super administrator.
InitAt(at) ==
    /\ state = [t \in Tenants |-> IF t = Platform THEN "active" ELSE "none"]
    /\ slug = [t \in Tenants |-> IF t = Platform THEN PlatformSlug ELSE None]
    /\ config = [t \in Tenants |-> {}]
    /\ names = SeededPermissions
    /\ grants = [ro \in Roles |->
                   IF ro[1] = Platform /\ ro[2] \in DOMAIN SeededRoles
                   THEN SeededRoles[ro[2]] ELSE None]
    /\ exists = {Founder}
    /\ member = [k \in Keys |->
                   IF k = <<Founder, Platform>> THEN <<Platform, "SUPER_ADMIN">> ELSE None]
    /\ pc = at
    /\ todo = [r \in Creations |-> {}]
    /\ hand = [r \in Creations |-> {}]
    /\ missing = [r \in Creations |-> None]
    /\ wish = [r \in Requests |-> None]
    /\ seen = [e \in Edits |-> {}]
    /\ before = [e \in Edits |-> {}]
    /\ away = 0
    /\ taken = {}

Init == InitAt([r \in Requests |-> "idle"])

Next ==
    \/ \E c \in Creations : CreateTenant(c)
    \/ \E r \in Registrations : Register(r)
    \/ \E e \in Edits : FindTenant(e) \/ WriteTenant(e)
    \/ \E t \in Tenants : DeleteTenant(t)
    \/ \E p \in Fragile : DeletePermission(p)
    \/ \E r \in Requests : Fail(r)

Spec == Init /\ [][Next]_vars

------------------------------------------------------------------------------
(* Properties *)

TypeOK ==
    /\ state \in [Tenants -> {"none", "active", "inactive", "deleted"}]
    /\ slug \in [Tenants -> Slugs \cup {PlatformSlug, None}]
    /\ config \in [Tenants -> SUBSET Edits]
    /\ names \subseteq SeededPermissions \cup DefaultPermissions
    /\ \A ro \in Roles : RoleExists(ro) =>
          grants[ro] \subseteq SeededPermissions \cup DefaultPermissions
    /\ exists \subseteq Users
    /\ member \in [Keys -> Roles \cup {None}]
    /\ \A k \in Keys : member[k] # None => RoleExists(member[k]) /\ k[1] \in exists
    /\ \A c \in Creations : hand[c] \subseteq names
    /\ away \in 0..MaxAway

\* Two tenants never answer to one slug, and one e-mail address is never
\* registered twice, although both are looked up one await before they are
\* written, and edits move slugs about.
NamesAreUnique ==
    /\ \A t, x \in Tenants : Present(t) /\ Present(x) /\ slug[t] = slug[x] => t = x
    /\ \A r, x \in Registrations :
          At(r, "success") /\ At(x, "success") /\ wish[r][1] = wish[x][1] => r = x

\* Nobody is a member of one tenant with the role of another, except with a
\* role whose tenant has been deleted: the role is looked up, by its name, in
\* the tenant of the request, before the user becomes a member.
MembersRolesAreTheirTenants ==
    \A k \in Keys : member[k] # None =>
        \/ member[k][1] = k[2]
        \/ state[member[k][1]] = "deleted"

\* A creation that reports success has done all of it, whatever happened to
\* the tenant and to the permissions meanwhile: each role has exactly its
\* permissions, less those that were taken away from it afterwards, and the
\* creator is the administrator.  (One that fails leaves a tenant behind that
\* is active and has some of its roles.)
SuccessMeansComplete ==
    /\ \A c \in Creations : At(c, "success") /\ Present(c) =>
          /\ \A name \in DOMAIN DefaultRoles :
                grants[<<c, name>>] =
                    DefaultRoles[name] \ {p \in Fragile : <<<<c, name>>, p>> \in taken}
          /\ member[<<Founder, c>>] = <<c, "ADMIN">>
    /\ \A r \in Registrations : At(r, "success") /\ Present(wish[r][2]) =>
          member[<<wish[r][1], wish[r][2]>>] # None

\* The operations that nobody in a tenant may call, once it is complete.
Closed(t) ==
    {o \in Operations : ~\E name \in RoleNames :
        RoleExists(<<t, name>>) /\ MayCall(grants[<<t, name>>], o)}

KnownClosed ==
    ({"cart"} \X {"getItems", "create", "addToCart", "removeFromCart", "clearCart"})
    \cup ({"orders"} \X {"changeStatus", "update"})
    \cup ({"slides"} \X {"create", "update", "delete"})
    \cup ({"features"} \X {"getAll", "create", "update", "delete"})
    \cup ({"logs"} \X {"getAll", "getStats"})

\* In a new tenant every operation the routers offer is open to somebody,
\* except for those whose permission the creation does not give to any role:
\* carts, changes of orders, slides, features and logs.
RoutesAreOpen ==
    \A c \in Creations : At(c, "success") /\ Present(c) /\ taken = {} =>
        Closed(c) = KnownClosed

\* An edit whose values are gone from the configuration was lost to another
\* that overlapped it: neither had ended when the other began.  An edit never
\* undoes what had been done before it began.
EditsAreLostToConcurrentOnes ==
    \A f \in Edits : At(f, "success") /\ Present(wish[f]) /\ f \notin config[wish[f]] =>
        \E g \in Edits \ {f} : /\ At(g, "success") /\ wish[g] = wish[f]
                              /\ f \notin before[g] /\ g \notin before[f]

\* What the documentation says a role may do, the seeded role may.
SeededRolesAreAsDocumented ==
    \A name \in DOMAIN DocumentedAccess :
        DocumentedAccess[name] \subseteq grants[<<Platform, name>>]
==============================================================================
