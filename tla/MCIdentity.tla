------------------------------ MODULE MCIdentity ------------------------------
(* Instances of Identity for TLC. *)
EXTENDS Identity, TLC

CONSTANTS u1, main, shop, super, clerk, global, p, q, none

OneUser == {u1}
TwoTenants == {main, shop}
ThreeRoles == {super, clerk, global}
TwoPermissions == {p, q}
PermissionSymmetry == Permutations(TwoPermissions)

\* SUPER_ADMIN of the platform, a role of a shop, and one without a tenant.
Homes == (super :> main) @@ (clerk :> shop) @@ (global :> none)

StaffOfShop == {clerk}

\* As seeded: SUPER_ADMIN needs no permission, and the global role has the one
\* there is; the other is a name still to be taken.
\* The role of the shop is still to be created.  The user is a customer of
\* the shop, or the administrator of the platform.
Seeded ==
    /\ roles = [ro \in Roles |-> IF ro = clerk THEN "new" ELSE "live"]
    /\ Cardinality(names) = 1
    /\ grants = [ro \in Roles |-> IF ro = global THEN names ELSE {}]
    /\ \E k \in Keys : member[k] = IF k[2] = main THEN super ELSE global
    /\ Cardinality({k \in Keys : member[k] # None}) = 1

SeededInit == Init /\ Seeded
SeededSpec == SeededInit /\ [][Next]_vars
==============================================================================
