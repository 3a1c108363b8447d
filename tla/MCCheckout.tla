------------------------------ MODULE MCCheckout ------------------------------
(* Instances of Checkout for TLC. *)
EXTENDS CheckoutLedger, TLC

CONSTANTS r1, r2, r3, u1, u2, p1, p2, t1, t2

TwoRequests == {r1, r2}
ThreeRequests == {r1, r2, r3}
OneUser == {u1}
TwoUsers == {u1, u2}
OneProduct == {p1}
TwoProducts == {p1, p2}
OneTenant == {t1}
TwoTenants == {t1, t2}

\* Only p2 is a product of the second tenant, if there is one.
InFirst == [p \in Products |-> t1]
Split == [p \in Products |-> IF p = p2 THEN t2 ELSE t1]

\* Requests and users differ only in name until they are used; so do products
\* of one tenant.
FullSymmetry ==
    Permutations(Requests) \cup Permutations(Users) \cup Permutations(Products)
TwoTenantSymmetry == Permutations(Requests) \cup Permutations(Users)
==============================================================================
