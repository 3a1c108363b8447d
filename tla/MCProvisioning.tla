---------------------------- MODULE MCProvisioning ----------------------------
(* Instances of Provisioning for TLC. *)
EXTENDS Provisioning, FiniteSetsExt

CONSTANT Together     \* bound: requests that run in one behaviour

\* A permission that all roles of a tenant have.
FragileNames == {"products:read"}

\* Any few of the requests: the others have failed before they began.
InitFew ==
    \E few \in kSubset(Together, Requests) :
        LET at == [r \in Requests |-> IF r \in few THEN "idle" ELSE "failed"]
        IN InitAt(at)

SpecFew == InitFew /\ [][Next]_vars

Symmetric == Permutations(Creations) \cup Permutations(Registrations) \cup Permutations(Edits)
==============================================================================
