------------------------------- MODULE Authority -------------------------------
(***************************************************************************)
(* What a cache of permissions promises: who holds which permission may     *)
(* change at any time, and a request may be decided by an old answer, but   *)
(* not by one that has been untrue for longer than Window when it is.       *)
(***************************************************************************)
EXTENDS Integers

CONSTANTS
    Holdings,   \* who may hold what: (user, tenant, permission)
    Requests,   \* requests that are decided
    Window      \* a natural number: for how long an answer may be out of date

VARIABLES
    now,        \* the time
    held,       \* the holdings that exist
    lastHeld,   \* when each holding last existed
    trusted     \* the holdings each request is decided by

vars == <<now, held, lastHeld, trusted>>

\* Earlier than anything that may still be trusted.
Never == -(Window + 1)

Recent(h) == lastHeld[h] + Window >= now

Init ==
    /\ now = 0
    /\ held \subseteq Holdings
    /\ lastHeld = [h \in Holdings |-> IF h \in held THEN 0 ELSE Never]
    /\ trusted = [r \in Requests |-> {}]

Observe == lastHeld' = [h \in Holdings |-> IF h \in held' THEN now' ELSE lastHeld[h]]

Tick ==
    /\ now' = now + 1
    /\ UNCHANGED <<held, trusted>>

Change ==
    /\ held' \subseteq Holdings
    /\ UNCHANGED <<now, trusted>>

Decide(r) ==
    /\ \E S \in SUBSET {h \in Holdings : Recent(h)} : trusted' = [trusted EXCEPT ![r] = S]
    /\ UNCHANGED <<now, held>>

Next == (Tick \/ Change \/ \E r \in Requests : Decide(r)) /\ Observe

Spec == Init /\ [][Next]_vars
==============================================================================
