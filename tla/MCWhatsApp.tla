------------------------------ MODULE MCWhatsApp ------------------------------
(* Instances of WhatsApp for TLC. *)
EXTENDS WhatsApp, TLC

CONSTANTS m1, m2, m3, cust, num, t1

FromOne == [m \in Incoming |-> cust]
ToOne == [m \in Incoming |-> num]

\* A tenant that is configured, or still has to be.  Either three messages
\* come in, in two webhooks, and no request, or one message and a request.
Scenario ==
    /\ feature = Tenants
    /\ \A t \in Tenants : config[t] = None \/ config[t].enabled
    /\ \/ /\ inbox = {MessageEvent(m) : m \in Incoming}
          /\ \A c \in Callers : At(c, "done")
          /\ calls = 1
       \/ /\ inbox = {MessageEvent(m1)}
          /\ \A c \in Callers : At(c, "idle")
          /\ calls = 0

ScenarioInit == Init /\ Scenario
ScenarioSpec == ScenarioInit /\ [][Next]_vars

Symmetric == Permutations(Workers) \cup Permutations(Outbound)
==============================================================================
