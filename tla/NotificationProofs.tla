--------------------------- MODULE NotificationProofs ---------------------------
(* Theorems about Notifications, for any number of jobs and any limits. *)
EXTENDS Notifications, TLAPS

\* TypeOK is inductive but for one thing: a job that may still be taken has
\* attempts left, and so has one that is being worked on.
AttemptsLeft ==
    \A j \in Jobs : pc[j] # "failed" =>
                        attempts[j] < Attempts /\ stalls[j] <= MaxStalls
TypeInv == TypeOK /\ AttemptsLeft

\* The channels whose turn is over in the current attempt of job j.
Passed(j, ch) ==
    CASE ch = "email" -> pc[j] \in {"whatsapp", "push", "complete", "done"}
      [] ch = "whatsapp" -> pc[j] \in {"push", "complete", "done"}
      [] OTHER -> pc[j] \in {"complete", "done"}

\* Every death of the worker repeats at most one message on each channel, and
\* the current attempt has added one at most on each channel it has passed.
SentInv ==
    \A j \in Jobs, ch \in Channels :
        sent[j][ch] <= stalls[j] + (IF Passed(j, ch) THEN 1 ELSE 0)

------------------------------------------------------------------------------
(* Types *)

\* In the beginning every variable has its type.
LEMMA InitTyped == Init => TypeInv
  BY NotificationConstants
  DEF Init, TypeInv, TypeOK, AttemptsLeft

\* A failed attempt keeps the count of attempts within its limit.
LEMMA ThrowTyped ==
    ASSUME TypeInv, NEW j \in Jobs, pc[j] # "failed", Throw(j), UNCHANGED stalls
    PROVE  /\ attempts' \in [Jobs -> 0 .. Attempts]
           /\ pc' \in [Jobs -> Steps \cup Finished \cup {"none", "queued"}]
           /\ AttemptsLeft'
  BY NotificationConstants
  DEF TypeInv, TypeOK, AttemptsLeft, Throw, Goto, Steps, Finished

\* Every step of the system keeps TypeInv.
LEMMA NextTyped ==
    ASSUME TypeInv, [Next]_vars
    PROVE  TypeInv'
<1> USE DEF At
<1>1. ASSUME NEW j \in Jobs, Add(j) PROVE TypeInv'
  <2>1. PICK t \in Types, c \in Contacts :
          /\ type' = [type EXCEPT ![j] = t]
          /\ contact' = [contact EXCEPT ![j] = IF t \in AboutAppointment THEN c
                                               ELSE {"email"}]
    BY <1>1 DEF Add
  <2>2. t \in JobType /\ c \in SUBSET Channels /\ {"email"} \in SUBSET Channels
    BY NotificationConstants DEF Channels
  <2> QED BY <1>1, <2>1, <2>2
          DEF Add, Goto, TypeInv, TypeOK, AttemptsLeft, Steps, Finished, locals
<1>2. ASSUME NEW j \in Jobs, Take(j) PROVE TypeInv'
  <2>1. reach' \in [Jobs -> SUBSET Channels]
    BY <1>2 DEF Take, TypeInv, TypeOK
  <2>2. pc' \in [Jobs -> Steps \cup Finished \cup {"none", "queued"}]
    BY <1>2 DEF Take, Goto, TypeInv, TypeOK, Steps
  <2>3. \A k \in Jobs : pc'[k] # "failed" => pc[k] # "failed"
    BY <1>2 DEF Take, Goto, TypeInv, TypeOK
  <2> QED BY <1>2, <2>1, <2>2, <2>3
          DEF Take, TypeInv, TypeOK, AttemptsLeft, jobVars, stored
<1>3. ASSUME NEW j \in Jobs, FindAppointment(j) PROVE TypeInv'
  <2>1. UNCHANGED <<type, stalls, known, stored, sent>>
    BY <1>3 DEF FindAppointment
  <2>2. CASE Throw(j) /\ UNCHANGED reach
    BY <1>3, <2>1, <2>2, ThrowTyped
    DEF FindAppointment, TypeInv, TypeOK, stored
  <2>3. CASE /\ Goto(j, "config") /\ reach' = [reach EXCEPT ![j] = contact[j]]
             /\ UNCHANGED attempts
    BY <1>3, <2>1, <2>3
    DEF FindAppointment, Goto, TypeInv, TypeOK, AttemptsLeft, Steps, stored
  <2>4. CASE Goto(j, "done") /\ UNCHANGED <<attempts, reach>>
    BY <1>3, <2>1, <2>4
    DEF FindAppointment, Goto, TypeInv, TypeOK, AttemptsLeft, Finished, stored
  <2> QED BY <1>3, <2>2, <2>3, <2>4 DEF FindAppointment
<1>4. ASSUME NEW j \in Jobs, ResolveConfig(j) PROVE TypeInv'
  BY <1>4
  DEF ResolveConfig, Goto, TypeInv, TypeOK, AttemptsLeft, Steps, jobVars, stored
<1>5. ASSUME NEW j \in Jobs, NEW ch \in Channels, Deliver(j, ch) PROVE TypeInv'
  <2>1. After(j, ch) \in Steps
    BY DEF After, Steps, Channels
  <2>2. sent' \in [Jobs -> [Channels -> Nat]]
    BY <1>5 DEF Deliver, TypeInv, TypeOK
  <2>3. /\ pc' \in [Jobs -> Steps \cup Finished \cup {"none", "queued"}]
        /\ pc[j] # "failed"
    BY <1>5, <2>1 DEF Deliver, Goto, TypeInv, TypeOK, Channels
  <2>4. \A k \in Jobs : pc'[k] # "failed" => pc[k] # "failed"
    BY <1>5, <2>3 DEF Deliver, Goto, TypeInv, TypeOK
  <2> QED BY <1>5, <2>2, <2>3, <2>4
          DEF Deliver, TypeInv, TypeOK, AttemptsLeft, jobVars, locals, stored
<1>6. ASSUME NEW j \in Jobs, Complete(j) PROVE TypeInv'
  <2>1. {} \in SUBSET Channels OBVIOUS
  <2> QED BY <1>6, <2>1
          DEF Complete, Goto, TypeInv, TypeOK, AttemptsLeft, Finished, jobVars, stored
<1>7. ASSUME NEW j \in Jobs, DeleteAppointment(j) PROVE TypeInv'
  BY <1>7
  DEF DeleteAppointment, TypeInv, TypeOK, AttemptsLeft, jobVars, locals
<1>8. CASE Crash
  <2>1. \A j \in Jobs : j \in Active => pc[j] # "failed"
    BY DEF Active, Steps
  <2>2. stalls' \in [Jobs -> 0 .. MaxStalls + 1]
    BY <1>8, <2>1, NotificationConstants
    DEF Crash, TypeInv, TypeOK, AttemptsLeft
  <2>3. pc' \in [Jobs -> Steps \cup Finished \cup {"none", "queued"}]
    BY <1>8 DEF Crash, TypeInv, TypeOK, Finished
  <2>4. AttemptsLeft'
    BY <1>8, <2>1, NotificationConstants
    DEF Crash, TypeInv, TypeOK, AttemptsLeft
  <2>5. /\ reach' \in [Jobs -> SUBSET Channels]
        /\ known' \in [Jobs -> SettingsInputs \cup {NoSettings}]
    BY <1>8 DEF Crash, TypeInv, TypeOK
  <2> QED BY <1>8, <2>2, <2>3, <2>4, <2>5 DEF Crash, TypeInv, TypeOK, stored
<1>9. CASE UpdateTenant
  BY <1>9, NotificationConstants
  DEF UpdateTenant, TypeInv, TypeOK, AttemptsLeft, jobVars, locals
<1>10. CASE UNCHANGED vars
  BY <1>10 DEF vars, jobVars, locals, stored, TypeInv, TypeOK, AttemptsLeft
<1> QED BY <1>1, <1>2, <1>3, <1>4, <1>5, <1>6, <1>7, <1>8, <1>9, <1>10
        DEF Next, Work

\* TypeInv holds in every reachable state.
LEMMA Typed == Spec => []TypeInv
  BY InitTyped, NextTyped, PTL DEF Spec

\* For any number of jobs and any limits, every reachable state is typed: in
\* particular no job is attempted more often than the queue was told.
THEOREM NotificationsTyped == Spec => []TypeOK
<1>1. TypeInv => TypeOK
  BY DEF TypeInv
<1> QED BY <1>1, Typed, PTL

------------------------------------------------------------------------------
(* Messages sent *)

\* Only Deliver sends, and it sends one message at most.
LEMMA DeliverSends ==
    ASSUME TypeInv, NEW j \in Jobs, NEW ch \in Channels, Deliver(j, ch),
           NEW k \in Jobs, NEW c \in Channels
    PROVE  /\ k = j /\ c = ch => sent'[k][c] \in {sent[k][c], sent[k][c] + 1}
           /\ ~(k = j /\ c = ch) => sent'[k][c] = sent[k][c]
  BY DEF Deliver, TypeInv, TypeOK

\* A step of job j that sends nothing and forgets no progress keeps SentInv.
LEMMA QuietKeepsSent ==
    ASSUME TypeInv, SentInv, UNCHANGED <<stalls, sent>>,
           \A j \in Jobs, ch \in Channels : Passed(j, ch) => Passed(j, ch)'
    PROVE  SentInv'
  BY DEF SentInv, TypeInv, TypeOK

\* An attempt can fail only before its first message.
LEMMA ThrowKeepsSent ==
    ASSUME TypeInv, SentInv, NEW j \in Jobs, At(j, "findAppointment"), Throw(j),
           UNCHANGED <<stalls, sent>>
    PROVE  SentInv'
<1>1. \A k \in Jobs : k # j => pc'[k] = pc[k]
  BY DEF Throw, Goto, TypeInv, TypeOK
<1>2. \A ch \in Channels : ~Passed(j, ch)
  BY DEF At, Passed
<1>3. \A k \in Jobs, ch \in Channels : Passed(k, ch) => Passed(k, ch)'
  BY <1>1, <1>2 DEF Passed
<1> QED BY <1>3, QuietKeepsSent

\* Every step of the system keeps SentInv.
LEMMA NextKeepsSent ==
    ASSUME TypeInv, SentInv, [Next]_vars
    PROVE  SentInv'
<1> USE DEF At
<1>1. ASSUME NEW j \in Jobs, Add(j) PROVE SentInv'
  <2>1. \A k \in Jobs, ch \in Channels : Passed(k, ch) => Passed(k, ch)'
    BY <1>1 DEF Add, Goto, Passed, TypeInv, TypeOK
  <2> QED BY <1>1, <2>1, QuietKeepsSent DEF Add
<1>2. ASSUME NEW j \in Jobs, Take(j) PROVE SentInv'
  <2>1. \A k \in Jobs, ch \in Channels : Passed(k, ch) => Passed(k, ch)'
    BY <1>2 DEF Take, Goto, Passed, TypeInv, TypeOK
  <2> QED BY <1>2, <2>1, QuietKeepsSent DEF Take, jobVars
<1>3. ASSUME NEW j \in Jobs, FindAppointment(j) PROVE SentInv'
  <2>1. UNCHANGED <<stalls, sent>> /\ pc[j] = "findAppointment"
    BY <1>3 DEF FindAppointment
  <2>2. CASE Throw(j)
    BY <2>1, <2>2, ThrowKeepsSent
  <2>3. CASE \E step \in {"config", "done"} : Goto(j, step)
    <3>1. \A k \in Jobs, ch \in Channels : Passed(k, ch) => Passed(k, ch)'
      BY <2>1, <2>3 DEF Goto, Passed, TypeInv, TypeOK
    <3> QED BY <2>1, <3>1, QuietKeepsSent
  <2> QED BY <1>3, <2>2, <2>3 DEF FindAppointment
<1>4. ASSUME NEW j \in Jobs, ResolveConfig(j) PROVE SentInv'
  <2>1. \A k \in Jobs, ch \in Channels : Passed(k, ch) => Passed(k, ch)'
    BY <1>4 DEF ResolveConfig, Goto, Passed, TypeInv, TypeOK
  <2> QED BY <1>4, <2>1, QuietKeepsSent DEF ResolveConfig, jobVars
<1>5. ASSUME NEW j \in Jobs, NEW ch \in Channels, Deliver(j, ch) PROVE SentInv'
  <2>1. /\ pc[j] = ch /\ pc' = [pc EXCEPT ![j] = After(j, ch)]
        /\ UNCHANGED stalls
    BY <1>5 DEF Deliver, Goto, jobVars
  <2>2. /\ ~Passed(j, ch) /\ Passed(j, ch)'
        /\ \A c \in Channels : Passed(j, c) => Passed(j, c)'
    BY <2>1 DEF Passed, After, Channels, TypeInv, TypeOK
  <2>3. \A k \in Jobs, c \in Channels : k # j => Passed(k, c) = Passed(k, c)'
    BY <2>1 DEF Passed, TypeInv, TypeOK
  <2>4. SUFFICES ASSUME NEW k \in Jobs, NEW c \in Channels
                 PROVE  sent'[k][c] <= stalls'[k] +
                            (IF Passed(k, c)' THEN 1 ELSE 0)
    BY DEF SentInv
  <2>5. /\ sent[k][c] \in Nat /\ stalls[k] \in Nat
        /\ sent[k][c] <= stalls[k] + (IF Passed(k, c) THEN 1 ELSE 0)
    BY NotificationConstants DEF SentInv, TypeInv, TypeOK
  <2>6. CASE k = j /\ c = ch
    BY <1>5, <2>1, <2>2, <2>5, <2>6, DeliverSends
  <2>7. CASE ~(k = j /\ c = ch)
    <3>1. Passed(k, c) => Passed(k, c)'
      BY <2>2, <2>3
    <3> QED BY <1>5, <2>1, <2>5, <2>7, <3>1, DeliverSends
  <2> QED BY <2>6, <2>7
<1>6. ASSUME NEW j \in Jobs, Complete(j) PROVE SentInv'
  <2>1. \A k \in Jobs, ch \in Channels : Passed(k, ch) => Passed(k, ch)'
    BY <1>6 DEF Complete, Goto, Passed, TypeInv, TypeOK
  <2> QED BY <1>6, <2>1, QuietKeepsSent DEF Complete, jobVars
<1>7. CASE Crash
  <2>1. SUFFICES ASSUME NEW k \in Jobs, NEW c \in Channels
                 PROVE  sent'[k][c] <= stalls'[k] +
                            (IF Passed(k, c)' THEN 1 ELSE 0)
    BY DEF SentInv
  <2>2. /\ sent[k][c] \in Nat /\ stalls[k] \in Nat
        /\ sent[k][c] <= stalls[k] + (IF Passed(k, c) THEN 1 ELSE 0)
    BY NotificationConstants DEF SentInv, TypeInv, TypeOK
  <2>3. CASE k \in Active
    BY <1>7, <2>2, <2>3 DEF Crash
  <2>4. CASE k \notin Active
    <3>1. Passed(k, c)' = Passed(k, c)
      BY <1>7, <2>4 DEF Crash, Passed
    <3> QED BY <1>7, <2>2, <2>4, <3>1 DEF Crash
  <2> QED BY <2>3, <2>4
<1>8. CASE UNCHANGED <<pc, stalls, sent>>
  BY <1>8 DEF SentInv, Passed
<1>9. ASSUME NEW j \in Jobs, DeleteAppointment(j) PROVE UNCHANGED <<pc, stalls, sent>>
  BY <1>9 DEF DeleteAppointment, jobVars
<1>10. UpdateTenant \/ UNCHANGED vars => UNCHANGED <<pc, stalls, sent>>
  BY DEF UpdateTenant, vars, jobVars
<1> QED BY <1>1, <1>2, <1>3, <1>4, <1>5, <1>6, <1>7, <1>8, <1>9, <1>10
        DEF Next, Work

\* SentInv gives the property: a job on the queue, or given up, is at no channel.
LEMMA SentImplies == TypeInv /\ SentInv => DuplicatesOnlyByCrash
  BY NotificationConstants DEF TypeInv, TypeOK, SentInv, DuplicatesOnlyByCrash, Passed

\* Whatever fails, and however many jobs there are, a recipient gets a message
\* of a job twice only because the worker died in between.
THEOREM DuplicatesNeedACrash == Spec => []DuplicatesOnlyByCrash
<1>1. Init => SentInv
  BY NotificationConstants DEF Init, SentInv, Passed, Channels
<1> QED BY <1>1, NextKeepsSent, SentImplies, Typed, PTL DEF Spec

\* Settings are disregarded only when the worker did not know them, or by the
\* push message of a confirmation.
THEOREM SettingsAreHonoured == Spec => SettingsHonoured
<1>1. ASSUME TypeInv, [Next]_vars, NEW j \in Jobs, NEW ch \in Channels,
             sent'[j][ch] # sent[j][ch], ~isChannelEnabled(settings, ch, type[j]),
             known[j] = settings
      PROVE  ch = "push" /\ type[j] = "CONFIRMED"
  <2>1. PICK k \in Jobs, c \in Channels : Deliver(k, c) /\ sent' # sent
    BY <1>1
    DEF Next, Work, Add, Take, FindAppointment, ResolveConfig, Complete, Crash,
        UpdateTenant, DeleteAppointment, vars
  <2>2. k = j /\ c = ch
    BY <1>1, <2>1, DeliverSends
  <2>3. Wanted(j, ch)
    BY <2>1, <2>2 DEF Deliver
  <2> QED BY <1>1, <2>3 DEF Wanted
<1>2. TypeInv /\ [Next]_vars =>
        [\A j \in Jobs, ch \in Channels :
           sent'[j][ch] # sent[j][ch] /\ ~isChannelEnabled(settings, ch, type[j]) =>
              \/ known[j] # settings
              \/ ch = "push" /\ type[j] = "CONFIRMED"]_vars
  BY <1>1
<1> QED BY <1>2, Typed, PTL DEF Spec, SettingsHonoured
==============================================================================
