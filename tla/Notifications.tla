----------------------------- MODULE Notifications -----------------------------
(***************************************************************************)
(* The notification queue and its worker: what happens to a job that        *)
(* Booking, registration or a password reset has put on the queue.  A job   *)
(* is taken by one of a few concurrent slots of the worker, which awaits    *)
(* two reads and then one channel after the other; each await is one        *)
(* action.  The providers swallow the errors of their transports, so only   *)
(* a failed read makes an attempt fail and be retried.                      *)
(*                                                                          *)
(* The queue itself (BullMQ over Redis) is not in the repository: it keeps  *)
(* jobs across a death of the worker, hands a job that was being worked on  *)
(* out again (it has stalled), and gives up on one that stalls too often.   *)
(***************************************************************************)
EXTENDS Integers, FiniteSets

CONSTANTS
    Jobs,           \* jobs that may be queued
    Types,          \* bound: the types of job that are queued
    Attempts,       \* the attempts option of every job
    Concurrency,    \* the concurrency option of the worker
    MaxStalls,      \* BullMQ's maxStalledCount
    Contacts,       \* sets of channels a recipient can be reached on
    SettingsInputs, \* notification settings an administrator stores
    MaxEdits        \* bound: edits of the settings

Channels == {"email", "whatsapp", "push"}
AboutStatus == {"CONFIRMED", "CANCELLED"}
AboutAppointment == AboutStatus \cup {"PENDING_APPROVAL"}
JobType == AboutAppointment \cup {"WELCOME_EMAIL", "PASSWORD_RESET"}

\* Notification settings: per event and channel, and per channel, as far as
\* they are set.  An event is named by the type of the job it queues.
IsSettings(s) ==
    /\ DOMAIN s = {"events", "channels"}
    /\ DOMAIN s.events \subseteq JobType \X Channels
    /\ DOMAIN s.channels \subseteq Channels

ASSUME NotificationConstants ==
    /\ IsFiniteSet(Jobs)
    /\ Types \subseteq JobType
    /\ Attempts \in Nat \ {0} /\ Concurrency \in Nat \ {0}
    /\ MaxStalls \in Nat
    /\ Contacts \subseteq SUBSET Channels
    /\ \A s \in SettingsInputs : IsSettings(s)
    /\ MaxEdits \in Nat

VARIABLES
    type,       \* the type of each queued job
    pc,         \* where each job is: queued, at a statement, or finished
    attempts,   \* attempts of the job that have failed
    stalls,     \* deaths of the worker while it had the job
    contact,    \* channels the job's recipient can be reached on, as stored
    settings,   \* the tenant's notification settings, as stored
    reach,      \* local: the contact the worker has read
    known,      \* local: the settings the worker has read
    sent,       \* messages that left for the recipient, by channel
    edits       \* number of edits of the settings so far

jobVars == <<type, attempts, stalls>>
locals == <<reach, known>>
stored == <<contact, settings, edits>>
vars == <<jobVars, pc, locals, stored, sent>>

------------------------------------------------------------------------------
(* Data *)

Steps == {"findAppointment", "config", "email", "whatsapp", "push", "complete"}
Finished == {"done", "failed"}
Active == {j \in Jobs : pc[j] \in Steps}

\* Having no settings at all is as good as having none of them set.
NoSettings == [events |-> [e \in {} |-> TRUE], channels |-> [c \in {} |-> TRUE]]

isChannelEnabled(s, ch, event) ==
    IF <<event, ch>> \in DOMAIN s.events THEN s.events[<<event, ch>>]
    ELSE ch \in DOMAIN s.channels => s.channels[ch]

At(j, step) == pc[j] = step
Goto(j, step) == pc' = [pc EXCEPT ![j] = step]

------------------------------------------------------------------------------
\* BullMQQueueProvider.enqueue.  Mail to a user who registered or forgot a
\* password goes to the address in the job.
Add(j) ==
    /\ At(j, "none")
    /\ Goto(j, "queued")
    /\ \E t \in Types, c \in Contacts :
          /\ type' = [type EXCEPT ![j] = t]
          /\ contact' = [contact EXCEPT ![j] = IF t \in AboutAppointment THEN c
                                               ELSE {"email"}]
    /\ UNCHANGED <<attempts, stalls, locals, settings, edits, sent>>

Take(j) ==
    /\ At(j, "queued")
    /\ Cardinality(Active) < Concurrency
    /\ IF type[j] \in AboutAppointment
       THEN Goto(j, "findAppointment") /\ UNCHANGED reach
       ELSE Goto(j, "config") /\ reach' = [reach EXCEPT ![j] = contact[j]]
    /\ UNCHANGED <<jobVars, known, stored, sent>>

ThrowOffByOne(j) ==   \* variant: > for >=
    /\ attempts' = [attempts EXCEPT ![j] = @ + 1]
    /\ Goto(j, IF attempts[j] + 1 > Attempts THEN "failed" ELSE "queued")

ThrowUncounted(j) ==   \* variant: the failed attempt is not counted
    /\ Goto(j, IF attempts[j] + 1 >= Attempts THEN "failed" ELSE "queued")
    /\ UNCHANGED attempts

\* The attempt fails: the job is delayed and queued again, or given up.
Throw(j) ==
    /\ attempts' = [attempts EXCEPT ![j] = @ + 1]
    /\ Goto(j, IF attempts[j] + 1 >= Attempts THEN "failed" ELSE "queued")

\* Without the appointment or an address to write to, the job is skipped.
FindAppointment(j) ==
    /\ At(j, "findAppointment")
    /\ \/ /\ "email" \in contact[j]
          /\ Goto(j, "config")
          /\ reach' = [reach EXCEPT ![j] = contact[j]]
          /\ UNCHANGED attempts
       \/ /\ "email" \notin contact[j]
          /\ Goto(j, "done")
          /\ UNCHANGED <<attempts, reach>>
       \/ /\ Throw(j)
          /\ UNCHANGED reach
    /\ UNCHANGED <<type, stalls, known, stored, sent>>

\* resolveTenantConfig catches the error of a read that fails: the job then
\* runs as if nothing had been set.
ResolveConfig(j) ==
    /\ At(j, "config")
    /\ Goto(j, "email")
    /\ \E s \in {settings, NoSettings} : known' = [known EXCEPT ![j] = s]
    /\ UNCHANGED <<jobVars, reach, stored, sent>>

WantedWhatsAppAlways(j, ch) ==   \* variant: one more channel unchecked
    /\ ch \in reach[j]
    /\ \/ isChannelEnabled(known[j], ch, type[j])
       \/ ch \in {"push", "whatsapp"} /\ type[j] = "CONFIRMED"

\* The push message of a confirmation is sent whatever the settings say.
Wanted(j, ch) ==
    /\ ch \in reach[j]
    /\ \/ isChannelEnabled(known[j], ch, type[j])
       \/ ch = "push" /\ type[j] = "CONFIRMED"

After(j, ch) ==
    CASE ch = "email" /\ type[j] \in AboutStatus -> "whatsapp"
      [] ch = "whatsapp" -> "push"
      [] OTHER -> "complete"

DeliverRethrowing(j, ch) ==   \* variant: a provider passes its error on
    /\ At(j, ch)
    /\ \/ /\ Wanted(j, ch)
          /\ sent' = [sent EXCEPT ![j][ch] = @ + 1]
          /\ Goto(j, After(j, ch))
          /\ UNCHANGED attempts
       \/ /\ Throw(j)
          /\ UNCHANGED sent
    /\ UNCHANGED <<type, stalls, locals, stored>>

\* Whether the message leaves is up to the transport; an error of it, or of
\* what the provider does after it, ends up as a result nobody looks at.
Deliver(j, ch) ==
    /\ At(j, ch)
    /\ Goto(j, After(j, ch))
    /\ \/ /\ Wanted(j, ch)
          /\ sent' = [sent EXCEPT ![j][ch] = @ + 1]
       \/ /\ ch = "push" => ~Wanted(j, ch)   \* push has no transport to fail
          /\ UNCHANGED sent
    /\ UNCHANGED <<jobVars, locals, stored>>

Complete(j) ==
    /\ At(j, "complete")
    /\ Goto(j, "done")
    /\ reach' = [reach EXCEPT ![j] = {}]
    /\ known' = [known EXCEPT ![j] = NoSettings]
    /\ UNCHANGED <<jobVars, stored, sent>>

Work(j) ==
    \/ Take(j) \/ FindAppointment(j) \/ ResolveConfig(j)
    \/ \E ch \in Channels : Deliver(j, ch)
    \/ Complete(j)

\* The worker dies and is started again: its jobs have stalled.
Crash ==
    /\ Active # {}
    /\ stalls' = [j \in Jobs |-> IF j \in Active THEN stalls[j] + 1 ELSE stalls[j]]
    /\ pc' = [j \in Jobs |-> IF j \notin Active THEN pc[j]
                            ELSE IF stalls[j] >= MaxStalls THEN "failed"
                            ELSE "queued"]
    /\ reach' = [j \in Jobs |-> IF j \in Active THEN {} ELSE reach[j]]
    /\ known' = [j \in Jobs |-> IF j \in Active THEN NoSettings ELSE known[j]]
    /\ UNCHANGED <<type, attempts, stored, sent>>

\* Notification settings are stored as a whole, over what was there; an edit
\* that began before another was stored may put back what was there before.
UpdateTenant ==
    /\ edits < MaxEdits
    /\ edits' = edits + 1
    /\ settings' \in SettingsInputs \cup {NoSettings}
    /\ UNCHANGED <<jobVars, pc, locals, contact, sent>>

\* The appointment is deleted.
DeleteAppointment(j) ==
    /\ ~At(j, "none")
    /\ type[j] \in AboutAppointment /\ contact[j] # {}
    /\ contact' = [contact EXCEPT ![j] = {}]
    /\ UNCHANGED <<jobVars, pc, locals, settings, edits, sent>>

------------------------------------------------------------------------------
Init ==
    /\ type = [j \in Jobs |-> "none"]
    /\ pc = [j \in Jobs |-> "none"]
    /\ attempts = [j \in Jobs |-> 0]
    /\ stalls = [j \in Jobs |-> 0]
    /\ contact = [j \in Jobs |-> {}]
    /\ settings = NoSettings
    /\ reach = [j \in Jobs |-> {}]
    /\ known = [j \in Jobs |-> NoSettings]
    /\ sent = [j \in Jobs |-> [ch \in Channels |-> 0]]
    /\ edits = 0

Next ==
    \/ \E j \in Jobs : Add(j) \/ Work(j) \/ DeleteAppointment(j)
    \/ Crash \/ UpdateTenant

Spec == Init /\ [][Next]_vars

\* The worker works on every job it may take, and every await settles.  Jobs
\* arriving, deaths of the worker and edits are up to others.
FairSpec == Spec /\ \A j \in Jobs : WF_vars(Work(j))

------------------------------------------------------------------------------
(* Properties *)

TypeOK ==
    /\ type \in [Jobs -> JobType \cup {"none"}]
    /\ pc \in [Jobs -> Steps \cup Finished \cup {"none", "queued"}]
    /\ attempts \in [Jobs -> 0 .. Attempts]
    /\ stalls \in [Jobs -> 0 .. MaxStalls + 1]
    /\ contact \in [Jobs -> SUBSET Channels]
    /\ settings \in SettingsInputs \cup {NoSettings}
    /\ reach \in [Jobs -> SUBSET Channels]
    /\ known \in [Jobs -> SettingsInputs \cup {NoSettings}]
    /\ sent \in [Jobs -> [Channels -> Nat]]
    /\ edits \in Nat

\* A recipient gets a message of a job twice only because the worker died: a
\* job that is queued again, or that failed, after errors alone has sent
\* nothing, since nothing can fail any more once the first message is out.
DuplicatesOnlyByCrash ==
    \A j \in Jobs, ch \in Channels :
        sent[j][ch] <= stalls[j] + (IF pc[j] \in {"queued", "failed"} THEN 0 ELSE 1)

\* A message goes out on a channel that the settings turn off only if the
\* worker knows other settings (they were edited after it had read them, or
\* its read failed), or if it is the push message of a confirmation.
SettingsHonoured ==
    [][\A j \in Jobs, ch \in Channels :
         sent'[j][ch] # sent[j][ch] /\ ~isChannelEnabled(settings, ch, type[j]) =>
            \/ known[j] # settings
            \/ ch = "push" /\ type[j] = "CONFIRMED"]_vars

\* Every job is finished: attempts and stalls are both counted, so neither
\* errors nor deaths of the worker keep a job on the queue for ever.
EveryJobEnds == \A j \in Jobs : At(j, "queued") ~> pc[j] \in Finished
==============================================================================
