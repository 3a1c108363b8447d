---------------------------- MODULE BookingCalendar ----------------------------
(***************************************************************************)
(* Booking as an implementation of Calendar: the diary is the table of     *)
(* appointments.  Calendar!LooseSpec holds for any number of overlapping   *)
(* requests.  Calendar!Spec does not, and CalendarButForRaces says exactly *)
(* which steps break it: the writes of requests that were overtaken.       *)
(***************************************************************************)
EXTENDS Booking

Diary == INSTANCE Calendar WITH Ids <- Requests, diary <- appt

\* What r is about to write rests on something that has changed since r read
\* it: the length of the service, the appointments its check saw, or the
\* status of the appointment it changes.
Overtaken(r) ==
    \/ /\ pc[r] = "insert"
       /\ Drifted(r) \/ ~(Blocking(req[r].staff) \subseteq seen[r])
    \/ /\ pc[r] = "writeStatus"
       /\ appt[req[r].target].status # old[r]

OvertakenStep == \E r \in Requests : Overtaken(r) /\ pc'[r] # pc[r]

\* However requests overlap, every change of the appointments is an operation
\* of the calendar, in which a booking lands on a free slot and a final
\* appointment stays as it is, unless it is the write of a request that was
\* overtaken between its check and its write.
CalendarButForRaces == [][Diary!Next \/ OvertakenStep]_appt

\* Served one at a time, the three-statement and eight-statement use cases
\* behave as the single operations of the calendar.
ImplementsCalendar == Diary!Spec

\* With any interleaving, an appointment begins PENDING, keeps its staff,
\* service and interval, and only its status changes, never to IN_PROGRESS.
ImplementsLooseCalendar == Diary!LooseSpec

\* The cancellation notice of r is on the queue, or about to be put there.
Announces(r) ==
    \/ job[r] = "CANCELLED"
    \/ pc[r] \in {"features", "enqueue"} /\ JobFor(req[r]) = "CANCELLED"

\* The appointment a cancellation notice is about stays CANCELLED until it is
\* deleted, unless its status was written by a request that had read another.
NoticesBeliedOnlyByRace ==
    \A r \in Requests :
        Announces(r) /\ Stored(req[r].target) =>
            \/ appt[req[r].target].status = "CANCELLED"
            \/ req[r].target \in overwritten
==============================================================================
