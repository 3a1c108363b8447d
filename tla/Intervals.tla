------------------------------ MODULE Intervals ------------------------------
(***************************************************************************)
(* The two tests the booking code uses to decide whether an appointment,   *)
(* which runs from one time until another (exclusive), is in the way of a  *)
(* slot [s, e).  Times are integers in one unit; the code compares Dates.  *)
(***************************************************************************)
EXTENDS Integers

\* The three alternatives of the OR in the database query that create runs
\* (checkAvailability): the appointment covers the slot's start, covers its
\* end, or lies inside it.
CoversStart(from, until, s) == from <= s /\ until > s
CoversEnd(from, until, e) == from < e /\ until >= e
LiesInside(from, until, s, e) == from >= s /\ until <= e

ConflictQueryNoInside(from, until, s, e) ==   \* variant: third alternative dropped
    CoversStart(from, until, s) \/ CoversEnd(from, until, e)

ConflictQuery(from, until, s, e) ==
    \/ CoversStart(from, until, s)
    \/ CoversEnd(from, until, e)
    \/ LiesInside(from, until, s, e)

\* The in-memory test behind the list of offered slots (GetAvailability).
OverlapsTouching(from, until, s, e) == s <= until /\ e > from   \* variant: <= for <
Overlaps(from, until, s, e) == s < until /\ e > from
==============================================================================
