------------------------------- MODULE Calendar -------------------------------
(***************************************************************************)
(* What the booking API promises, without requests, statements or coupons: *)
(* one diary of appointments, changed one operation at a time.             *)
(*                                                                         *)
(* Spec is the promise: a booking never lands on an occupied slot, a       *)
(* cancelled or completed appointment stays as it is, and no appointment   *)
(* is ever taken to IN_PROGRESS.  LooseSpec is what is left of the promise *)
(* when requests overlap: entries still begin PENDING, keep their staff,   *)
(* service and interval for life, and never reach IN_PROGRESS.             *)
(***************************************************************************)
EXTENDS Integers, Intervals

CONSTANTS Ids, Staff, Services

VARIABLE diary

Status == {"PENDING", "CONFIRMED", "IN_PROGRESS", "COMPLETED", "CANCELLED",
           "NO_SHOW"}
Entry == [staff: Staff, service: Services, start: Int, end: Int,
          coupon: BOOLEAN, status: Status]
NoEntry == [status |-> "none"]

Occupies(entry) == entry.status \notin {"none", "CANCELLED", "NO_SHOW"}
Final(entry) == entry.status \in {"CANCELLED", "COMPLETED"}

\* The slot of entry is free of the appointments staff already have.
SlotFree(entry) ==
    \A a \in Ids :
        Occupies(diary[a]) /\ diary[a].staff = entry.staff =>
            ~Overlaps(diary[a].start, diary[a].end, entry.start, entry.end)

OnlyChanges(a) == \A b \in Ids \ {a} : diary'[b] = diary[b]

Enter(a) ==
    /\ diary[a] = NoEntry
    /\ diary'[a] \in Entry
    /\ diary'[a].status = "PENDING"
    /\ OnlyChanges(a)

Book(a) == Enter(a) /\ SlotFree(diary'[a])

Amend(a) ==
    /\ diary[a] # NoEntry
    /\ \E st \in Status \ {"IN_PROGRESS"} :
          diary'[a] = [diary[a] EXCEPT !.status = st]
    /\ OnlyChanges(a)

Revise(a) == Amend(a) /\ ~Final(diary[a])

Erase(a) ==
    /\ diary[a] # NoEntry
    /\ diary'[a] = NoEntry
    /\ OnlyChanges(a)

Init == diary = [a \in Ids |-> NoEntry]

Next == diary' \in [Ids -> Entry \cup {NoEntry}]
        /\ \E a \in Ids : Book(a) \/ Revise(a) \/ Erase(a)

LooseNext == diary' \in [Ids -> Entry \cup {NoEntry}]
             /\ \E a \in Ids : Enter(a) \/ Amend(a) \/ Erase(a)

Spec == Init /\ [][Next]_diary
LooseSpec == Init /\ [][LooseNext]_diary
==============================================================================
