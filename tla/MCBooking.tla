------------------------------ MODULE MCBooking ------------------------------
(* Instances of Booking for TLC. *)
EXTENDS BookingCalendar, TLC

CONSTANTS r1, r2, r3, r4, w1, w2, s1, s2

TwoRequests == {r1, r2}
ThreeRequests == {r1, r2, r3}
OneStaff == {w1}
TwoStaff == {w1, w2}
OneService == {s1}
TwoServices == {s1, s2}

\* Requests differ only in name until they begin.
RequestSymmetry == Permutations(Requests)
==============================================================================
