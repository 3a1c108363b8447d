--------------------------- MODULE MCNotifications ---------------------------
(* Instances of Notifications for TLC. *)
EXTENDS Notifications, TLC

CONSTANTS j1, j2

OneJob == {j1}
TwoJobs == {j1, j2}

\* A recipient with nothing but an address, and one with everything.
MailOrAll == {{"email"}, Channels}
All == {Channels}

\* Everything off, but for mail about confirmations; and push off.
MostlyOff == [events |-> (<<"CONFIRMED", "email">> :> TRUE),
              channels |-> [ch \in Channels |-> FALSE]]
PushOff == [events |-> [e \in {"CONFIRMED"} \X {"push"} |-> FALSE],
            channels |-> [ch \in {"email"} |-> TRUE]]
TwoSettings == {MostlyOff, PushOff}
OneSetting == {MostlyOff}
==============================================================================
