----------------------------- MODULE ReportFeed -----------------------------
(* What the readers of a process may count on: the reports are numbered as   *)
(* they are published, and no reader is shown an older one than the last     *)
(* shown, until the process restarts.                                        *)
EXTENDS Naturals

VARIABLES
    published,  \* the last report published in this process, 0 if none
    shown       \* the last report shown to a reader, 0 if none

Init == published = 0 /\ shown = 0

Publish == published' \in Nat /\ published' > published /\ shown' = shown

Show == shown' \in shown .. published /\ published' = published

Restart == published' = 0 /\ shown' = 0

Next == Publish \/ Show \/ Restart

Spec == Init /\ [][Next]_<<published, shown>>
=============================================================================
