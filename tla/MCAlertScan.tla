----------------------------- MODULE MCAlertScan -----------------------------
(* AlertScan with its properties, for TLC.                                   *)
EXTENDS AlertScan, FiniteSets

CONSTANTS price, change

\* A re-armed alert is due at the second age: the cutoff itself is not.
MCCool == [a \in Repeating |-> 0]

\* The open sessions that ran beside another one.
VARIABLE met

Opened(j) == job[j].pc # "idle"

MCInit == Init /\ met = {}

MCNext ==
    /\ Next
    /\ met' = {j \in Job : Opened(j)' /\ (j \in met \/ \E i \in Job \ {j} : Opened(i)')}

MCSpec     == MCInit /\ [][MCNext]_<<vars, met>>
MCFairSpec == MCSpec /\ Fairness

\* A step of a session that ran beside no other and lost nothing, or of none.
Alone ==
    \A j \in Job : job'[j].pc # job[j].pc =>
        /\ j \notin met \cup met'
        /\ job[j].pc = "tell" => job[j].kept

States == INSTANCE AlertStates

\* One session at a time: an alert is triggered once, told once, and re-armed
\* only if its type allows it and after its cooldown.
ImplementsStates ==
    States!Init /\ [][Alone => States!Next]_<<row, notices>>

\* An alert of a type that is re-armed does not stay TRIGGERED for ever.
Rearmed ==
    \A a \in Repeating : (row[a].status = "TRIGGERED") ~> (row[a].status # "TRIGGERED")
=============================================================================
