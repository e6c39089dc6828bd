---------------------------- MODULE ThesisStates ----------------------------
(***************************************************************************)
(* What the status of a thesis promises to those who read it: it is open   *)
(* until it is closed or invalidated, only reopening makes it active again, *)
(* and a thesis is never reopened beside another open one of its ticker.    *)
(***************************************************************************)
CONSTANTS Thesis, TickerOf

VARIABLE status

Open     == {"ACTIVE", "WEAKENING"}
Terminal == {"CLOSED", "INVALIDATED"}

Init == status \in [Thesis -> {"none"} \cup Open \cup Terminal]

Set(t, st) == status' = [status EXCEPT ![t] = st]

Create(t) == status[t] = "none" /\ Set(t, "ACTIVE")
Weaken(t) == status[t] = "ACTIVE" /\ Set(t, "WEAKENING")
Delete(t) == status[t] # "none" /\ Set(t, "none")

Reopen(t) ==
    /\ status[t] \in Terminal
    /\ \A u \in Thesis \ {t} : TickerOf[u] = TickerOf[t] => status[u] \notin Open
    /\ Set(t, "ACTIVE")

\* One decision may close several theses, all in the same way.
Close(ts, st) ==
    /\ \A t \in ts : status[t] \in Open
    /\ status' = [t \in Thesis |-> IF t \in ts THEN st ELSE status[t]]

Next ==
    \/ \E t \in Thesis : Create(t) \/ Weaken(t) \/ Delete(t) \/ Reopen(t)
    \/ \E ts \in SUBSET Thesis, st \in Terminal : Close(ts, st)

Spec == Init /\ [][Next]_status
=============================================================================
