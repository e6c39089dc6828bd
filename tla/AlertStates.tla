----------------------------- MODULE AlertStates -----------------------------
(* What an alert promises: it is triggered once, named by one message, and   *)
(* stays quiet until it is re-armed, which happens only to the types that    *)
(* may be and only after their cooldown.                                     *)
EXTENDS Naturals

CONSTANTS Alert, Repeating, Cool, Cap

VARIABLES row, notices

Active == [status |-> "ACTIVE", age |-> 0]
Gone   == [status |-> "gone", age |-> 0]

Init ==
    /\ row = [a \in Alert |-> Active]
    /\ notices = [a \in Alert |-> 0]

Trigger(A, n) ==
    /\ \A a \in A : row[a].status = "ACTIVE"
    /\ row' = [a \in Alert |-> IF a \in A THEN [status |-> "TRIGGERED", age |-> n]
                               ELSE row[a]]
    /\ notices' = [a \in Alert |-> IF a \in A THEN 0 ELSE notices[a]]

Notify(A) ==
    /\ \A a \in A : row[a].status \in {"TRIGGERED", "gone"} /\ notices[a] = 0
    /\ notices' = [a \in Alert |-> IF a \in A THEN 1 ELSE notices[a]]
    /\ UNCHANGED row

Rearm(A) ==
    /\ \A a \in A : a \in Repeating /\ row[a].status = "TRIGGERED" /\ row[a].age > Cool[a]
    /\ row' = [a \in Alert |-> IF a \in A THEN Active ELSE row[a]]
    /\ UNCHANGED notices

Replace(a) ==
    /\ row' = [row EXCEPT ![a] = IF @ = Gone THEN Active ELSE Gone]
    /\ notices' = [notices EXCEPT ![a] = 0]

Tick ==
    /\ row' = [a \in Alert |->
                  IF row[a].status = "TRIGGERED" /\ row[a].age < Cap
                  THEN [row[a] EXCEPT !.age = @ + 1] ELSE row[a]]
    /\ UNCHANGED notices

Next ==
    \/ \E A \in SUBSET Alert :
          Notify(A) \/ Rearm(A) \/ \E n \in 0 .. Cap : Trigger(A, n)
    \/ \E a \in Alert : Replace(a)
    \/ Tick
=============================================================================
