---------------------------- MODULE TradeLedger ----------------------------
(***************************************************************************)
(* What buying and selling promise: each request trades once or not at all, *)
(* and what is held is what was bought less what was sold, never below 0.   *)
(***************************************************************************)
EXTENDS Integers

CONSTANTS Req, Qty

VARIABLES held,    \* the shares in open positions
          moved    \* what each request moved: 0, bought or, negated, sold

Init == held = 0 /\ moved = [r \in Req |-> 0]

Move(r, q) ==
    /\ moved[r] = 0
    /\ moved' = [moved EXCEPT ![r] = q]
    /\ held' = held + q
    /\ held' >= 0

Next == \E r \in Req, q \in Qty : Move(r, q) \/ Move(r, -q)

Spec == Init /\ [][Next]_<<held, moved>>
=============================================================================
