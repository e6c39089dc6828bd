---------------------------- MODULE EventChannel ----------------------------
(***************************************************************************)
(* What the segments rely on when they publish: a channel of handler calls *)
(* that are made once each, in the order the events were accepted and, for *)
(* one event, in the order its handlers subscribed.                        *)
(***************************************************************************)
EXTENDS Naturals, Sequences

CONSTANTS Event, NumHandlers

VARIABLES todo, done

CallsOf(e) == [i \in 1 .. NumHandlers[e] |-> <<e, i>>]

Init == todo = <<>> /\ done = <<>>

Accept(e) == todo' = todo \o CallsOf(e) /\ UNCHANGED done

Call ==
    /\ todo # <<>>
    /\ done' = Append(done, Head(todo))
    /\ todo' = Tail(todo)

Next == Call \/ \E e \in Event : Accept(e)

Spec == Init /\ [][Next]_<<todo, done>>
=============================================================================
