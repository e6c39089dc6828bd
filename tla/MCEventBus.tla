----------------------------- MODULE MCEventBus -----------------------------
(* EventBus with its properties, for TLC.                                  *)
EXTENDS EventBus

CONSTANTS a1, a2, b, ka

\* Two events share a key (a signal found twice), one of a type with two
\* handlers and one of a type nobody subscribed to; the third has no key.
MCKeyOf       == [e \in Event |-> IF e \in {a1, a2} THEN ka ELSE NoKey]
MCNumHandlers == [e \in Event |-> CASE e = a1 -> 2 [] e = a2 -> 0 [] OTHER -> 1]

-----------------------------------------------------------------------------
\* What stop() waits for can still happen: a worker is there, and no worker was
\* cancelled with an event in hand.
Drainable ==
    /\ \E w \in Worker : pc[w] \notin {"unborn", "ended"}
    /\ \A w \in Worker : pc[w] = "ended" => cur[w] = NoEvent

\* An event accepted before the first stop(), or before a later one that finds
\* a worker, is dispatched in the end.
AcceptedIsDispatched ==
    \A e \in Event :
        (/\ e \in Accepted
         /\ \/ stopper = "idle"
            \/ e \in owed /\ stopper = "joining" /\ Drainable) ~> (e \in finished)

\* A stop() that waits returns, unless no worker is left to serve it.
StopReturns == (stopper = "joining" /\ Drainable) ~> (stopper = "returned")

-----------------------------------------------------------------------------
\* The calls still to make: the rest of the current event, then the queue.
Rest(e, i) == [j \in 1 .. NumHandlers[e] - i + 1 |-> <<e, i + j - 1>>]
InHand     == {w \in Worker : cur[w] # NoEvent}
RestInHand == IF InHand = {} THEN <<>>
              ELSE LET w == CHOOSE w \in InHand : TRUE IN Rest(cur[w], next[w])

Todo       == RestInHand \o FlattenSeq([i \in 1 .. Len(queue) |-> Rest(queue[i], 1)])
Channel    == INSTANCE EventChannel WITH todo <- Todo, done <- delivered
Born       == {w \in Worker : pc[w] # "unborn"}
OneWorker  == \A v, w \in Born : v = w

\* As long as start() ran once the bus implements the channel: with a second
\* worker on the queue the calls of two events may interleave.
ImplementsChannel ==
    Channel!Init /\ [][OneWorker' => Channel!Next]_<<Todo, delivered>>
=============================================================================
