--------------------------- MODULE EventBusProofs ---------------------------
(***************************************************************************)
(* Theorems about EventBus for every set of events, keys and workers, and  *)
(* every window.  Each invariant is proved on top of the ones before it:   *)
(* the types and what a worker holds, the dedup stamps, the calls made so  *)
(* far, the places an event can be in.                                     *)
(***************************************************************************)
EXTENDS MCEventBus, FiniteSetTheorems, SequenceTheorems, TLAPS

\* A worker has an event in hand while it dispatches, and none before.
InHandOK ==
    \A w \in Worker :
        /\ pc[w] = "dispatching" => cur[w] \in Event /\ next[w] >= 1
        /\ pc[w] \in {"unborn", "waiting"} => cur[w] = NoEvent

Typed == TypeOK /\ InHandOK

\* The key's stamp is at least as late as every event accepted under it.
StampsOK ==
    \A e \in Accepted :
        /\ acceptedAt[e] <= now
        /\ KeyOf[e] # NoKey => acceptedAt[e] <= lastSeen[KeyOf[e]]

\* The handlers before the next one have been called.
CalledSoFar ==
    \A w \in Worker : pc[w] = "dispatching" =>
        \A i \in 1 .. next[w] - 1 : <<cur[w], i>> \in ToSet(delivered)

\* An event is in one place at a time: once in the queue, or with one worker
\* that has not yet made the calls from next on, or gone.
QueueOK ==
    \A i \in DOMAIN queue :
        /\ queue[i] \in Accepted
        /\ \A j \in DOMAIN queue : queue[i] = queue[j] => i = j
        /\ \A w \in Worker : cur[w] # queue[i]

HandsOK ==
    \A w \in Worker : cur[w] # NoEvent =>
        /\ cur[w] \in Accepted
        /\ \A v \in Worker : cur[v] = cur[w] => v = w

DeliveredOK ==
    \A d \in DOMAIN delivered :
        /\ delivered[d][1] \in Accepted
        /\ \A i \in DOMAIN queue : queue[i] # delivered[d][1]
        /\ \A w \in Worker :
               cur[w] = delivered[d][1] => delivered[d][2] < next[w]

-----------------------------------------------------------------------------
\* The bus is created with the types and with no event in anyone's hands.
LEMMA TypedInit == Init => Typed
<1> SUFFICES ASSUME Init PROVE Typed
  OBVIOUS
<1> USE BusAssumption DEF BusAssumption, Never, Init
<1>1. now \in 0 .. MaxTime /\ unfinished \in Int
  OBVIOUS
<1>2. queue \in Seq(Event) /\ delivered \in Seq(Event \X Nat)
  OBVIOUS
<1> QED
  BY <1>1, <1>2 DEF Typed, TypeOK, InHandOK

\* Every step keeps the types and what the workers hold.
LEMMA TypedStep == Typed /\ [Next]_vars => Typed'
<1> USE BusAssumption DEF BusAssumption, Never
<1> SUFFICES ASSUME Typed, [Next]_vars PROVE Typed'
  OBVIOUS
<1> USE DEF Typed, TypeOK, InHandOK, dedupVars, workerVars, historyVars
<1>1. ASSUME NEW e \in Event, Publish(e) PROVE Typed'
  BY <1>1 DEF Publish, Enqueue
<1>2. ASSUME NEW w \in Worker, Start(w) PROVE Typed'
  BY <1>2 DEF Start
<1>3. ASSUME NEW w \in Worker, Take(w) PROVE Typed'
  BY <1>3 DEF Take
<1>4. ASSUME NEW w \in Worker, Exit(w) PROVE Typed'
  BY <1>4 DEF Exit
<1>5. ASSUME NEW w \in Worker, HandlerReturns(w) \/ HandlerRaises(w) PROVE Typed'
  <2> DEFINE Call == Event \X Nat
             call == <<cur[w], next[w]>>
  <2>1. HandlerEnds(w)
    BY <1>5, Zenon DEF HandlerReturns, HandlerRaises
  <2>2. cur[w] \in Event /\ next[w] \in Nat
    BY <2>1 DEF HandlerEnds
  <2>3. /\ delivered \in Seq(Call) /\ delivered' = Append(delivered, call)
        /\ deadLetters \subseteq Call
    BY <2>1 DEF HandlerEnds
  <2>4. deadLetters' = deadLetters \/ deadLetters' = deadLetters \cup {call}
    BY <1>5, Zenon DEF HandlerReturns, HandlerRaises
  <2>5. call \in Call
    BY <2>2
  <2>6. delivered' \in Seq(Call) /\ deadLetters' \subseteq Call
    <3> HIDE DEF Call, call, Typed, TypeOK, InHandOK, BusAssumption
    <3> QED
      BY <2>3, <2>4, <2>5
  <2>7. InHandOK'
    BY <2>1 DEF HandlerEnds
  <2>8. TypeOK'
    BY <2>1, <2>6 DEF HandlerEnds
  <2> QED
    BY <2>7, <2>8 DEF Typed
<1>6. ASSUME NEW w \in Worker, DispatchEnds(w) PROVE Typed'
  BY <1>6 DEF DispatchEnds, EndDispatch
<1>7. CASE Stop
  BY <1>7 DEF Stop, CancelWorker, Accepted
<1>8. CASE JoinReturns
  BY <1>8 DEF JoinReturns, CancelWorker
<1>9. CASE Tick
  BY <1>9 DEF Tick
<1>10. CASE UNCHANGED vars
  BY <1>10 DEF vars
<1> QED
  BY <1>1, <1>2, <1>3, <1>4, <1>5, <1>6, <1>7, <1>8, <1>9, <1>10
  DEF Next, WorkerStep

\* The types and what the workers hold, in every reachable state.
LEMMA TypedAlways == Spec => []Typed
  BY TypedInit, TypedStep, PTL DEF Spec

\* Every reachable state of the bus has the types the code declares.
THEOREM TypeCorrect == Spec => []TypeOK
<1>1. Typed => TypeOK
  BY DEF Typed
<1> QED
  BY <1>1, TypedAlways, PTL

-----------------------------------------------------------------------------
\* publish() never accepts two events with one key within the window, for
\* every window and every use of the keys.
THEOREM DedupSpacingAlways == Spec => []DedupSpacing
<1> DEFINE Inv == StampsOK /\ DedupSpacing
<1>1. Init => Inv
  BY DEF Init, StampsOK, DedupSpacing, Accepted
<1>2. Typed /\ Inv /\ [Next]_vars => Inv'
  <2> SUFFICES ASSUME Typed, Inv, [Next]_vars PROVE Inv'
    OBVIOUS
  <2> USE BusAssumption DEF BusAssumption, Never, Typed, TypeOK
  <2>1. ASSUME NEW e \in Event, Publish(e) PROVE Inv'
    <3>1. Accepted' = Accepted \cup {e} /\ e \notin Accepted /\ acceptedAt'[e] = now
      BY <2>1 DEF Publish, Enqueue, Accepted
    <3>2. \A f \in Accepted : f # e /\ acceptedAt'[f] = acceptedAt[f]
      BY <2>1, <3>1 DEF Publish, Enqueue, Accepted
    <3>3. StampsOK'
      BY <2>1, <3>1, <3>2 DEF Publish, Enqueue, Accepted, StampsOK
    <3>4. \A f \in Accepted : KeyOf[f] = KeyOf[e] /\ KeyOf[e] # NoKey
                                 => now - acceptedAt[f] >= Window
      BY <2>1 DEF Publish, Enqueue, IsDuplicate, Accepted, StampsOK
    <3>5. DedupSpacing'
      BY <3>1, <3>2, <3>4 DEF DedupSpacing, Accepted
    <3> QED
      BY <3>3, <3>5
  <2>2. CASE Tick
    BY <2>2 DEF Tick, dedupVars, StampsOK, DedupSpacing, Accepted
  <2>3. ASSUME UNCHANGED <<now, lastSeen, acceptedAt>> PROVE Inv'
    BY <2>3 DEF StampsOK, DedupSpacing, Accepted
  <2>4. ASSUME NEW w \in Worker, Start(w) \/ WorkerStep(w) PROVE Inv'
    BY <2>3, <2>4 DEF Start, WorkerStep, Take, Exit, HandlerReturns,
       HandlerRaises, HandlerEnds, DispatchEnds, EndDispatch, dedupVars
  <2>5. CASE Stop \/ JoinReturns \/ UNCHANGED vars
    BY <2>3, <2>5 DEF Stop, JoinReturns, vars, dedupVars
  <2> QED
    BY <2>1, <2>2, <2>4, <2>5 DEF Next
<1> QED
  BY <1>1, <1>2, TypedAlways, PTL DEF Spec

-----------------------------------------------------------------------------
\* Appending to a sequence adds one element to its set.
LEMMA ToSetAppend ==
    ASSUME NEW S, NEW s \in Seq(S), NEW x \in S
    PROVE  ToSet(Append(s, x)) = ToSet(s) \cup {x}
<1>1. DOMAIN Append(s, x) = 1 .. Len(s) + 1 /\ DOMAIN s = 1 .. Len(s)
  OBVIOUS
<1>2. \A i \in 1 .. Len(s) : Append(s, x)[i] = s[i]
  OBVIOUS
<1>3. Append(s, x)[Len(s) + 1] = x /\ Len(s) + 1 \in 1 .. Len(s) + 1
  OBVIOUS
<1>4. \A i \in 1 .. Len(s) + 1 : i \in 1 .. Len(s) \/ i = Len(s) + 1
  OBVIOUS
<1>5. \A i \in 1 .. Len(s) : i \in 1 .. Len(s) + 1
  OBVIOUS
<1> QED
  BY <1>1, <1>2, <1>3, <1>4, <1>5, Zenon DEF ToSet

\* The calls before the next one are made, whatever the handlers did.
LEMMA CalledAlways == Spec => [](CalledSoFar /\ EveryHandlerCalled)
<1> DEFINE Inv == CalledSoFar /\ EveryHandlerCalled
<1>1. Init => Inv
  BY DEF Init, CalledSoFar, EveryHandlerCalled
<1>2. Typed /\ Inv /\ [Next]_vars => Inv'
  <2> SUFFICES ASSUME Typed, Inv, [Next]_vars PROVE Inv'
    OBVIOUS
  <2> USE BusAssumption DEF BusAssumption, Typed, TypeOK, InHandOK, Handlers
  <2>1. ASSUME NEW w \in Worker, HandlerEnds(w) PROVE Inv'
    <3>1. ToSet(delivered') = ToSet(delivered) \cup {<<cur[w], next[w]>>}
      <4> DEFINE Call == Event \X Nat
                 call == <<cur[w], next[w]>>
      <4>1. call \in Call /\ delivered \in Seq(Call)
        BY <2>1 DEF HandlerEnds
      <4>2. delivered' = Append(delivered, call)
        BY <2>1 DEF HandlerEnds
      <4>3. ToSet(delivered') = ToSet(delivered) \cup {call}
        <5> HIDE DEF Call, call
        <5> QED
          BY <4>1, <4>2, ToSetAppend
      <4> QED
        BY <4>3
    <3>2. CalledSoFar'
      <4> SUFFICES ASSUME NEW v \in Worker, pc'[v] = "dispatching",
                          NEW i \in 1 .. next'[v] - 1
                   PROVE  <<cur'[v], i>> \in ToSet(delivered')
        BY DEF CalledSoFar
      <4>1. pc[v] = "dispatching" /\ cur'[v] = cur[v]
        BY <2>1 DEF HandlerEnds
      <4>2. CASE v = w /\ i = next[w]
        BY <3>1, <4>1, <4>2
      <4>3. CASE ~(v = w /\ i = next[w])
        <5>1. i \in 1 .. next[v] - 1
          BY <2>1, <4>3 DEF HandlerEnds
        <5> QED
          BY <3>1, <4>1, <5>1 DEF CalledSoFar
      <4> QED
        BY <4>2, <4>3
    <3>3. EveryHandlerCalled'
      BY <2>1, <3>1 DEF HandlerEnds, EveryHandlerCalled
    <3> QED
      BY <3>2, <3>3
  <2>2. ASSUME NEW w \in Worker, DispatchEnds(w) PROVE Inv'
    <3>1. \A i \in 1 .. NumHandlers[cur[w]] : <<cur[w], i>> \in ToSet(delivered)
      BY <2>2 DEF DispatchEnds, EndDispatch, CalledSoFar
    <3> QED
      BY <2>2, <3>1 DEF DispatchEnds, EndDispatch, CalledSoFar, EveryHandlerCalled
  <2>3. ASSUME NEW w \in Worker, Take(w) PROVE Inv'
    BY <2>3 DEF Take, historyVars, CalledSoFar, EveryHandlerCalled
  <2>4. ASSUME NEW w \in Worker, Start(w) \/ Exit(w) PROVE Inv'
    BY <2>4 DEF Start, Exit, historyVars, CalledSoFar, EveryHandlerCalled
  <2>5. CASE Stop
    BY <2>5 DEF Stop, CancelWorker, CalledSoFar, EveryHandlerCalled
  <2>6. CASE JoinReturns
    BY <2>6 DEF JoinReturns, CancelWorker, historyVars, CalledSoFar, EveryHandlerCalled
  <2>7. ASSUME NEW e \in Event, Publish(e) PROVE Inv'
    BY <2>7 DEF Publish, Enqueue, workerVars, historyVars, CalledSoFar, EveryHandlerCalled
  <2>8. CASE Tick \/ UNCHANGED vars
    BY <2>8 DEF Tick, vars, workerVars, historyVars, CalledSoFar, EveryHandlerCalled
  <2> QED
    BY <2>1, <2>2, <2>3, <2>4, <2>5, <2>6, <2>7, <2>8
    DEF Next, WorkerStep, HandlerReturns, HandlerRaises
<1> QED
  BY <1>1, <1>2, TypedAlways, PTL DEF Spec

\* A failed handler never hides an event from the handlers after it: what is
\* finished was handed to every handler of its type.
THEOREM EveryHandlerCalledAlways == Spec => []EveryHandlerCalled
  BY CalledAlways, PTL

-----------------------------------------------------------------------------
Placed == QueueOK /\ HandsOK /\ DeliveredOK /\ AtMostOnce

\* What is not on its way anywhere stays where it is.
LEMMA PlacedStutter ==
    ASSUME Placed, UNCHANGED <<queue, cur, next, delivered, acceptedAt>>
    PROVE  Placed'
  BY DEF Placed, QueueOK, HandsOK, DeliveredOK, AtMostOnce, Accepted, IsInjective

\* An event is in the queue or in one worker's hands or done, in this order.
LEMMA PlacedAlways == Spec => []Placed
<1>1. Init => Placed
  BY DEF Init, Placed, QueueOK, HandsOK, DeliveredOK, AtMostOnce, IsInjective
<1>2. Typed /\ Placed /\ [Next]_vars => Placed'
  <2> SUFFICES ASSUME Typed, Placed, [Next]_vars PROVE Placed'
    OBVIOUS
  <2> USE BusAssumption
      DEF BusAssumption, Typed, TypeOK, InHandOK, Placed, Never
  <2>1. ASSUME NEW e \in Event, Publish(e) PROVE Placed'
    <3>1. /\ queue' = Append(queue, e) /\ DOMAIN queue' = 1 .. Len(queue) + 1
          /\ UNCHANGED <<cur, next, delivered>>
      BY <2>1 DEF Publish, Enqueue, workerVars, historyVars
    <3>2. Accepted' = Accepted \cup {e} /\ e \notin Accepted
      BY <2>1 DEF Publish, Enqueue, Accepted
    <3>3. \A i \in DOMAIN queue' :
              \/ i \in DOMAIN queue /\ queue'[i] = queue[i]
              \/ i = Len(queue) + 1 /\ queue'[i] = e
      BY <3>1
    <3>4. QueueOK'
      BY <3>1, <3>2, <3>3 DEF QueueOK, HandsOK
    <3>5. HandsOK'
      BY <3>1, <3>2 DEF HandsOK
    <3>6. DeliveredOK'
      BY <3>1, <3>2, <3>3 DEF DeliveredOK
    <3> QED
      BY <3>1, <3>4, <3>5, <3>6 DEF AtMostOnce
  <2>2. ASSUME NEW w \in Worker, Take(w) PROVE Placed'
    <3>1. /\ cur[w] = NoEvent /\ cur' = [cur EXCEPT ![w] = Head(queue)]
          /\ next' = [next EXCEPT ![w] = 1]
          /\ Head(queue) = queue[1] /\ 1 \in DOMAIN queue
          /\ UNCHANGED <<delivered, acceptedAt>> /\ Accepted' = Accepted
      BY <2>2 DEF Take, dedupVars, historyVars, Accepted
    <3>2. \A i \in DOMAIN queue' : /\ i + 1 \in DOMAIN queue /\ i + 1 # 1
                                   /\ queue'[i] = queue[i + 1]
      BY <2>2 DEF Take
    <3>3. QueueOK'
      <4>1. ASSUME NEW i \in DOMAIN queue', NEW j \in DOMAIN queue',
                   queue'[i] = queue'[j]
            PROVE  i = j
        <5>1. i \in Nat /\ j \in Nat
          <6>1. queue' = Tail(queue) /\ queue \in Seq(Event) /\ queue # <<>>
            BY <2>2 DEF Take
          <6>2. DOMAIN queue' = 1 .. Len(queue) - 1
            BY <6>1
          <6> QED
            BY <6>2
        <5>2. i + 1 = j + 1
          BY <3>2, <4>1 DEF QueueOK
        <5> QED
          BY <5>1, <5>2
      <4>2. ASSUME NEW i \in DOMAIN queue', NEW v \in Worker
            PROVE  cur'[v] # queue'[i]
        BY <3>1, <3>2 DEF QueueOK
      <4>3. \A i \in DOMAIN queue' : queue'[i] \in Accepted'
        BY <3>1, <3>2 DEF QueueOK
      <4> QED
        BY <4>1, <4>2, <4>3 DEF QueueOK
    <3>4. HandsOK'
      BY <3>1 DEF HandsOK, QueueOK
    <3>5. DeliveredOK'
      BY <3>1, <3>2 DEF DeliveredOK
    <3> QED
      BY <3>1, <3>3, <3>4, <3>5 DEF AtMostOnce
  <2>3. ASSUME NEW w \in Worker, HandlerEnds(w) PROVE Placed'
    <3>1. /\ delivered' = Append(delivered, <<cur[w], next[w]>>)
          /\ next' = [next EXCEPT ![w] = next[w] + 1]
          /\ UNCHANGED <<queue, cur, acceptedAt>> /\ Accepted' = Accepted
          /\ cur[w] \in Event /\ next[w] \in Nat /\ cur[w] # NoEvent
      BY <2>3 DEF HandlerEnds, dedupVars, Accepted
    <3>2. \A d \in DOMAIN delivered' :
              \/ d \in DOMAIN delivered /\ delivered'[d] = delivered[d]
              \/ d = Len(delivered) + 1 /\ delivered'[d] = <<cur[w], next[w]>>
      BY <3>1
    <3>3. \A d \in DOMAIN delivered : delivered[d] # <<cur[w], next[w]>>
      <4> SUFFICES ASSUME NEW d \in DOMAIN delivered,
                          delivered[d] = <<cur[w], next[w]>>
                   PROVE  FALSE
        OBVIOUS
      <4>1. delivered[d][1] = cur[w] /\ delivered[d][2] = next[w]
        OBVIOUS
      <4> QED
        BY <3>1, <4>1 DEF DeliveredOK
    <3>4. QueueOK' /\ HandsOK'
      BY <3>1 DEF QueueOK, HandsOK
    <3>5. DeliveredOK'
      <4> SUFFICES ASSUME NEW d \in DOMAIN delivered'
                   PROVE  /\ delivered'[d][1] \in Accepted
                          /\ \A i \in DOMAIN queue : queue[i] # delivered'[d][1]
                          /\ \A v \in Worker : cur[v] = delivered'[d][1]
                                 => delivered'[d][2] < next'[v]
        BY <3>1 DEF DeliveredOK
      <4>1. CASE d \in DOMAIN delivered /\ delivered'[d] = delivered[d]
        <5>1. delivered[d] \in Event \X Nat
          BY <4>1
        <5> QED
          BY <3>1, <4>1, <5>1 DEF DeliveredOK
      <4>2. CASE delivered'[d] = <<cur[w], next[w]>>
        <5>1. delivered'[d][1] = cur[w] /\ delivered'[d][2] = next[w]
          BY <4>2
        <5> QED
          BY <3>1, <5>1 DEF HandsOK, QueueOK
      <4> QED
        BY <3>2, <4>1, <4>2
    <3>6. AtMostOnce'
      BY <3>2, <3>3 DEF AtMostOnce, IsInjective
    <3> QED
      BY <3>4, <3>5, <3>6
  <2>4. ASSUME NEW w \in Worker, DispatchEnds(w) PROVE Placed'
    <3>1. /\ cur' = [cur EXCEPT ![w] = NoEvent]
          /\ UNCHANGED <<queue, next, delivered, acceptedAt>>
          /\ Accepted' = Accepted
      BY <2>4 DEF DispatchEnds, EndDispatch, dedupVars, Accepted
    <3>2. Accepted \subseteq Event
      BY DEF Accepted
    <3>3. QueueOK'
      <4>1. \A i \in DOMAIN queue : queue[i] # NoEvent
        BY <3>2 DEF QueueOK
      <4> QED
        BY <3>1, <4>1 DEF QueueOK
    <3>4. HandsOK'
      BY <3>1 DEF HandsOK
    <3>5. DeliveredOK'
      BY <3>1, <3>2 DEF DeliveredOK
    <3> QED
      BY <3>1, <3>3, <3>4, <3>5 DEF AtMostOnce
  <2>5. ASSUME NEW w \in Worker, Start(w) \/ Exit(w) PROVE Placed'
    BY <2>5, PlacedStutter DEF Start, Exit, dedupVars, historyVars
  <2>6. CASE Stop \/ JoinReturns
    BY <2>6, PlacedStutter DEF Stop, JoinReturns, dedupVars, historyVars
  <2>7. CASE Tick \/ UNCHANGED vars
    BY <2>7, PlacedStutter DEF Tick, vars, dedupVars, workerVars, historyVars
  <2> QED
    BY <2>1, <2>2, <2>3, <2>4, <2>5, <2>6, <2>7
    DEF Next, WorkerStep, HandlerReturns, HandlerRaises
<1> QED
  BY <1>1, <1>2, TypedAlways, PTL DEF Spec

\* So no two workers, and no failure or restart, have a handler called twice
\* for an event.
THEOREM AtMostOnceAlways == Spec => []AtMostOnce
<1>1. Placed => AtMostOnce
  BY DEF Placed
<1> QED
  BY <1>1, PlacedAlways, PTL

\* Before a handler is called for an event all the handlers subscribed before
\* it were called for that event, and none of those subscribed after it.
CalledInOrder ==
    \A d \in DOMAIN delivered :
        /\ \A h \in 1 .. delivered[d][2] - 1 :
               \E c \in 1 .. d - 1 : delivered[c] = <<delivered[d][1], h>>
        /\ \A c \in 1 .. d - 1 : delivered[c][1] = delivered[d][1]
               => delivered[c][2] < delivered[d][2]

\* The handlers of an event are called in the order of their subscription, also
\* when two workers share the queue and whatever handlers raise: the channel's
\* order holds of each event without the one start() that the channel asks for.
THEOREM CalledInOrderAlways == Spec => []CalledInOrder
<1>1. Init => CalledInOrder
  BY DEF Init, CalledInOrder
<1>2. ASSUME Typed, Placed, CalledSoFar, CalledInOrder, [Next]_vars
      PROVE  CalledInOrder'
  <2>1. ASSUME NEW w \in Worker, HandlerEnds(w) PROVE CalledInOrder'
    <3> DEFINE e == cur[w]
               n == Len(delivered)
    <3>1. /\ delivered' = Append(delivered, <<e, next[w]>>)
          /\ e \in Event /\ next[w] \in Nat /\ pc[w] = "dispatching"
          /\ delivered \in Seq(Event \X Nat) /\ n \in Nat
      BY <1>2, <2>1 DEF HandlerEnds, Typed, TypeOK, InHandOK
    <3>2. /\ DOMAIN delivered' = 1 .. n + 1 /\ DOMAIN delivered = 1 .. n
          /\ \A d \in 1 .. n : delivered'[d] = delivered[d]
          /\ delivered'[n + 1] = <<e, next[w]>>
      BY <3>1
    <3>3. \A h \in 1 .. next[w] - 1 : \E c \in 1 .. n : delivered[c] = <<e, h>>
      BY <1>2, <2>1, <3>1, <3>2 DEF CalledSoFar, ToSet
    <3>4. \A c \in 1 .. n : delivered[c][1] = e => delivered[c][2] < next[w]
      BY <1>2, <2>1, <3>2 DEF Placed, DeliveredOK
    <3>5. ASSUME NEW d \in 1 .. n + 1
          PROVE  /\ \A h \in 1 .. delivered'[d][2] - 1 :
                        \E c \in 1 .. d - 1 : delivered'[c] = <<delivered'[d][1], h>>
                 /\ \A c \in 1 .. d - 1 : delivered'[c][1] = delivered'[d][1]
                        => delivered'[c][2] < delivered'[d][2]
      <4>1. CASE d \in 1 .. n
        <5>1. d - 1 <= n /\ \A c \in 1 .. d - 1 : delivered'[c] = delivered[c]
          BY <3>1, <3>2, <4>1
        <5>2. delivered'[d] = delivered[d]
          BY <3>2, <4>1
        <5> QED
          BY <1>2, <3>2, <4>1, <5>1, <5>2 DEF CalledInOrder
      <4>2. CASE d = n + 1
        <5>1. d - 1 = n /\ delivered'[d][1] = e /\ delivered'[d][2] = next[w]
          BY <3>1, <3>2, <4>2
        <5> QED
          BY <3>2, <3>3, <3>4, <5>1
      <4>3. d \in 1 .. n \/ d = n + 1
        <5>1. n \in Nat
          BY <3>1
        <5> HIDE DEF n
        <5> QED
          BY <5>1
      <4> QED
        BY <4>1, <4>2, <4>3
    <3> QED
      BY <3>2, <3>5 DEF CalledInOrder
  <2>2. CASE delivered' = delivered
    BY <1>2, <2>2 DEF CalledInOrder
  <2>3. ASSUME NEW w \in Worker, WorkerStep(w)
        PROVE  delivered' = delivered \/ HandlerEnds(w)
    BY <2>3 DEF WorkerStep, Take, Exit, DispatchEnds, EndDispatch, HandlerReturns,
       HandlerRaises, historyVars
  <2>4. CASE ~ \E w \in Worker : WorkerStep(w)
    <3>1. delivered' = delivered
      BY <1>2, <2>4 DEF Next, Publish, Enqueue, Start, Stop, JoinReturns, Tick, vars,
         historyVars
    <3> QED
      BY <2>2, <3>1
  <2> QED
    BY <2>1, <2>2, <2>3, <2>4
<1> QED
  BY <1>1, <1>2, TypedAlways, PlacedAlways, CalledAlways, PTL DEF Spec

-----------------------------------------------------------------------------
Holding == {w \in Worker : cur[w] # NoEvent}

\* A worker that takes an event becomes one more that holds one.
LEMMA HoldingGrows ==
    ASSUME NEW w \in Worker, IsFiniteSet(Holding), cur[w] = NoEvent,
           cur' = [cur EXCEPT ![w] = Head(queue)], Head(queue) # NoEvent,
           cur \in [Worker -> Event \cup {NoEvent}]
    PROVE  IsFiniteSet(Holding') /\ Cardinality(Holding') = Cardinality(Holding) + 1
<1>1. Holding' = Holding \cup {w} /\ w \notin Holding
  BY DEF Holding
<1> QED
  BY <1>1, FS_AddElement

\* A worker that ends its dispatch becomes one less.
LEMMA HoldingShrinks ==
    ASSUME NEW w \in Worker, IsFiniteSet(Holding), cur[w] # NoEvent,
           cur' = [cur EXCEPT ![w] = NoEvent],
           cur \in [Worker -> Event \cup {NoEvent}]
    PROVE  IsFiniteSet(Holding') /\ Cardinality(Holding') = Cardinality(Holding) - 1
<1>1. Holding' = Holding \ {w} /\ w \in Holding
  BY DEF Holding
<1> QED
  BY <1>1, FS_RemoveElement

Exact == IsFiniteSet(Holding) /\ UnfinishedIsExact

\* The count that join() waits for is what is queued or in a worker's hands,
\* whatever number of workers start() left on the queue.
LEMMA ExactAlways == Spec => []Exact
<1>1. Init => Exact
  <2> SUFFICES ASSUME Init PROVE Exact
    OBVIOUS
  <2>1. Holding = {} /\ Len(queue) = 0 /\ unfinished = 0
    BY DEF Init, Holding
  <2> QED
    BY <2>1, FS_EmptySet DEF Exact, UnfinishedIsExact, Holding
<1>2. Typed /\ Exact /\ [Next]_vars => Exact'
  <2> SUFFICES ASSUME Typed, Exact, [Next]_vars PROVE Exact'
    OBVIOUS
  <2>1. /\ queue \in Seq(Event) /\ unfinished \in Int
        /\ cur \in [Worker -> Event \cup {NoEvent}] /\ NoEvent \notin Event
    BY BusAssumption DEF Typed, TypeOK, BusAssumption
  <2>2. /\ IsFiniteSet(Holding) /\ Cardinality(Holding) \in Nat
        /\ unfinished = Len(queue) + Cardinality(Holding)
    BY FS_CardinalityType DEF Exact, UnfinishedIsExact, Holding
  <2>3. ASSUME UNCHANGED <<queue, unfinished, cur>> PROVE Exact'
    BY <2>3 DEF Exact, UnfinishedIsExact, Holding
  <2>4. ASSUME NEW e \in Event, Publish(e) PROVE Exact'
    <3>1. /\ Len(queue') = Len(queue) + 1 /\ unfinished' = unfinished + 1
          /\ cur' = cur
      BY <2>1, <2>4 DEF Publish, Enqueue, workerVars
    <3> QED
      BY <2>1, <2>2, <3>1 DEF Exact, UnfinishedIsExact, Holding
  <2>5. ASSUME NEW w \in Worker, Take(w) PROVE Exact'
    <3>1. /\ Len(queue') = Len(queue) - 1 /\ Len(queue) \in Nat
          /\ unfinished' = unfinished
      BY <2>1, <2>5 DEF Take
    <3>2. /\ cur[w] = NoEvent /\ cur' = [cur EXCEPT ![w] = Head(queue)]
          /\ Head(queue) # NoEvent
      BY <2>1, <2>5 DEF Take, Typed, InHandOK
    <3>3. /\ IsFiniteSet(Holding')
          /\ Cardinality(Holding') = Cardinality(Holding) + 1
      BY <2>1, <2>2, <3>2, HoldingGrows
    <3>4. unfinished' = Len(queue') + Cardinality(Holding')
      BY <2>1, <2>2, <3>1, <3>3
    <3> QED
      BY <3>3, <3>4 DEF Exact, UnfinishedIsExact, Holding
  <2>6. ASSUME NEW w \in Worker, DispatchEnds(w) PROVE Exact'
    <3>1. /\ queue' = queue /\ unfinished' = unfinished - 1
          /\ cur' = [cur EXCEPT ![w] = NoEvent]
      BY <2>6 DEF DispatchEnds, EndDispatch
    <3>2. cur[w] # NoEvent
      BY <2>1, <2>6 DEF DispatchEnds, EndDispatch, Typed, InHandOK
    <3>3. /\ IsFiniteSet(Holding')
          /\ Cardinality(Holding') = Cardinality(Holding) - 1
      BY <2>1, <2>2, <3>1, <3>2, HoldingShrinks
    <3>4. unfinished' = Len(queue') + Cardinality(Holding')
      BY <2>1, <2>2, <3>1, <3>3
    <3> QED
      BY <3>3, <3>4 DEF Exact, UnfinishedIsExact, Holding
  <2>7. ASSUME NEW w \in Worker, Start(w) \/ Exit(w) \/ HandlerEnds(w) PROVE Exact'
    BY <2>3, <2>7 DEF Start, Exit, HandlerEnds
  <2>8. CASE Stop \/ JoinReturns
    BY <2>3, <2>8 DEF Stop, JoinReturns
  <2>9. CASE Tick \/ UNCHANGED vars
    BY <2>3, <2>9 DEF Tick, vars, workerVars
  <2> QED
    BY <2>4, <2>5, <2>6, <2>7, <2>8, <2>9
    DEF Next, WorkerStep, HandlerReturns, HandlerRaises
<1> QED
  BY <1>1, <1>2, TypedAlways, PTL DEF Spec

\* What is put and not counted done is in the queue or with a worker, so that
\* join() can return, for any number of workers.
THEOREM UnfinishedIsExactAlways == Spec => []UnfinishedIsExact
<1>1. Exact => UnfinishedIsExact
  BY DEF Exact
<1> QED
  BY <1>1, ExactAlways, PTL

-----------------------------------------------------------------------------
\* Nothing that was accepted disappears.
Found ==
    \A e \in Accepted : \/ e \in finished
                        \/ \E i \in DOMAIN queue : queue[i] = e
                        \/ \E w \in Worker : cur[w] = e

\* From the moment join() is over, what stop() found is finished.
Drained ==
    /\ owed \subseteq Accepted
    /\ stopper \in {"cancelling", "returned"} => owed \subseteq finished

\* When nothing is unfinished, what was accepted is finished.
NothingLeft == unfinished = 0 => Accepted \subseteq finished

\* The count that join() waits for may be trusted.
LEMMA CountIsTrusted == Typed /\ Exact /\ Found => NothingLeft
<1> SUFFICES ASSUME Typed, Exact, Found, unfinished = 0
             PROVE  Accepted \subseteq finished
  BY DEF NothingLeft
<1>1. Cardinality(Holding) \in Nat /\ Len(queue) \in Nat
  BY FS_CardinalityType DEF Exact, Typed, TypeOK
<1>2. Cardinality(Holding) = 0 /\ Len(queue) = 0
  BY <1>1 DEF Exact, UnfinishedIsExact, Holding
<1>3. Holding = {} /\ DOMAIN queue = {}
  BY <1>2, FS_EmptySet DEF Exact, Typed, TypeOK
<1> QED
  BY <1>3, BusAssumption DEF Found, Holding, Accepted, BusAssumption

\* No step of the bus loses an event.
LEMMA FoundAlways == Spec => []Found
<1>1. Init => Found
  BY DEF Init, Found, Accepted
<1>2. Typed /\ Found /\ [Next]_vars => Found'
  <2> SUFFICES ASSUME Typed, Found, [Next]_vars PROVE Found'
    OBVIOUS
  <2>1. /\ queue \in Seq(Event) /\ cur \in [Worker -> Event \cup {NoEvent}]
        /\ NoEvent \notin Event /\ Accepted \subseteq Event
        /\ acceptedAt \in [Event -> {Never} \cup 0 .. MaxTime]
    BY BusAssumption DEF Typed, TypeOK, BusAssumption, Accepted
  <2>2. ASSUME UNCHANGED <<acceptedAt, finished, queue, cur>> PROVE Found'
    BY <2>2 DEF Found, Accepted
  <2>4. ASSUME NEW e \in Event, Publish(e) PROVE Found'
    <3>1. Accepted' \subseteq Accepted \cup {e}
      BY <2>1, <2>4 DEF Publish, Enqueue, Accepted
    <3>2. queue' = Append(queue, e) /\ UNCHANGED <<cur, finished, owed, stopper>>
      BY <2>4 DEF Publish, Enqueue, workerVars, historyVars
    <3>3. \A i \in DOMAIN queue : i \in DOMAIN queue' /\ queue'[i] = queue[i]
      BY <2>1, <3>2
    <3>4. Len(queue) + 1 \in DOMAIN queue' /\ queue'[Len(queue) + 1] = e
      BY <2>1, <3>2
    <3> QED
      BY <3>1, <3>2, <3>3, <3>4 DEF Found
  <2>5. ASSUME NEW w \in Worker, Take(w) PROVE Found'
    <3>1. /\ queue' = Tail(queue) /\ cur' = [cur EXCEPT ![w] = queue[1]]
          /\ queue # <<>> /\ cur[w] = NoEvent
          /\ UNCHANGED <<acceptedAt, finished, owed, stopper>>
      BY <2>1, <2>5 DEF Take, dedupVars, historyVars, Typed, InHandOK
    <3>2. \A i \in DOMAIN queue : i = 1 \/ (i - 1 \in DOMAIN queue' /\ queue'[i - 1] = queue[i])
      BY <2>1, <3>1
    <3>5. 1 \in DOMAIN queue /\ w \in Worker
      BY <2>1, <3>1
    <3>3. cur'[w] = queue[1] /\ \A v \in Worker : cur[v] # NoEvent => cur'[v] = cur[v]
      BY <2>1, <3>1
    <3>4. Accepted' = Accepted
      BY <3>1 DEF Accepted
    <3> QED
      <4> SUFFICES ASSUME NEW e \in Accepted
                   PROVE  \/ e \in finished'
                          \/ \E i \in DOMAIN queue' : queue'[i] = e
                          \/ \E v \in Worker : cur'[v] = e
        BY <3>4 DEF Found
      <4>1. e # NoEvent
        BY <2>1
      <4>2. CASE e \in finished
        BY <3>1, <4>2
      <4>3. ASSUME NEW v \in Worker, cur[v] = e PROVE cur'[v] = e
        BY <3>3, <4>1, <4>3
      <4>4. ASSUME NEW i \in DOMAIN queue, queue[i] = e
            PROVE  \/ \E j \in DOMAIN queue' : queue'[j] = e
                   \/ cur'[w] = e
        BY <3>2, <3>3, <4>4
      <4> QED
        BY <4>2, <4>3, <4>4 DEF Found
  <2>6. ASSUME NEW w \in Worker, DispatchEnds(w) PROVE Found'
    <3>1. /\ cur' = [cur EXCEPT ![w] = NoEvent] /\ finished' = finished \cup {cur[w]}
          /\ UNCHANGED <<acceptedAt, queue>>
      BY <2>6 DEF DispatchEnds, EndDispatch, dedupVars
    <3> QED
      BY <2>1, <3>1 DEF Found, Accepted
  <2>7. ASSUME NEW w \in Worker, Start(w) \/ Exit(w) \/ HandlerEnds(w) PROVE Found'
    BY <2>2, <2>7 DEF Start, Exit, HandlerEnds, dedupVars, historyVars
  <2>8. CASE Stop \/ JoinReturns
    BY <2>2, <2>8 DEF Stop, JoinReturns, dedupVars, historyVars
  <2>9. CASE Tick \/ UNCHANGED vars
    BY <2>2, <2>9 DEF Tick, vars, dedupVars, workerVars, historyVars
  <2> QED
    BY <2>4, <2>5, <2>6, <2>7, <2>8, <2>9
    DEF Next, WorkerStep, HandlerReturns, HandlerRaises
<1> QED
  BY <1>1, <1>2, TypedAlways, PTL DEF Spec

\* stop() leaves nothing behind that was published before it, even when the
\* bus is started and stopped again around it.
THEOREM DrainedWhenStoppedAlways == Spec => []DrainedWhenStopped
<1>1. Init => Drained
  BY DEF Init, Drained, Accepted
<1>2. Typed /\ NothingLeft /\ NothingLeft' /\ Drained /\ [Next]_vars => Drained'
  <2> SUFFICES ASSUME Typed, NothingLeft, NothingLeft', Drained, [Next]_vars PROVE Drained'
    OBVIOUS
  <2>1. ASSUME UNCHANGED <<finished, owed, stopper, acceptedAt>> PROVE Drained'
    BY <2>1 DEF Drained, Accepted
  <2>2. ASSUME NEW e \in Event, Publish(e) PROVE Drained'
    BY <2>2, BusAssumption
    DEF Publish, Enqueue, historyVars, Drained, Accepted, Never, BusAssumption,
        Typed, TypeOK
  <2>3. ASSUME NEW w \in Worker, DispatchEnds(w) PROVE Drained'
    <3>1. /\ finished \subseteq finished' /\ owed' = owed
          /\ Accepted' = Accepted
      BY <2>3 DEF DispatchEnds, EndDispatch, dedupVars, Accepted
    <3>2. stopper' = stopper \/ unfinished' = 0
      BY <2>3 DEF DispatchEnds, EndDispatch
    <3> QED
      BY <3>1, <3>2 DEF Drained, NothingLeft
  <2>4. ASSUME NEW w \in Worker, Start(w) \/ Take(w) \/ Exit(w) \/ HandlerEnds(w)
        PROVE  Drained'
    BY <2>1, <2>4 DEF Start, Take, Exit, HandlerEnds, dedupVars, historyVars
  <2>5. CASE Stop
    BY <2>5 DEF Stop, Drained, NothingLeft, dedupVars, Accepted
  <2>6. CASE JoinReturns
    BY <2>6 DEF JoinReturns, dedupVars, historyVars, Drained, Accepted
  <2>7. CASE Tick \/ UNCHANGED vars
    BY <2>1, <2>7 DEF Tick, vars, dedupVars, historyVars
  <2> QED
    BY <2>2, <2>3, <2>4, <2>5, <2>6, <2>7
    DEF Next, WorkerStep, HandlerReturns, HandlerRaises
<1>3. Drained => DrainedWhenStopped
  BY DEF Drained, DrainedWhenStopped
<1> QED
  BY <1>1, <1>2, <1>3, TypedAlways, ExactAlways, FoundAlways, CountIsTrusted, PTL DEF Spec

-----------------------------------------------------------------------------
(* What StopReturns rests on besides fairness: a stop() that waits is not    *)
(* left alone by the last worker.                                            *)

\* A worker has something to do for the join().
Served == \E w \in Worker : \/ pc[w] = "dispatching"
                            \/ pc[w] = "waiting" /\ queue # <<>>

Waited == stopper = "joining" => unfinished > 0

\* join() waits only for what is there.
LEMMA WaitedAlways == Spec => []Waited
<1>1. Init => Waited
  BY DEF Init, Waited
<1>2. Typed /\ Exact /\ Waited /\ [Next]_vars => Waited'
  <2> SUFFICES ASSUME Typed, Exact, Waited, [Next]_vars PROVE Waited'
    OBVIOUS
  <2>1. unfinished \in Nat
    BY FS_CardinalityType DEF Exact, UnfinishedIsExact, Holding, Typed, TypeOK
  <2>2. ASSUME UNCHANGED <<stopper, unfinished>> PROVE Waited'
    BY <2>2 DEF Waited
  <2>3. ASSUME NEW e \in Event, Publish(e) PROVE Waited'
    BY <2>1, <2>3 DEF Publish, Enqueue, Waited
  <2>4. ASSUME NEW w \in Worker, DispatchEnds(w) PROVE Waited'
    BY <2>1, <2>4 DEF DispatchEnds, EndDispatch, Waited
  <2>5. ASSUME NEW w \in Worker, Start(w) \/ Take(w) \/ Exit(w) \/ HandlerEnds(w)
        PROVE  Waited'
    BY <2>2, <2>5 DEF Start, Take, Exit, HandlerEnds
  <2>6. CASE Stop \/ JoinReturns
    BY <2>1, <2>6 DEF Stop, JoinReturns, CancelWorker, Waited
  <2>7. CASE Tick \/ UNCHANGED vars
    BY <2>2, <2>7 DEF Tick, vars
  <2> QED
    BY <2>3, <2>4, <2>5, <2>6, <2>7 DEF Next, WorkerStep, HandlerReturns, HandlerRaises
<1> QED
  BY <1>1, <1>2, TypedAlways, ExactAlways, PTL DEF Spec

\* While it does, a worker that may still work has work.
LEMMA WorkIsLeft ==
    ASSUME Typed, Exact, Waited, stopper = "joining",
           \A w \in Worker : pc[w] = "ended" => cur[w] = NoEvent
    PROVE  queue # <<>> \/ \E w \in Worker : pc[w] = "dispatching"
<1> SUFFICES ASSUME queue = <<>> PROVE \E w \in Worker : pc[w] = "dispatching"
  OBVIOUS
<1>1. Cardinality(Holding) # 0
  BY DEF Waited, Exact, UnfinishedIsExact, Holding
<1>2. Holding # {}
  BY <1>1, FS_EmptySet
<1>3. PICK w \in Worker : cur[w] # NoEvent
  BY <1>2 DEF Holding
<1> QED
  BY <1>3 DEF Typed, TypeOK, InHandOK

HasWork ==
    (/\ Typed /\ Exact /\ Waited /\ stopper = "joining"
     /\ \A w \in Worker : pc[w] = "ended" => cur[w] = NoEvent)
        => queue # <<>> \/ \E w \in Worker : pc[w] = "dispatching"

\* As long as a stop() waits for events that workers can reach, a worker has
\* one in hand or one to take, and no worker's end takes that away, however
\* many workers start() left on the queue: fairness to workers is all that
\* StopReturns needs besides.
THEOREM JoinIsServedAlways ==
    Spec => /\ [](stopper = "joining" /\ Drainable => Served)
            /\ [][stopper = "joining" /\ stopper' = "joining" /\ Drainable => Drainable']_vars
<1> DEFINE Joined == stopper = "joining" /\ Drainable
<1>0. HasWork /\ HasWork'
  <2>1. HasWork
    BY WorkIsLeft DEF HasWork
  <2> QED
    BY <2>1, PTL
<1>1. Typed /\ Exact /\ Waited /\ Joined => Served
  <2> SUFFICES ASSUME Typed, Exact, Waited, Joined PROVE Served
    OBVIOUS
  <2>1. queue # <<>> \/ \E w \in Worker : pc[w] = "dispatching"
    BY WorkIsLeft DEF Drainable
  <2>2. \A w \in Worker : pc[w] \notin {"unborn", "ended"}
                              => pc[w] \in {"waiting", "dispatching"}
    BY DEF Typed, TypeOK
  <2> QED
    BY <2>1, <2>2 DEF Drainable, Served
<1>2. Typed /\ Exact /\ Waited /\ Typed' /\ Exact' /\ Waited' /\ [Next]_vars
          => [Joined /\ stopper' = "joining" => Drainable']_vars
  <2> SUFFICES ASSUME Typed, Typed', Exact', Waited', Next, Joined, stopper' = "joining"
               PROVE  Drainable'
    OBVIOUS
  <2>1. pc \in [Worker -> {"unborn", "waiting", "dispatching", "ended"}]
        /\ cur \in [Worker -> Event \cup {NoEvent}]
    BY DEF Typed, TypeOK
  <2>2. ASSUME NEW w \in Worker, \A v \in Worker \ {w} : pc'[v] = pc[v] /\ cur'[v] = cur[v],
               pc'[w] = "ended" => cur'[w] = NoEvent
        PROVE  \A v \in Worker : pc'[v] = "ended" => cur'[v] = NoEvent
    BY <2>2 DEF Drainable
  <2>3. ASSUME NEW w \in Worker, pc'[w] \in {"waiting", "dispatching"},
               \A v \in Worker : pc'[v] = "ended" => cur'[v] = NoEvent
        PROVE  Drainable'
    BY <2>3 DEF Drainable
  <2>4. ASSUME NEW w \in Worker, Start(w) \/ Take(w) \/ HandlerEnds(w) PROVE Drainable'
    <3>1. /\ pc'[w] \in {"waiting", "dispatching"}
          /\ \A v \in Worker \ {w} : pc'[v] = pc[v] /\ cur'[v] = cur[v]
      BY <2>1, <2>4 DEF Start, Take, HandlerEnds
    <3> QED
      BY <2>2, <2>3, <3>1
  <2>5. ASSUME NEW w \in Worker, Exit(w) \/ DispatchEnds(w) PROVE Drainable'
    <3>1. /\ pc'[w] \in {"waiting", "ended"} /\ cur'[w] = NoEvent /\ queue' = queue
          /\ \A v \in Worker \ {w} : pc'[v] = pc[v] /\ cur'[v] = cur[v]
      BY <2>1, <2>5 DEF Exit, DispatchEnds, EndDispatch, Typed, InHandOK
    <3>2. \A v \in Worker : pc'[v] = "ended" => cur'[v] = NoEvent
      BY <2>2, <3>1
    <3>3. CASE pc'[w] = "waiting"
      BY <2>3, <3>2, <3>3
    <3>4. CASE pc'[w] = "ended"
      <4>1. queue' = <<>>
        BY <2>1, <2>5, <3>4 DEF Exit, DispatchEnds, EndDispatch
      <4>2. queue' # <<>> \/ \E v \in Worker : pc'[v] = "dispatching"
        BY <1>0, <3>2 DEF HasWork
      <4> QED
        BY <2>3, <3>2, <4>1, <4>2
    <3> QED
      BY <3>1, <3>3, <3>4
  <2>6. CASE Stop \/ JoinReturns
    BY <2>6 DEF Stop, CanStop, JoinReturns, CancelWorker
  <2>7. ASSUME NEW e \in Event, Publish(e) PROVE Drainable'
    BY <2>7 DEF Publish, Enqueue, workerVars, Drainable
  <2>8. CASE Tick
    BY <2>8 DEF Tick, workerVars, Drainable
  <2> QED
    BY <2>4, <2>5, <2>6, <2>7, <2>8 DEF Next, WorkerStep, HandlerReturns, HandlerRaises
<1> QED
  BY <1>1, <1>2, TypedAlways, ExactAlways, WaitedAlways, PTL DEF Spec

-----------------------------------------------------------------------------
(* The refinement.  Todo joins the calls of every event in the queue; what   *)
(* FlattenSeq returns is known for sequences of up to n elements if it is    *)
(* for those of one less, and a step of the bus adds one event at most.      *)

Calls == Seq(Event \X Nat)

\* The running concatenation that FlattenSeq is defined by.
Joins(s, g) == g = [i \in 1 .. Len(s) |-> IF i = 1 THEN s[i] ELSE g[i - 1] \o s[i]]

JoinsOnce(s) == /\ \E g : Joins(s, g)
                /\ \A g, h : Joins(s, g) /\ Joins(s, h) => g = h

Flattens(n) ==
    \A s \in Seq(Calls) : Len(s) <= n =>
        /\ JoinsOnce(s)
        /\ FlattenSeq(s) \in Calls
        /\ s # <<>> => FlattenSeq(s) = Head(s) \o FlattenSeq(Tail(s))

\* Calls may be joined in any order.
LEMMA JoinInAnyOrder ==
    ASSUME NEW p \in Calls, NEW q \in Calls, NEW r \in Calls
    PROVE  (p \o q) \o r = p \o (q \o r)
<1> DEFINE C == Event \X Nat
<1>1. p \in Seq(C) /\ q \in Seq(C) /\ r \in Seq(C)
  BY DEF Calls
<1> HIDE DEF C
<1> QED
  BY <1>1, ConcatAssociative

\* FlattenSeq is the last of the running concatenation, where there is one.
LEMMA FlattenIs ==
    ASSUME NEW s \in Seq(Calls), s # <<>>, JoinsOnce(s), NEW g, Joins(s, g)
    PROVE  FlattenSeq(s) = g[Len(s)]
<1>1. Len(s) # 0
  BY EmptySeq
<1>2. FlattenSeq(s) = (CHOOSE h : Joins(s, h))[Len(s)]
  BY <1>1 DEF FlattenSeq, Joins
<1>3. (CHOOSE h : Joins(s, h)) = g
  <2> HIDE DEF Joins
  <2> QED
    BY DEF JoinsOnce
<1> QED
  BY <1>2, <1>3

\* One more element continues the running concatenation.
LEMMA JoinsAppend ==
    ASSUME NEW s \in Seq(Calls), NEW x \in Calls, NEW g, Joins(Append(s, x), g)
    PROVE  /\ Joins(s, [i \in 1 .. Len(s) |-> g[i]])
           /\ DOMAIN g = 1 .. Len(s) + 1
           /\ g[Len(s) + 1] = IF s = <<>> THEN x ELSE g[Len(s)] \o x
<1> DEFINE n == Len(s)
           t == Append(s, x)
           h == [i \in 1 .. n |-> g[i]]
<1>1. /\ n \in Nat /\ Len(t) = n + 1 /\ t[n + 1] = x
      /\ \A i \in 1 .. n : t[i] = s[i]
  BY AppendProperties, LenProperties
<1>2. g = [i \in 1 .. n + 1 |-> IF i = 1 THEN t[i] ELSE g[i - 1] \o t[i]]
  BY <1>1 DEF Joins
<1>3. n = 0 <=> s = <<>>
  BY EmptySeq
<1> HIDE DEF n, t
<1>4. \A i \in 1 .. n + 1 : g[i] = IF i = 1 THEN t[i] ELSE g[i - 1] \o t[i]
  BY <1>2
<1>5. ASSUME NEW i \in 1 .. n
      PROVE  h[i] = IF i = 1 THEN s[i] ELSE h[i - 1] \o s[i]
  <2>1. g[i] = IF i = 1 THEN s[i] ELSE g[i - 1] \o s[i]
    BY <1>1, <1>4
  <2>2. i # 1 => i - 1 \in 1 .. n
    BY <1>1
  <2> QED
    BY <2>1, <2>2
<1>6. Joins(s, h)
  BY <1>5 DEF Joins, n
<1>7. g[n + 1] = IF n = 0 THEN x ELSE g[n] \o x
  BY <1>1, <1>4
<1>8. DOMAIN g = 1 .. n + 1
  BY <1>2
<1> QED
  BY <1>3, <1>6, <1>7, <1>8 DEF n

\* It exists and is unique,
LEMMA JoinsOnceAppend ==
    ASSUME NEW s \in Seq(Calls), NEW x \in Calls, JoinsOnce(s)
    PROVE  JoinsOnce(Append(s, x))
<1> DEFINE n == Len(s)
           t == Append(s, x)
<1>1. /\ n \in Nat /\ Len(t) = n + 1 /\ t[n + 1] = x
      /\ \A i \in 1 .. n : t[i] = s[i]
  BY AppendProperties, LenProperties
<1>2. PICK f : Joins(s, f)
  BY DEF JoinsOnce
<1>3. \A i \in 1 .. n : f[i] = IF i = 1 THEN s[i] ELSE f[i - 1] \o s[i]
  BY <1>2 DEF Joins
<1> HIDE DEF n, t
<1>4. \E g : Joins(t, g)
  <2> DEFINE g == [i \in 1 .. n + 1 |-> IF i <= n THEN f[i]
                                        ELSE IF n = 0 THEN x ELSE f[n] \o x]
  <2>1. ASSUME NEW i \in 1 .. n + 1
        PROVE  g[i] = IF i = 1 THEN t[i] ELSE g[i - 1] \o t[i]
    <3>1. CASE i <= n
      <4>1. i \in 1 .. n /\ t[i] = s[i] /\ (i # 1 => i - 1 \in 1 .. n)
        BY <1>1, <3>1
      <4>2. g[i] = f[i] /\ (i # 1 => g[i - 1] = f[i - 1])
        BY <1>1, <3>1, <4>1
      <4> QED
        BY <1>3, <4>1, <4>2
    <3>2. CASE i = n + 1
      <4>1. g[i] = IF n = 0 THEN x ELSE f[n] \o x
        BY <1>1, <3>2
      <4>2. n # 0 => i # 1 /\ g[i - 1] = f[n]
        BY <1>1, <3>2
      <4> QED
        BY <1>1, <3>2, <4>1, <4>2
    <3> QED
      BY <1>1, <3>1, <3>2
  <2>2. g = [i \in 1 .. n + 1 |-> IF i = 1 THEN t[i] ELSE g[i - 1] \o t[i]]
    BY <2>1
  <2> HIDE DEF g
  <2>3. Joins(t, g)
    BY <1>1, <2>2 DEF Joins
  <2> QED
    BY <2>3
<1>5. ASSUME NEW g, NEW h, Joins(t, g), Joins(t, h) PROVE g = h
  <2> DEFINE gs == [i \in 1 .. n |-> g[i]]
             hs == [i \in 1 .. n |-> h[i]]
  <2>1. /\ Joins(s, gs) /\ DOMAIN g = 1 .. n + 1
        /\ g[n + 1] = IF s = <<>> THEN x ELSE g[n] \o x
    BY <1>5, JoinsAppend DEF t, n
  <2>2. /\ Joins(s, hs) /\ DOMAIN h = 1 .. n + 1
        /\ h[n + 1] = IF s = <<>> THEN x ELSE h[n] \o x
    BY <1>5, JoinsAppend DEF t, n
  <2>3. gs = hs
    <3> HIDE DEF gs, hs
    <3> QED
      BY <2>1, <2>2 DEF JoinsOnce
  <2>4. \A i \in 1 .. n : g[i] = h[i]
    <3>1. \A i \in 1 .. n : gs[i] = g[i] /\ hs[i] = h[i]
      OBVIOUS
    <3> HIDE DEF gs, hs
    <3> QED
      BY <2>3, <3>1
  <2>5. s # <<>> => n \in 1 .. n
    BY <1>1, EmptySeq DEF n
  <2>6. \A i \in 1 .. n + 1 : g[i] = h[i]
    <3>1. g[n + 1] = h[n + 1]
      BY <2>1, <2>2, <2>4, <2>5
    <3> QED
      BY <1>1, <2>4, <3>1
  <2>7. /\ g = [i \in 1 .. Len(t) |-> g[i]]
        /\ h = [i \in 1 .. Len(t) |-> h[i]]
    BY <1>5 DEF Joins
  <2> QED
    BY <1>1, <2>6, <2>7
<1> QED
  BY <1>4, <1>5 DEF JoinsOnce, t

\* and the new element comes last.
LEMMA FlattenAppend ==
    ASSUME NEW s \in Seq(Calls), NEW x \in Calls, JoinsOnce(s), FlattenSeq(s) \in Calls
    PROVE  FlattenSeq(Append(s, x)) = FlattenSeq(s) \o x
<1> DEFINE t == Append(s, x)
<1>1. t \in Seq(Calls) /\ t # <<>> /\ Len(t) = Len(s) + 1
  BY AppendProperties
<1>2. JoinsOnce(t)
  BY JoinsOnceAppend
<1>3. PICK g : Joins(t, g)
  BY <1>2 DEF JoinsOnce
<1>4. FlattenSeq(t) = g[Len(s) + 1]
  BY <1>1, <1>2, <1>3, FlattenIs
<1> DEFINE h == [i \in 1 .. Len(s) |-> g[i]]
<1>5. Joins(s, h) /\ g[Len(s) + 1] = IF s = <<>> THEN x ELSE g[Len(s)] \o x
  BY <1>3, JoinsAppend
<1>6. CASE s = <<>>
  <2>1. FlattenSeq(s) = <<>>
    BY <1>6 DEF FlattenSeq
  <2>2. <<>> \o x = x
    BY ConcatEmptySeq DEF Calls
  <2> QED
    BY <1>4, <1>5, <1>6, <2>1, <2>2
<1>7. CASE s # <<>>
  <2>1. Len(s) \in 1 .. Len(s)
    BY <1>7, EmptySeq, LenProperties
  <2>2. h[Len(s)] = g[Len(s)]
    BY <2>1
  <2> HIDE DEF h
  <2>3. FlattenSeq(s) = h[Len(s)]
    BY <1>5, <1>7, FlattenIs
  <2> QED
    BY <1>4, <1>5, <1>7, <2>2, <2>3
<1> QED
  BY <1>6, <1>7

\* Nothing to join.
LEMMA FlattensNone == Flattens(0)
<1> SUFFICES ASSUME NEW s \in Seq(Calls), Len(s) <= 0
             PROVE  JoinsOnce(s) /\ FlattenSeq(s) \in Calls /\ s = <<>>
  BY DEF Flattens
<1>1. s = <<>>
  BY EmptySeq, LenProperties
<1>2. FlattenSeq(s) = <<>>
  BY <1>1 DEF FlattenSeq
<1>3. Joins(s, [i \in 1 .. 0 |-> <<>>])
  BY <1>1 DEF Joins
<1>4. \A g, h : Joins(s, g) /\ Joins(s, h) => g = h
  BY <1>1 DEF Joins
<1>5. JoinsOnce(s)
  <2> HIDE DEF Joins
  <2> QED
    BY <1>3, <1>4 DEF JoinsOnce
<1>6. FlattenSeq(s) \in Calls
  BY <1>2, EmptySeq DEF Calls
<1> QED
  BY <1>1, <1>5, <1>6

\* Sequences of one element more join in order too.
LEMMA FlattensNext == ASSUME NEW n \in Nat, Flattens(n) PROVE Flattens(n + 1)
<1> SUFFICES ASSUME NEW s \in Seq(Calls), Len(s) <= n + 1, s # <<>>
             PROVE  /\ JoinsOnce(s) /\ FlattenSeq(s) \in Calls
                    /\ FlattenSeq(s) = Head(s) \o FlattenSeq(Tail(s))
  <2>1. Flattens(0)
    BY FlattensNone
  <2>2. <<>> \in Seq(Calls) /\ Len(<<>>) <= n /\ Len(<<>>) <= n + 1
    BY EmptySeq
  <2> QED
    BY <2>2 DEF Flattens
<1>1. PICK f \in Seq(Calls), x \in Calls : s = Append(f, x)
  BY SequenceEmptyOrAppend
<1>2. Len(f) <= n /\ Len(f) \in Nat
  BY <1>1, AppendProperties, LenProperties
<1>3. JoinsOnce(f) /\ FlattenSeq(f) \in Calls
  BY <1>2 DEF Flattens
<1>4. JoinsOnce(s) /\ FlattenSeq(s) = FlattenSeq(f) \o x
  BY <1>1, <1>3, JoinsOnceAppend, FlattenAppend
<1>5. FlattenSeq(s) \in Calls
  BY <1>3, <1>4, ConcatProperties DEF Calls
<1>6. CASE f = <<>>
  <2>1. Head(s) = x /\ Tail(s) = <<>> /\ FlattenSeq(f) = <<>> /\ FlattenSeq(<<>>) = <<>>
    BY <1>1, <1>6, HeadTailAppend DEF FlattenSeq
  <2>2. x \o <<>> = x /\ <<>> \o x = x
    BY ConcatEmptySeq DEF Calls
  <2> QED
    BY <1>4, <1>5, <2>1, <2>2
<1>7. CASE f # <<>>
  <2> DEFINE r == Tail(f)
  <2>1. Head(s) = Head(f) /\ Tail(s) = Append(r, x)
    BY <1>1, <1>7, HeadTailAppend
  <2>2. r \in Seq(Calls) /\ Len(r) <= n /\ Head(f) \in Calls
    BY <1>2, <1>7, HeadTailProperties
  <2>3. FlattenSeq(f) = Head(f) \o FlattenSeq(r)
    BY <1>2, <1>7 DEF Flattens
  <2> HIDE DEF r
  <2>4. JoinsOnce(r) /\ FlattenSeq(r) \in Calls
    BY <2>2 DEF Flattens
  <2>5. FlattenSeq(Tail(s)) = FlattenSeq(r) \o x
    BY <2>1, <2>2, <2>4, FlattenAppend
  <2>6. (Head(f) \o FlattenSeq(r)) \o x = Head(f) \o (FlattenSeq(r) \o x)
    BY <2>2, <2>4, JoinInAnyOrder
  <2> QED
    BY <1>4, <1>5, <2>1, <2>3, <2>5, <2>6
<1> QED
  BY <1>6, <1>7

\* The calls of one event from the i-th handler on.
LEMMA RestIs ==
    ASSUME NEW e \in Event, NEW i \in Nat
    PROVE  /\ Rest(e, i) \in Calls
           /\ i > NumHandlers[e] /\ i # 0 => Rest(e, i) = <<>>
           /\ i <= NumHandlers[e] /\ i # 0 =>
                 /\ Rest(e, i) # <<>>
                 /\ Head(Rest(e, i)) = <<e, i>> /\ Tail(Rest(e, i)) = Rest(e, i + 1)
<1> DEFINE n == NumHandlers[e]
           k == IF i <= n + 1 THEN n - i + 1 ELSE 0
<1>1. n \in Nat /\ k \in Nat
  BY BusAssumption DEF BusAssumption
<1>2. Rest(e, i) = [j \in 1 .. k |-> <<e, i + j - 1>>]
  BY <1>1 DEF Rest
<1> HIDE DEF n, k
<1>3. Rest(e, i) \in Calls /\ Len(Rest(e, i)) = k
  BY <1>1, <1>2 DEF Calls
<1>4. ASSUME i > n, i # 0 PROVE Rest(e, i) = <<>>
  <2>1. k = 0
    BY <1>1, <1>4 DEF k
  <2> QED
    BY <1>2, <2>1
<1>5. ASSUME i <= n, i # 0
      PROVE  /\ Rest(e, i) # <<>>
             /\ Head(Rest(e, i)) = <<e, i>> /\ Tail(Rest(e, i)) = Rest(e, i + 1)
  <2>1. k = n - i + 1 /\ k >= 1 /\ k - 1 \in Nat
    BY <1>1, <1>5 DEF k
  <2>2. Rest(e, i + 1) = [j \in 1 .. k - 1 |-> <<e, i + 1 + j - 1>>]
    <3>1. n - (i + 1) + 1 = k - 1
      BY <1>1, <2>1
    <3> QED
      BY <3>1 DEF Rest, n
  <2>3. Rest(e, i) # <<>> /\ Head(Rest(e, i)) = <<e, i>>
    BY <1>2, <1>3, <2>1
  <2>4. Rest(e, i + 1) \in Calls /\ Len(Rest(e, i + 1)) = k - 1
    BY <2>1, <2>2 DEF Calls
  <2>5. /\ Tail(Rest(e, i)) \in Calls /\ Len(Tail(Rest(e, i))) = k - 1
        /\ \A j \in 1 .. k - 1 : Tail(Rest(e, i))[j] = Rest(e, i)[j + 1]
    BY <1>3, <2>3, HeadTailProperties DEF Calls
  <2>6. ASSUME NEW j \in 1 .. k - 1 PROVE Tail(Rest(e, i))[j] = Rest(e, i + 1)[j]
    <3>1. j + 1 \in 1 .. k /\ i + (j + 1) - 1 = i + 1 + j - 1
      BY <2>1
    <3>2. Rest(e, i)[j + 1] = <<e, i + (j + 1) - 1>>
      BY <1>2, <3>1
    <3> QED
      BY <2>2, <2>5, <3>1, <3>2
  <2> QED
    BY <2>1, <2>3, <2>4, <2>5, <2>6, SeqEqual DEF Calls
<1> QED
  BY <1>3, <1>4, <1>5, <1>1 DEF n

\* The head of a sequence is the head of what it begins.
LEMMA HeadTailConcat ==
    ASSUME NEW s \in Calls, NEW t \in Calls, s # <<>>
    PROVE  s \o t # <<>> /\ Head(s \o t) = Head(s) /\ Tail(s \o t) = Tail(s) \o t
<1> DEFINE C == Event \X Nat
           u == s \o t
<1>1. /\ u \in Seq(C) /\ Len(u) = Len(s) + Len(t) /\ Len(s) \in Nat \ {0} /\ Len(t) \in Nat
      /\ \A i \in 1 .. Len(s) + Len(t) :
            u[i] = IF i <= Len(s) THEN s[i] ELSE t[i - Len(s)]
  BY ConcatProperties, EmptySeq, LenProperties DEF Calls
<1> HIDE DEF u
<1>2. u # <<>> /\ Head(u) = u[1] /\ Head(s) = s[1]
  BY <1>1, EmptySeq DEF Calls
<1>3. Head(u) = Head(s)
  BY <1>1, <1>2
<1>4. /\ Tail(s) \in Seq(C) /\ Len(Tail(s)) = Len(s) - 1
      /\ \A i \in 1 .. Len(Tail(s)) : Tail(s)[i] = s[i + 1]
  BY HeadTailProperties DEF Calls
<1>5. /\ Tail(u) \in Seq(C) /\ Len(Tail(u)) = Len(u) - 1
      /\ \A i \in 1 .. Len(Tail(u)) : Tail(u)[i] = u[i + 1]
  BY <1>1, <1>2, HeadTailProperties
<1>6. /\ Tail(s) \o t \in Seq(C) /\ Len(Tail(s) \o t) = Len(u) - 1
      /\ \A i \in 1 .. Len(u) - 1 :
            (Tail(s) \o t)[i] = IF i <= Len(s) - 1 THEN Tail(s)[i] ELSE t[i - (Len(s) - 1)]
  <2>1. t \in Seq(C)
    BY DEF Calls
  <2>2. /\ Tail(s) \o t \in Seq(C) /\ Len(Tail(s) \o t) = Len(Tail(s)) + Len(t)
        /\ \A i \in 1 .. Len(Tail(s)) + Len(t) :
              (Tail(s) \o t)[i] = IF i <= Len(Tail(s)) THEN Tail(s)[i]
                                  ELSE t[i - Len(Tail(s))]
    BY <1>4, <2>1, ConcatProperties
  <2>3. Len(Tail(s)) + Len(t) = Len(u) - 1
    BY <1>1, <1>4
  <2> QED
    BY <1>4, <2>2, <2>3
<1>7. ASSUME NEW i \in 1 .. Len(u) - 1 PROVE Tail(u)[i] = (Tail(s) \o t)[i]
  <2>1. Tail(u)[i] = u[i + 1] /\ i + 1 \in 1 .. Len(s) + Len(t)
    BY <1>1, <1>5
  <2>2. CASE i <= Len(s) - 1
    <3>1. i + 1 <= Len(s) /\ i \in 1 .. Len(Tail(s))
      BY <1>1, <1>4, <2>2
    <3>2. u[i + 1] = s[i + 1] /\ Tail(s)[i] = s[i + 1]
      BY <1>1, <1>4, <2>1, <3>1
    <3> QED
      BY <1>6, <2>1, <2>2, <3>2
  <2>3. CASE ~(i <= Len(s) - 1)
    <3>1. ~(i + 1 <= Len(s)) /\ (i + 1) - Len(s) = i - (Len(s) - 1)
      BY <1>1, <2>3
    <3>2. u[i + 1] = t[(i + 1) - Len(s)]
      BY <1>1, <2>1, <3>1
    <3> QED
      BY <1>6, <2>1, <2>3, <3>1, <3>2
  <2> QED
    BY <2>2, <2>3
<1>8. Tail(u) = Tail(s) \o t
  BY <1>5, <1>6, <1>7, SeqEqual
<1> QED
  BY <1>2, <1>3, <1>8 DEF u

\* The calls of the events of a queue, one sequence per event.
CallsIn(q) == [i \in 1 .. Len(q) |-> Rest(q[i], 1)]

\* Putting an event adds its calls, taking one takes its calls away.
LEMMA CallsInIs ==
    ASSUME NEW q \in Seq(Event)
    PROVE  /\ CallsIn(q) \in Seq(Calls) /\ Len(CallsIn(q)) = Len(q)
           /\ \A e \in Event : CallsIn(Append(q, e)) = Append(CallsIn(q), Rest(e, 1))
           /\ q # <<>> => /\ CallsIn(q) # <<>> /\ Head(CallsIn(q)) = Rest(Head(q), 1)
                          /\ Tail(CallsIn(q)) = CallsIn(Tail(q))
<1>1. ASSUME NEW p \in Seq(Event)
      PROVE  /\ CallsIn(p) \in Seq(Calls) /\ Len(CallsIn(p)) = Len(p) /\ Len(p) \in Nat
             /\ \A i \in 1 .. Len(p) : CallsIn(p)[i] = Rest(p[i], 1)
  <2>1. \A i \in 1 .. Len(p) : p[i] \in Event /\ Rest(p[i], 1) \in Calls
    BY RestIs
  <2> QED
    BY <2>1 DEF CallsIn
<1>2. ASSUME NEW e \in Event
      PROVE  CallsIn(Append(q, e)) = Append(CallsIn(q), Rest(e, 1))
  <2> DEFINE r == Append(q, e)
             c == Append(CallsIn(q), Rest(e, 1))
  <2>1. /\ r \in Seq(Event) /\ Len(r) = Len(q) + 1 /\ r[Len(q) + 1] = e
        /\ \A i \in 1 .. Len(q) : r[i] = q[i]
    BY AppendProperties
  <2>2. Rest(e, 1) \in Calls
    BY RestIs
  <2>3. /\ c \in Seq(Calls) /\ Len(c) = Len(q) + 1 /\ c[Len(q) + 1] = Rest(e, 1)
        /\ \A i \in 1 .. Len(q) : c[i] = CallsIn(q)[i]
    BY <1>1, <2>2, AppendProperties
  <2> HIDE DEF r, c
  <2>4. /\ CallsIn(r) \in Seq(Calls) /\ Len(CallsIn(r)) = Len(q) + 1 /\ Len(q) \in Nat
        /\ \A i \in 1 .. Len(q) + 1 : CallsIn(r)[i] = Rest(r[i], 1)
    BY <1>1, <2>1
  <2>5. ASSUME NEW i \in 1 .. Len(q) + 1 PROVE CallsIn(r)[i] = c[i]
    <3>1. CASE i \in 1 .. Len(q)
      BY <1>1, <2>1, <2>3, <2>4, <3>1
    <3>2. CASE i = Len(q) + 1
      BY <2>1, <2>3, <2>4, <3>2
    <3> QED
      BY <2>4, <3>1, <3>2
  <2>6. CallsIn(r) = c
    BY <2>3, <2>4, <2>5, SeqEqual
  <2> QED
    BY <2>6 DEF r, c
<1>3. ASSUME q # <<>>
      PROVE  /\ CallsIn(q) # <<>> /\ Head(CallsIn(q)) = Rest(Head(q), 1)
             /\ Tail(CallsIn(q)) = CallsIn(Tail(q))
  <2>1. Len(q) \in Nat \ {0} /\ Head(q) = q[1]
    BY <1>3, EmptySeq
  <2>2. CallsIn(q) # <<>> /\ Head(CallsIn(q)) = CallsIn(q)[1]
    BY <1>1, <2>1, EmptySeq
  <2>3. /\ Tail(q) \in Seq(Event) /\ Len(Tail(q)) = Len(q) - 1
        /\ \A i \in 1 .. Len(q) - 1 : Tail(q)[i] = q[i + 1]
    BY <1>3, HeadTailProperties
  <2>4. /\ Tail(CallsIn(q)) \in Seq(Calls) /\ Len(Tail(CallsIn(q))) = Len(q) - 1
        /\ \A i \in 1 .. Len(q) - 1 : Tail(CallsIn(q))[i] = CallsIn(q)[i + 1]
    BY <1>1, <2>2, HeadTailProperties
  <2>5. /\ CallsIn(Tail(q)) \in Seq(Calls) /\ Len(CallsIn(Tail(q))) = Len(q) - 1
        /\ \A i \in 1 .. Len(q) - 1 : CallsIn(Tail(q))[i] = Rest(Tail(q)[i], 1)
    BY <1>1, <2>3
  <2>6. ASSUME NEW i \in 1 .. Len(q) - 1 PROVE Tail(CallsIn(q))[i] = CallsIn(Tail(q))[i]
    <3>1. i + 1 \in 1 .. Len(q)
      BY <2>1
    <3> QED
      BY <1>1, <2>3, <2>4, <2>5, <3>1
  <2>7. Tail(CallsIn(q)) = CallsIn(Tail(q))
    BY <2>4, <2>5, <2>6, SeqEqual
  <2> QED
    BY <1>1, <2>1, <2>2, <2>7
<1> QED
  BY <1>1, <1>2, <1>3

\* A step of the bus is an acceptance, a call, or nothing to the channel.
LEMMA ChannelStep ==
    ASSUME Typed, Flattens(Len(queue)), [Next]_vars, OneWorker'
    PROVE  [Channel!Next]_<<Todo, delivered>>
<1> DEFINE F(q) == FlattenSeq(CallsIn(q))
<1> USE DEF Typed, TypeOK
<1>1. /\ queue \in Seq(Event) /\ Len(queue) \in Nat
      /\ CallsIn(queue) \in Seq(Calls) /\ Len(CallsIn(queue)) = Len(queue)
  BY CallsInIs
<1>2. Todo = RestInHand \o F(queue) /\ Todo' = RestInHand' \o F(queue')
  BY DEF Todo, CallsIn
<1>3. /\ F(queue) \in Calls /\ JoinsOnce(CallsIn(queue))
      /\ queue # <<>> => F(queue) = Rest(Head(queue), 1) \o F(Tail(queue))
  <2>1. queue # <<>> => /\ CallsIn(queue) # <<>>
                        /\ Head(CallsIn(queue)) = Rest(Head(queue), 1)
                        /\ Tail(CallsIn(queue)) = CallsIn(Tail(queue))
    BY CallsInIs
  <2>2. /\ FlattenSeq(CallsIn(queue)) \in Calls /\ JoinsOnce(CallsIn(queue))
        /\ CallsIn(queue) # <<>> => FlattenSeq(CallsIn(queue)) =
              Head(CallsIn(queue)) \o FlattenSeq(Tail(CallsIn(queue)))
    <3> DEFINE s == CallsIn(queue)
               n == Len(queue)
    <3>1. s \in Seq(Calls) /\ Len(s) <= n /\ Flattens(n)
      BY <1>1
    <3> HIDE DEF s, n
    <3>2. /\ FlattenSeq(s) \in Calls /\ JoinsOnce(s)
          /\ s # <<>> => FlattenSeq(s) = Head(s) \o FlattenSeq(Tail(s))
      BY <3>1 DEF Flattens
    <3> QED
      BY <3>2 DEF s
  <2> QED
    BY <2>1, <2>2
<1>4. RestInHand \in Calls
  <2>1. ASSUME NEW w \in InHand PROVE Rest(cur[w], next[w]) \in Calls
    BY <2>1, RestIs DEF InHand
  <2>2. InHand # {} => (CHOOSE w \in InHand : TRUE) \in InHand
    OBVIOUS
  <2> QED
    BY <2>1, <2>2 DEF RestInHand, Calls
<1> HIDE DEF F, Typed, TypeOK
<1>5. ASSUME NEW w \in Worker, pc[w] # "unborn", pc' = [pc EXCEPT ![w] = pc'[w]],
             pc'[w] # "unborn"
      PROVE  InHand \subseteq {w}
  <2>1. Born \subseteq Born'
    BY <1>5 DEF Born, Typed, TypeOK
  <2>2. \A v \in InHand : v \in Born
    BY DEF InHand, Born, Typed, InHandOK
  <2>3. w \in Born
    BY <1>5 DEF Born
  <2> QED
    BY <2>1, <2>2, <2>3 DEF OneWorker
<1>6. ASSUME NEW w, InHand = {w} PROVE RestInHand = Rest(cur[w], next[w])
  BY <1>6 DEF RestInHand
<1>7. ASSUME NEW w, InHand' = {w} PROVE RestInHand' = Rest(cur'[w], next'[w])
  BY <1>7 DEF RestInHand
<1>8. InHand = {} => RestInHand = <<>>
  BY DEF RestInHand
<1>9. InHand' = {} => RestInHand' = <<>>
  BY DEF RestInHand
<1>10. F(queue) = <<>> \o F(queue)
  BY <1>3, ConcatEmptySeq DEF Calls
<1>11. ASSUME NEW e \in Event, Publish(e) PROVE Channel!Accept(e)
  <2>1. queue' = Append(queue, e) /\ UNCHANGED <<cur, next, delivered>>
    BY <1>11 DEF Publish, Enqueue, workerVars, historyVars
  <2>2. Rest(e, 1) \in Calls /\ Rest(e, 1) = Channel!CallsOf(e)
    <3>1. NumHandlers[e] \in Nat
      BY BusAssumption DEF BusAssumption
    <3>2. NumHandlers[e] - 1 + 1 = NumHandlers[e] /\ \A j \in Nat : 1 + j - 1 = j
      BY <3>1
    <3>3. Rest(e, 1) = Channel!CallsOf(e)
      BY <3>1, <3>2 DEF Rest, Channel!CallsOf
    <3> QED
      BY <3>3, RestIs
  <2>3. F(queue') = F(queue) \o Rest(e, 1)
    <3>1. CallsIn(queue') = Append(CallsIn(queue), Rest(e, 1))
      BY <1>1, <2>1, CallsInIs
    <3> QED
      BY <1>1, <1>3, <2>2, <3>1, FlattenAppend DEF F
  <2>4. RestInHand' = RestInHand
    BY <2>1 DEF RestInHand, InHand
  <2>5. Todo' = Todo \o Rest(e, 1)
    <3>1. (RestInHand \o F(queue)) \o Rest(e, 1) = RestInHand \o (F(queue) \o Rest(e, 1))
      BY <1>3, <1>4, <2>2, JoinInAnyOrder
    <3> QED
      BY <1>2, <2>3, <2>4, <3>1
  <2> QED
    BY <2>1, <2>2, <2>5 DEF Channel!Accept
<1>12. ASSUME NEW w \in Worker, Take(w) PROVE UNCHANGED <<Todo, delivered>>
  <2>1. /\ queue # <<>> /\ cur[w] = NoEvent /\ pc[w] # "unborn"
        /\ queue' = Tail(queue) /\ delivered' = delivered
        /\ cur' = [cur EXCEPT ![w] = Head(queue)] /\ next' = [next EXCEPT ![w] = 1]
        /\ pc' = [pc EXCEPT ![w] = "dispatching"]
    BY <1>12 DEF Take, historyVars, Typed, InHandOK
  <2>2. /\ pc'[w] = "dispatching" /\ cur'[w] = Head(queue) /\ next'[w] = 1
        /\ Head(queue) \in Event /\ \A v \in Worker \ {w} : cur'[v] = cur[v]
    BY <1>1, <2>1, HeadTailProperties DEF Typed, TypeOK
  <2>3. InHand = {}
    <3>1. InHand \subseteq {w}
      BY <1>5, <2>1, <2>2
    <3> QED
      BY <2>1, <3>1 DEF InHand
  <2>4. InHand' = {w}
    <3>1. Head(queue) # NoEvent
      BY <2>2, BusAssumption DEF BusAssumption
    <3> QED
      BY <2>2, <2>3, <3>1 DEF InHand
  <2> QED
    BY <1>2, <1>3, <1>7, <1>8, <1>10, <2>1, <2>2, <2>3, <2>4
<1>13. ASSUME NEW w \in Worker, HandlerEnds(w) PROVE Channel!Call
  <2>1. /\ pc[w] = "dispatching" /\ next[w] \in 1 .. NumHandlers[cur[w]]
        /\ delivered' = Append(delivered, <<cur[w], next[w]>>)
        /\ next' = [next EXCEPT ![w] = next[w] + 1]
        /\ UNCHANGED <<queue, pc, cur>>
    BY <1>13 DEF HandlerEnds, Handlers
  <2>2. /\ cur[w] \in Event /\ next[w] \in Nat /\ next'[w] = next[w] + 1
        /\ NumHandlers[cur[w]] \in Nat
    BY <2>1, BusAssumption DEF BusAssumption, Typed, TypeOK, InHandOK
  <2>3. InHand = {w} /\ InHand' = {w}
    <3>1. InHand \subseteq {w}
      BY <1>5, <2>1 DEF Typed, TypeOK
    <3>2. cur[w] # NoEvent
      BY <2>2, BusAssumption DEF BusAssumption
    <3> QED
      BY <2>1, <3>1, <3>2 DEF InHand
  <2> DEFINE r == Rest(cur[w], next[w])
             s == Rest(cur[w], next[w] + 1)
  <2>4. /\ r \in Calls /\ r # <<>> /\ Head(r) = <<cur[w], next[w]>> /\ Tail(r) = s
    BY <2>1, <2>2, RestIs
  <2>5. Todo = r \o F(queue) /\ Todo' = s \o F(queue)
    BY <1>2, <1>6, <1>7, <2>1, <2>2, <2>3
  <2> HIDE DEF r, s
  <2>6. r \o F(queue) # <<>> /\ Head(r \o F(queue)) = Head(r)
        /\ Tail(r \o F(queue)) = Tail(r) \o F(queue)
    BY <1>3, <2>4, HeadTailConcat
  <2> QED
    BY <2>1, <2>4, <2>5, <2>6 DEF Channel!Call
<1>14. ASSUME NEW w \in Worker, DispatchEnds(w) PROVE UNCHANGED <<Todo, delivered>>
  <2>1. /\ pc[w] = "dispatching" /\ next[w] \notin 1 .. NumHandlers[cur[w]]
        /\ UNCHANGED <<queue, next, delivered>> /\ cur' = [cur EXCEPT ![w] = NoEvent]
        /\ pc' = [pc EXCEPT ![w] = pc'[w]] /\ pc'[w] # "unborn"
    BY <1>14 DEF DispatchEnds, EndDispatch, Handlers, Typed, TypeOK
  <2>2. /\ cur[w] \in Event /\ next[w] \in Nat /\ next[w] >= 1
        /\ NumHandlers[cur[w]] \in Nat
    BY <2>1, BusAssumption DEF BusAssumption, Typed, TypeOK, InHandOK
  <2>3. InHand = {w} /\ InHand' = {}
    <3>1. InHand \subseteq {w}
      BY <1>5, <2>1
    <3>2. cur[w] # NoEvent
      BY <2>2, BusAssumption DEF BusAssumption
    <3> QED
      BY <2>1, <3>1, <3>2 DEF InHand, Typed, TypeOK
  <2>4. Rest(cur[w], next[w]) = <<>>
    BY <2>1, <2>2, RestIs
  <2> QED
    BY <1>2, <1>6, <1>9, <2>1, <2>3, <2>4
<1>15. ASSUME UNCHANGED <<queue, cur, next, delivered>> PROVE UNCHANGED <<Todo, delivered>>
  BY <1>2, <1>15 DEF RestInHand, InHand
<1>16. ASSUME NEW w \in Worker, Start(w) \/ Exit(w) PROVE UNCHANGED <<queue, cur, next, delivered>>
  BY <1>16 DEF Start, Exit, historyVars
<1>17. ASSUME Stop \/ JoinReturns \/ Tick \/ UNCHANGED vars
       PROVE  UNCHANGED <<queue, cur, next, delivered>>
  BY <1>17 DEF Stop, JoinReturns, Tick, vars, historyVars, workerVars
<1> QED
  BY <1>11, <1>12, <1>13, <1>14, <1>15, <1>16, <1>17
     DEF Next, WorkerStep, HandlerReturns, HandlerRaises, Channel!Next

\* As long as start() ran once, the bus makes the calls of the handlers in the
\* order in which the events were accepted and, for each, the handlers
\* subscribed: what the segments rely on, whatever raises and whenever stop()
\* is called.
THEOREM ImplementsChannelAlways == Spec => ImplementsChannel
<1>1. Init => Channel!Init
  <2> SUFFICES ASSUME Init PROVE Channel!Init
    OBVIOUS
  <2>1. InHand = {} /\ queue = <<>> /\ delivered = <<>>
    BY DEF Init, InHand
  <2>2. FlattenSeq([i \in 1 .. Len(queue) |-> Rest(queue[i], 1)]) = <<>>
    BY <2>1 DEF FlattenSeq
  <2> QED
    BY <2>1, <2>2 DEF Todo, RestInHand, Channel!Init
<1>2. Init => Flattens(Len(queue))
  BY FlattensNone DEF Init
<1>3. Typed /\ Flattens(Len(queue)) /\ [Next]_vars => Flattens(Len(queue))'
  <2> SUFFICES ASSUME Typed, Flattens(Len(queue)), [Next]_vars
               PROVE  Flattens(Len(queue'))
    BY DEF Flattens
  <2>1. Len(queue) \in Nat /\ queue \in Seq(Event)
    BY DEF Typed, TypeOK
  <2>2. Flattens(Len(queue) + 1)
    BY <2>1, FlattensNext
  <2>3. Len(queue') \in Nat /\ Len(queue') <= Len(queue) + 1
    <3>1. ASSUME NEW e \in Event, Publish(e) PROVE queue' = Append(queue, e)
      BY <3>1 DEF Publish, Enqueue
    <3>2. ASSUME NEW w \in Worker, Take(w) PROVE queue # <<>> /\ queue' = Tail(queue)
      BY <3>2 DEF Take
    <3>3. \/ \E e \in Event : queue' = Append(queue, e)
          \/ queue # <<>> /\ queue' = Tail(queue)
          \/ queue' = queue
      BY <3>1, <3>2 DEF Next, WorkerStep, Start, Exit, HandlerReturns, HandlerRaises,
         HandlerEnds, DispatchEnds, EndDispatch, Stop, JoinReturns, Tick, vars
    <3> QED
      BY <2>1, <3>3, AppendProperties, HeadTailProperties, EmptySeq
  <2> QED
    BY <2>1, <2>2, <2>3, LenProperties DEF Flattens
<1>4. Typed /\ Flattens(Len(queue)) /\ [Next]_vars
          => [OneWorker' => Channel!Next]_<<Todo, delivered>>
  BY ChannelStep
<1> QED
  BY <1>1, <1>2, <1>3, <1>4, TypedAlways, PTL DEF Spec, ImplementsChannel

=============================================================================
