-------------------------- MODULE TradeFlowProofs --------------------------
(***************************************************************************)
(* For any number of requests, overlapping or not, of advices and of events *)
(* on the bus: types, that a reported decision is of a committed trade, and *)
(* that it leaves its advice settled.                                       *)
(***************************************************************************)
EXTENDS MCTradeFlow, SequenceTheorems, TLAPS

(* The worker has an event for as long as adapters are left to call. *)
Busy == left # <<>> => current # None

(* A request that saw its advice answered is right for good, since no answer
   is ever taken back; and what a request was for is fixed once it loaded. *)
Settling ==
    \A r \in Req :
        /\ pc[r] = "new" => r \notin logged
        /\ order[r].advice # 0 =>
              /\ pc[r] = "advising" /\ ~fresh[r] => answered[order[r].advice] # None
              /\ pc[r] = "refreshing" \/ r \in logged => answered[order[r].advice] # None

IInv == TypeOK /\ Busy /\ LoggedIsDurable /\ Settling

-----------------------------------------------------------------------------
(* The adapters of an action are names of adapters, in a sequence. *)
LEMMA AdaptersType == \A side : Adapters(side) \in Seq(Adapter)
  <1>1. <<"track", "reconcile", "memory", "snapshot">> \in Seq(Adapter)
    BY DEF Adapter
  <1>2. <<"close", "deprioritize", "reconcile", "memory", "snapshot">> \in Seq(Adapter)
    BY DEF Adapter
  <1> QED BY <1>1, <1>2 DEF Adapters

(* A request's order is typed, and its advice is one when it is not 0. *)
LEMMA OrderType ==
  ASSUME FlowAssumption
  PROVE  /\ NoOrder \in Order \cup {NoOrder}
         /\ \A o \in Order : o.qty \in Nat \ {0} /\ o.advice \in Advice \cup {0}
  BY DEF FlowAssumption, Order, NoOrder

(* Initially. *)
LEMMA InitInv == FlowAssumption /\ Init => IInv
  BY DEF FlowAssumption, Init, IInv, TypeOK, Busy, LoggedIsDurable, Settling, NoOrder

(* Loading: the order is fixed, and nothing is logged yet. *)
LEMMA LoadInv ==
  ASSUME FlowAssumption, IInv, NEW r \in Req, NEW o \in Order,
         BuyLoads(r, o) \/ SellLoads(r, o)
  PROVE  IInv'
  <1>1. Load(r, o)
    BY DEF BuyLoads, SellLoads
  <1>2. /\ at' \in [Req -> Req] /\ new' \in [Req -> Nat]
        /\ \/ pc' = [pc EXCEPT ![r] = "loaded"]
           \/ pc' = [pc EXCEPT ![r] = "failed"]
    <2>1. /\ o.qty \in Nat
          /\ \A p \in Req : pos[p].qty \in Nat
          /\ at \in [Req -> Req] /\ new \in [Req -> Nat]
      BY OrderType DEF IInv, TypeOK
    <2>2. CASE BuyLoads(r, o)
      BY <2>1, <2>2 DEF BuyLoads, Goto
    <2>3. CASE SellLoads(r, o)
      BY <2>1, <2>3 DEF SellLoads, Goto
    <2> QED BY <2>2, <2>3
  <1>3. /\ pc[r] = "new"
        /\ order' = [order EXCEPT ![r] = o]
        /\ UNCHANGED <<pos, answered, fresh, durable, broken, logged, outbox, feedback>>
    BY <1>1 DEF Load
  <1>4. TypeOK'
    <2>1. order' \in [Req -> Order \cup {NoOrder}]
      BY <1>3 DEF IInv, TypeOK
    <2>2. pc' \in [Req -> {"new", "loaded", "written", "advising", "refreshing",
                           "committing", "done", "failed"}]
      BY <1>2 DEF IInv, TypeOK
    <2> QED BY <1>2, <1>3, <2>1, <2>2 DEF IInv, TypeOK, feedback
  <1>5. Busy'
    BY <1>3 DEF IInv, Busy, feedback
  <1>6. LoggedIsDurable'
    BY <1>2, <1>3 DEF IInv, TypeOK, LoggedIsDurable
  <1>7. Settling'
    BY <1>2, <1>3 DEF IInv, TypeOK, Settling
  <1> QED BY <1>4, <1>5, <1>6, <1>7 DEF IInv

(* What a trade that commits leaves is typed. *)
LEMMA CommittedType ==
  ASSUME IInv, NEW r \in Req, Committed(r)
  PROVE  /\ pos' \in [Req -> [status : {"none", "open", "closed"}, qty : Nat]]
         /\ durable' = durable \cup {r}
  <1>1. /\ at[r] \in Req /\ new[r] \in Nat
        /\ pos \in [Req -> [status : {"none", "open", "closed"}, qty : Nat]]
    BY DEF IInv, TypeOK
  <1> QED BY <1>1 DEF Committed

(* The steps of a request after it loaded. *)
LEMMA StepInv ==
  ASSUME FlowAssumption, IInv, NEW r \in Req, Step(r)
  PROVE  IInv'
  <1> USE DEF IInv, TypeOK, Busy, LoggedIsDurable, Settling, feedback, Goto, Schedule
  <1>1. CASE Write(r)
    BY <1>1 DEF Write
  <1>2. CASE NotLogged(r)
    BY <1>2 DEF NotLogged
  <1>3. CASE LogReads(r)
    BY <1>3 DEF LogReads
  <1>4. CASE LogBreaks(r)
    BY <1>4 DEF LogBreaks
  <1>5. CASE LogWrites(r)
    <2>1. /\ pc' = [pc EXCEPT ![r] = "refreshing"] /\ pc[r] = "advising"
          /\ pos' \in [Req -> [status : {"none", "open", "closed"}, qty : Nat]]
          /\ durable' = durable \cup {r}
          /\ UNCHANGED <<order, at, new, fresh, broken, logged, outbox, feedback>>
      BY <1>5, CommittedType DEF LogWrites
    <2>2. /\ answered' \in [Advice -> Req \cup {None}]
          /\ \A a \in Advice : answered[a] # None => answered'[a] # None
          /\ order[r].advice # 0 => answered'[order[r].advice] # None
      <3>1. /\ order[r].advice \in Advice \cup {0}
            /\ answered' = IF fresh[r] THEN [answered EXCEPT ![order[r].advice] = r]
                           ELSE answered
        BY <1>5 DEF LogWrites, Answered, Order, NoOrder
      <3> QED BY <2>1, <3>1 DEF FlowAssumption
    <2>3. \A s \in Req : order[s].advice \in Advice \cup {0}
      BY DEF Order, NoOrder
    <2>4. TypeOK' /\ Busy' /\ LoggedIsDurable'
      BY <2>1, <2>2
    <2>5. Settling'
      BY <2>1, <2>2, <2>3
    <2> QED BY <2>4, <2>5
  <1>6. CASE LogEnds(r)
    BY <1>6 DEF LogEnds
  <1>7. CASE Commit(r)
    BY <1>7, CommittedType DEF Commit
  <1> QED BY <1>1, <1>2, <1>3, <1>4, <1>5, <1>6, <1>7 DEF Step

(* A request that fails, and one whose event is published. *)
LEMMA FailInv ==
  ASSUME FlowAssumption, IInv, NEW r \in Req, Fail(r) \/ Publish(r)
  PROVE  IInv'
  <1>1. CASE Fail(r)
    BY <1>1 DEF IInv, TypeOK, Busy, LoggedIsDurable, Settling, feedback, Goto, Fail
  <1>2. CASE Publish(r)
    <2>1. queue' \in Seq(Req) /\ outbox' \subseteq Req
      BY <1>2 DEF Publish, IInv, TypeOK
    <2> QED BY <1>2, <2>1 DEF Publish, IInv, TypeOK, Busy, LoggedIsDurable, Settling
  <1> QED BY <1>1, <1>2

(* An adapter that ends leaves the requests alone. *)
LEMMA EndsType ==
  ASSUME FlowAssumption, IInv, left # <<>>, AdapterEnds
  PROVE  /\ tried' \in [Req -> Seq(Adapter)] /\ left' \in Seq(Adapter)
         /\ current' \in Req \cup {None} /\ picked' = 0
         /\ Busy'
         /\ UNCHANGED <<pos, request, queue>>
  <1>1. /\ current \in Req
        /\ Head(left) \in Adapter /\ Tail(left) \in Seq(Adapter)
        /\ Len(left) # 1 \/ Tail(left) = <<>>
    <2>1. current \in Req /\ left \in Seq(Adapter)
      BY DEF IInv, TypeOK, Busy
    <2>2. /\ Head(left) \in Adapter /\ Tail(left) \in Seq(Adapter)
          /\ Len(Tail(left)) = Len(left) - 1
      BY <2>1, HeadTailProperties
    <2>3. Tail(left) # <<>> => Len(Tail(left)) # 0
      <3> DEFINE rest == Tail(left)
      <3>1. rest \in Seq(Adapter)
        BY <2>2
      <3> HIDE DEF rest
      <3>2. rest # <<>> => Len(rest) # 0
        BY <3>1, EmptySeq
      <3> QED BY <3>2 DEF rest
    <2>4. Len(left) = 1 => Tail(left) = <<>>
      BY <2>2, <2>3
    <2> QED BY <2>1, <2>2, <2>4
  <1>2. tried' \in [Req -> Seq(Adapter)]
    <2>1. Append(tried[current], Head(left)) \in Seq(Adapter)
      BY <1>1 DEF IInv, TypeOK
    <2> QED BY <1>1, <2>1 DEF AdapterEnds, IInv, TypeOK
  <1> QED BY <1>1, <1>2 DEF AdapterEnds, IInv, TypeOK, Busy, FlowAssumption

(* The worker only ever gives an advice an answer. *)
LEMMA WorkerInv ==
  ASSUME FlowAssumption, IInv, Worker
  PROVE  IInv'
  <1>1. CASE Take
    <2>1. /\ current' \in Req /\ current' # None
          /\ queue' \in Seq(Req) /\ left' \in Seq(Adapter)
      <3>1. queue \in Seq(Req) /\ queue # <<>>
        BY <1>1 DEF Take, IInv, TypeOK
      <3>2. Head(queue) \in Req /\ Tail(queue) \in Seq(Req)
        BY <3>1, HeadTailProperties
      <3> QED BY <1>1, <3>2, AdaptersType DEF Take, FlowAssumption
    <2>2. UNCHANGED <<pos, answered, request, picked, tried>>
      BY <1>1 DEF Take
    <2> QED
      BY <2>1, <2>2 DEF IInv, TypeOK, Busy, LoggedIsDurable, Settling, request
  <1>2. CASE ReadAdvice
    BY <1>2 DEF ReadAdvice, Unanswered, IInv, TypeOK, Busy, LoggedIsDurable, Settling, request
  <1>3. CASE AdapterReturns
    <2>1. left # <<>> /\ AdapterEnds
      BY <1>3 DEF AdapterReturns
    <2>2. /\ answered' \in [Advice -> Req \cup {None}]
          /\ \A a \in Advice : answered[a] # None => answered'[a] # None
      <3>1. current \in Req /\ current # None
        BY <2>1 DEF IInv, TypeOK, Busy
      <3> QED BY <1>3, <3>1 DEF AdapterReturns, IInv, TypeOK
    <2>3. TypeOK'
      BY <2>1, <2>2, EndsType DEF IInv, TypeOK, request
    <2>4. LoggedIsDurable' /\ Settling'
      <3>1. \A r \in Req : order[r].advice \in Advice \cup {0}
        BY DEF IInv, TypeOK, Order, NoOrder
      <3> QED BY <2>1, <2>2, <3>1, EndsType DEF IInv, LoggedIsDurable, Settling, request
    <2> QED BY <2>1, <2>3, <2>4, EndsType DEF IInv
  <1>4. CASE AdapterRaises
    <2>1. left # <<>> /\ AdapterEnds /\ UNCHANGED answered
      BY <1>4 DEF AdapterRaises
    <2>2. TypeOK'
      BY <2>1, EndsType DEF IInv, TypeOK, request
    <2>3. LoggedIsDurable' /\ Settling'
      BY <2>1, EndsType DEF IInv, LoggedIsDurable, Settling, request
    <2> QED BY <2>1, <2>2, <2>3, EndsType DEF IInv
  <1> QED BY <1>1, <1>2, <1>3, <1>4 DEF Worker

\* A step of something else.
LEMMA StutterInv == IInv /\ UNCHANGED vars => IInv'
  BY DEF IInv, TypeOK, Busy, LoggedIsDurable, Settling, vars, request, feedback

\* Every step of a request or of the worker keeps the invariant.
LEMMA NextInv ==
  ASSUME FlowAssumption, IInv, [Next]_vars
  PROVE  IInv'
  BY LoadInv, StepInv, FailInv, WorkerInv, StutterInv DEF Next

-----------------------------------------------------------------------------
(* The invariant holds in every state, for every number of requests, orders
   and advices that satisfies FlowAssumption. *)
THEOREM Invariance == Spec => []IInv
  BY FlowAssumption, InitInv, NextInv, PTL DEF Spec

(* Requests, advices and the worker's state keep their types: no sequence of
   trades makes a quantity negative, even when they overlap. *)
THEOREM TypeCorrect == Spec => []TypeOK
  BY Invariance, PTL DEF IInv

(* No decision is reported, or can be, without its trade: log_decision() and
   the trade are one transaction. *)
THEOREM LoggedIsDurableAlways == Spec => []LoggedIsDurable
  BY Invariance, PTL DEF IInv

(* A logged decision leaves the advice it refers to answered, whatever the
   worker and other requests do to that advice meanwhile. *)
THEOREM AdviceIsSettledAlways == Spec => []AdviceIsSettled
  <1>1. IInv => AdviceIsSettled
    BY DEF IInv, TypeOK, Settling, AdviceIsSettled
  <1> QED BY <1>1, Invariance, PTL

-----------------------------------------------------------------------------
(* Moving the head of one sequence to the end of another keeps their whole. *)
LEMMA HeadMoves ==
  ASSUME NEW S, NEW a \in Seq(S), NEW b \in Seq(S), b # <<>>
  PROVE  Append(a, Head(b)) \o Tail(b) = a \o b
  <1>1. Head(b) \in S /\ Tail(b) \in Seq(S) /\ Head(b) = b[1] /\ Len(b) \in Nat \ {0}
    BY HeadTailProperties, EmptySeq, LenProperties
  <1>2. <<Head(b)>> \in Seq(S)
    BY <1>1
  <1>3. b = <<Head(b)>> \o Tail(b)
    <2>1. SubSeq(b, 1, Len(b)) = <<b[1]>> \o SubSeq(b, 1 + 1, Len(b))
      BY <1>1, SubSeqRecursiveFirst
    <2> QED BY <1>1, <2>1, SubSeqFull, TailIsSubSeq
  <1>4. Append(a, Head(b)) = a \o <<Head(b)>>
    BY <1>1, AppendIsConcat
  <1>5. (a \o <<Head(b)>>) \o Tail(b) = a \o (<<Head(b)>> \o Tail(b))
    BY <1>1, <1>2, ConcatAssociative
  <1> QED BY <1>3, <1>4, <1>5

(* Where an event is: with the task that publishes it, on the bus, with the
   worker, or done; and a request schedules its event once. *)
Scheduled(r) == pc[r] \in {"committing", "done", "failed"}
OnBus(r)     == \E i \in DOMAIN queue : queue[i] = r

Places ==
    /\ \A r \in Req : r \in outbox \/ OnBus(r) \/ r = current \/ tried[r] # <<>>
                         => Scheduled(r)
    /\ \A r \in outbox : tried[r] = <<>> /\ current # r /\ ~OnBus(r)
    /\ \A i \in DOMAIN queue : /\ tried[queue[i]] = <<>> /\ current # queue[i]
                               /\ \A j \in DOMAIN queue : queue[i] = queue[j] => i = j

(* What the worker still has to call completes what it called. *)
Progress ==
    /\ current \in Req => /\ left # <<>>
                          /\ tried[current] \o left = Adapters(order[current].side)
    /\ \A r \in Req : r # current /\ tried[r] # <<>> => tried[r] = Adapters(order[r].side)

Tried == Places /\ Progress

(* A step that schedules at most the event of the request that takes it. *)
LEMMA RequestTried ==
  ASSUME IInv, Tried, NEW r \in Req,
         UNCHANGED <<queue, current, left, tried>>,
         \A q \in Req \ {r} : pc'[q] = pc[q] /\ order'[q] = order[q],
         Scheduled(r) => Scheduled(r)' /\ outbox' = outbox,
         pc[r] # "new" => order'[r] = order[r],
         outbox' = outbox \/ (outbox' = outbox \cup {r} /\ Scheduled(r)')
  PROVE  Tried'
  <1>1. ~Scheduled(r) => r \notin outbox /\ ~OnBus(r) /\ r # current /\ tried[r] = <<>>
    BY DEF Tried, Places
  <1>2. OnBus(r) => Scheduled(r)
    BY <1>1
  <1>3. Places'
    BY <1>1 DEF Tried, Places, Scheduled, OnBus
  <1>4. pc[r] = "new" => ~Scheduled(r)
    BY DEF Scheduled
  <1>5. Progress'
    BY <1>1, <1>4 DEF Tried, Progress
  <1> QED BY <1>3, <1>5 DEF Tried

(* The steps of a request, from its load to its end. *)
LEMMA StepTried ==
  ASSUME IInv, Tried, NEW r \in Req,
         (\E o \in Order : BuyLoads(r, o) \/ SellLoads(r, o)) \/ Step(r) \/ Fail(r)
  PROVE  Tried'
  <1> USE DEF Scheduled, Goto, Schedule, feedback
  <1>0. pc \in [Req -> {"new", "loaded", "written", "advising", "refreshing",
                        "committing", "done", "failed"}] /\ order \in [Req -> Order \cup {NoOrder}]
    BY DEF IInv, TypeOK
  <1>1. CASE \E o \in Order : BuyLoads(r, o) \/ SellLoads(r, o)
    <2>1. PICK o \in Order : BuyLoads(r, o) \/ SellLoads(r, o)
      BY <1>1
    <2>2. /\ pc[r] = "new" /\ order' = [order EXCEPT ![r] = o] /\ outbox' = outbox
          /\ UNCHANGED <<queue, current, left, tried>>
          /\ \E l \in {"loaded", "failed"} : pc' = [pc EXCEPT ![r] = l]
      BY <2>1 DEF BuyLoads, SellLoads, Load
    <2> QED BY <1>0, <2>2, RequestTried
  <1>2. CASE Write(r) \/ LogReads(r) \/ LogWrites(r) \/ Commit(r) \/ Fail(r)
    <2>1. /\ outbox' = outbox /\ order' = order
          /\ UNCHANGED <<queue, current, left, tried>>
          /\ \E l \in {"written", "advising", "refreshing", "done", "failed"} :
                 /\ pc' = [pc EXCEPT ![r] = l]
                 /\ pc[r] = "committing" => l \in {"done", "failed"}
          /\ pc[r] \notin {"done", "failed"}
      BY <1>2 DEF Write, LogReads, LogWrites, Commit, Fail, Ended
    <2> QED BY <1>0, <2>1, RequestTried
  <1>3. CASE NotLogged(r) \/ LogBreaks(r) \/ LogEnds(r)
    <2>1. /\ pc' = [pc EXCEPT ![r] = "committing"] /\ order' = order
          /\ UNCHANGED <<queue, current, left, tried>>
          /\ pc[r] \in {"written", "advising", "refreshing"}
          /\ outbox' = outbox \cup {r}
      BY <1>3 DEF NotLogged, LogBreaks, LogEnds
    <2> QED BY <1>0, <2>1, RequestTried
  <1> QED BY <1>1, <1>2, <1>3 DEF Step

(* The task of a request puts its event on the bus. *)
LEMMA PublishTried ==
  ASSUME IInv, Tried, NEW r \in Req, Publish(r)
  PROVE  Tried'
  <1>1. /\ queue \in Seq(Req) /\ queue' = Append(queue, r) /\ outbox' = outbox \ {r}
        /\ UNCHANGED <<pc, order, current, left, tried>> /\ r \in outbox
    BY DEF Publish, IInv, TypeOK
  <1>2. \A i \in DOMAIN queue' : \/ i \in DOMAIN queue /\ queue'[i] = queue[i]
                                 \/ i = Len(queue) + 1 /\ queue'[i] = r
    BY <1>1
  <1>3. ~OnBus(r) /\ tried[r] = <<>> /\ current # r /\ Scheduled(r)
    BY <1>1 DEF Tried, Places
  <1>4. \A q \in Req : OnBus(q)' => OnBus(q) \/ q = r
    BY <1>2 DEF OnBus
  <1>5. \A q \in Req : q \in outbox' => q \in outbox /\ q # r
    BY <1>1
  <1>6. \A i \in DOMAIN queue' : /\ tried'[queue'[i]] = <<>> /\ current' # queue'[i]
                                 /\ \A j \in DOMAIN queue' : queue'[i] = queue'[j] => i = j
    BY <1>1, <1>2, <1>3 DEF Tried, Places, OnBus
  <1>7. Places'
    BY <1>1, <1>3, <1>4, <1>5, <1>6 DEF Tried, Places, Scheduled, IInv, TypeOK
  <1> QED BY <1>1, <1>7 DEF Tried, Progress

(* The worker takes an event that no adapter has seen. *)
LEMMA TakeTried ==
  ASSUME FlowAssumption, IInv, Tried, Take
  PROVE  Tried'
  <1>1. /\ queue \in Seq(Req) /\ queue # <<>> /\ queue' = Tail(queue)
        /\ current' = Head(queue) /\ current = None
        /\ left' = Adapters(order[Head(queue)].side)
        /\ UNCHANGED <<pc, order, outbox, tried>>
    BY DEF Take, IInv, TypeOK, request
  <1>2. /\ Head(queue) \in Req /\ Head(queue) = queue[1] /\ 1 \in DOMAIN queue
        /\ \A i \in DOMAIN queue' : i + 1 \in DOMAIN queue /\ i \in Nat \ {0}
                                      /\ queue'[i] = queue[i + 1]
    <2>1. Head(queue) \in Req /\ Tail(queue) \in Seq(Req)
          /\ Len(Tail(queue)) = Len(queue) - 1
          /\ \A i \in 1 .. Len(Tail(queue)) : Tail(queue)[i] = queue[i + 1]
      BY <1>1, HeadTailProperties
    <2> QED BY <1>1, <2>1
  <1>3. \A q \in Req : OnBus(q)' => OnBus(q) /\ q # queue[1]
    <2> SUFFICES ASSUME NEW i \in DOMAIN queue' PROVE queue'[i] # queue[1] /\ i + 1 \in DOMAIN queue
                                                        /\ queue'[i] = queue[i + 1]
      BY DEF OnBus
    <2>1. i \in Nat \ {0} /\ i + 1 \in DOMAIN queue /\ queue'[i] = queue[i + 1]
      BY <1>2
    <2>2. queue[1] = queue[i + 1] => 1 = i + 1
      BY <1>2, <2>1 DEF Tried, Places
    <2> QED BY <2>1, <2>2
  <1>4. OnBus(queue[1]) /\ tried[queue[1]] = <<>>
    BY <1>2 DEF OnBus, Tried, Places
  <1>5. \A i \in DOMAIN queue' : /\ tried[queue'[i]] = <<>> /\ current' # queue'[i]
                                 /\ \A j \in DOMAIN queue' : queue'[i] = queue'[j] => i = j
    BY <1>1, <1>2 DEF Tried, Places
  <1>6. Places'
    <2>1. \A r \in Req : r \in outbox \/ OnBus(r)' \/ r = current' \/ tried[r] # <<>>
                            => Scheduled(r)
      BY <1>1, <1>2, <1>3, <1>4 DEF Tried, Places
    <2>2. \A r \in outbox : tried[r] = <<>> /\ current' # r /\ ~OnBus(r)'
      BY <1>1, <1>2, <1>3, <1>4 DEF Tried, Places, IInv, TypeOK
    <2> QED BY <1>1, <1>5, <2>1, <2>2 DEF Places, Scheduled
  <1>7. Progress'
    <2>1. left' # <<>> /\ left' \in Seq(Adapter)
      BY <1>1, AdaptersType DEF Adapters
    <2>2. <<>> \o left' = left'
      BY <2>1, ConcatEmptySeq
    <2>3. \A r \in Req : tried[r] # <<>> => tried[r] = Adapters(order[r].side)
      BY <1>1 DEF Tried, Progress, FlowAssumption
    <2> QED BY <1>1, <1>2, <1>4, <2>1, <2>2, <2>3 DEF Progress
  <1> QED BY <1>6, <1>7 DEF Tried

(* An adapter returned or raised: the next one is called, and after the last
   one the event is done. *)
LEMMA EndsTried ==
  ASSUME FlowAssumption, IInv, Tried, left # <<>>, AdapterEnds
  PROVE  Tried'
  <1>1. /\ current \in Req /\ left \in Seq(Adapter) /\ tried \in [Req -> Seq(Adapter)]
        /\ tried' = [tried EXCEPT ![current] = Append(tried[current], Head(left))]
        /\ left' = Tail(left) /\ current' = IF Len(left) = 1 THEN None ELSE current
        /\ UNCHANGED <<pc, order, outbox, queue>>
    BY DEF IInv, TypeOK, Busy, AdapterEnds, request
  <1>2. /\ Tail(left) \in Seq(Adapter) /\ Len(Tail(left)) = Len(left) - 1
        /\ Head(left) \in Adapter
    BY <1>1, HeadTailProperties
  <1>3. Len(left) = 1 <=> Tail(left) = <<>>
    <2> DEFINE rest == Tail(left)
    <2>1. rest \in Seq(Adapter) /\ Len(rest) = Len(left) - 1 /\ Len(left) \in Nat
      BY <1>1, <1>2
    <2> HIDE DEF rest
    <2>2. Len(rest) = 0 <=> rest = <<>>
      BY <2>1, EmptySeq
    <2>3. Len(left) = 1 <=> rest = <<>>
      BY <2>1, <2>2
    <2> QED BY <2>3 DEF rest
  <1>4. tried'[current] \o Tail(left) = Adapters(order[current].side)
    <2>1. tried'[current] = Append(tried[current], Head(left))
      BY <1>1
    <2>2. Append(tried[current], Head(left)) \o Tail(left) = tried[current] \o left
      BY <1>1, HeadMoves
    <2> QED BY <1>1, <2>1, <2>2 DEF Tried, Progress
  <1>5. tried'[current] \in Seq(Adapter)
    BY <1>1, <1>2
  <1>6. Tail(left) = <<>> => tried'[current] = Adapters(order[current].side)
    BY <1>4, <1>5, ConcatEmptySeq
  <1>7. \A r \in Req : r # current => tried'[r] = tried[r]
    BY <1>1
  <1>8. Progress'
    <2>1. current' \in Req => current' = current /\ Tail(left) # <<>>
      BY <1>1, <1>3 DEF FlowAssumption
    <2>2. current' # current => Tail(left) = <<>>
      BY <1>1, <1>3
    <2> QED BY <1>1, <1>4, <1>6, <1>7, <2>1, <2>2 DEF Tried, Progress
  <1>9. Places'
    <2>1. Scheduled(current) /\ current \notin outbox
          /\ \A i \in DOMAIN queue : queue[i] # current /\ queue[i] \in Req
      BY <1>1 DEF Tried, Places, IInv, TypeOK
    <2>2. current' = current \/ current' = None
      BY <1>1
    <2>3. \A r \in Req : OnBus(r)' <=> OnBus(r)
      BY <1>1 DEF OnBus
    <2>4. \A r \in outbox : r \in Req /\ r # None
      BY DEF IInv, TypeOK, FlowAssumption
    <2>5. \A i \in DOMAIN queue : tried'[queue[i]] = <<>> /\ current' # queue[i]
      BY <1>7, <2>1, <2>2 DEF Tried, Places, FlowAssumption
    <2>6. \A r \in outbox : tried'[r] = <<>> /\ current' # r /\ ~OnBus(r)'
      BY <1>7, <2>1, <2>2, <2>3, <2>4 DEF Tried, Places, FlowAssumption
    <2>7. \A r \in Req : r \in outbox \/ OnBus(r)' \/ r = current' \/ tried'[r] # <<>>
                            => Scheduled(r)
      BY <1>7, <2>1, <2>2, <2>3 DEF Tried, Places, FlowAssumption
    <2> QED BY <1>1, <2>5, <2>6, <2>7 DEF Tried, Places, Scheduled
  <1> QED BY <1>8, <1>9 DEF Tried

(* Steps that move no event. *)
LEMMA StillTried ==
  ASSUME Tried, UNCHANGED <<pc, order, outbox, queue, current, left, tried>>
  PROVE  Tried'
  BY DEF Tried, Places, Progress, Scheduled, OnBus

(* Every step keeps where the events are. *)
LEMMA NextTried ==
  ASSUME FlowAssumption, IInv, Tried, [Next]_vars
  PROVE  Tried'
  <1>1. CASE \E r \in Req : \/ \E o \in Order : BuyLoads(r, o) \/ SellLoads(r, o)
                            \/ Step(r) \/ Fail(r)
    BY <1>1, StepTried
  <1>2. CASE \E r \in Req : Publish(r)
    BY <1>2, PublishTried
  <1>3. CASE Take
    BY <1>3, TakeTried
  <1>4. CASE ReadAdvice \/ UNCHANGED vars
    BY <1>4, StillTried DEF ReadAdvice, vars, request, feedback
  <1>5. CASE AdapterReturns \/ AdapterRaises
    BY <1>5, EndsTried DEF AdapterReturns, AdapterRaises
  <1> QED BY <1>1, <1>2, <1>3, <1>4, <1>5 DEF Next, Worker

(* Initially no event is anywhere. *)
LEMMA InitTried == FlowAssumption /\ Init => Tried
  BY DEF Init, FlowAssumption, Tried, Places, Progress, Scheduled, OnBus

(* Each scheduled event is handed to every adapter of its action once and in
   order, whatever raises and however many requests overlap. *)
THEOREM EveryAdapterTriedAlways == Spec => []EveryAdapterTried
  <1>1. Tried => EveryAdapterTried
    BY DEF Tried, Progress, EveryAdapterTried
  <1> QED BY <1>1, InitTried, NextTried, FlowAssumption, Invariance, PTL DEF Spec

(* Whether a request's event is on its way to the adapters, or has been handed
   to all of them. *)
Kept(r) == r \in outbox \/ OnBus(r) \/ r = current \/ tried[r] = Adapters(order[r].side)

(* No step loses an event. *)
EventsKept == \A r \in Req : Kept(r) => Kept(r)'

(* The event of a trade that is to be committed, of one that succeeded and of a
   logged decision is on its way or was handed to every adapter. *)
SuccessIsFollowed ==
    \A r \in Req : pc[r] \in {"committing", "done"} \/ r \in logged => Kept(r)

(* A request that scheduled its event keeps the order that it is of. *)
LEMMA ScheduledOrder ==
  ASSUME IInv, Next, NEW r \in Req, Scheduled(r)
  PROVE  order'[r] = order[r] /\ Scheduled(r)'
  <1>0. pc \in [Req -> {"new", "loaded", "written", "advising", "refreshing",
                        "committing", "done", "failed"}] /\ order \in [Req -> Order \cup {NoOrder}]
    BY DEF IInv, TypeOK
  <1>1. ASSUME NEW q \in Req, NEW o \in Order, BuyLoads(q, o) \/ SellLoads(q, o)
        PROVE  order'[r] = order[r] /\ Scheduled(r)'
    <2>1. /\ pc[q] = "new" /\ order' = [order EXCEPT ![q] = o]
          /\ \E l \in {"loaded", "failed"} : pc' = [pc EXCEPT ![q] = l]
      BY <1>1 DEF BuyLoads, SellLoads, Load, Goto
    <2> QED BY <1>0, <2>1 DEF Scheduled
  <1>2. ASSUME NEW q \in Req, Step(q) \/ Fail(q) PROVE order'[r] = order[r] /\ Scheduled(r)'
    <2>1. /\ order' = order
          /\ \E l \in {"written", "advising", "refreshing", "committing", "done", "failed"} :
                 /\ pc' = [pc EXCEPT ![q] = l]
                 /\ l \in {"written", "advising", "refreshing"} => ~Scheduled(q)
      BY <1>2 DEF Step, Write, NotLogged, LogReads, LogBreaks, LogWrites, LogEnds, Commit, Fail,
         Goto, Scheduled
    <2> QED BY <1>0, <2>1 DEF Scheduled
  <1>3. CASE (\E q \in Req : Publish(q)) \/ Worker
    BY <1>3 DEF Publish, Worker, Take, ReadAdvice, AdapterReturns, AdapterRaises,
       AdapterEnds, request, Scheduled
  <1> QED BY <1>1, <1>2, <1>3 DEF Next

(* An event goes from the task to the bus, from the bus to the worker, and is
   not let go before every adapter was tried. *)
LEMMA KeptStep ==
  ASSUME FlowAssumption, IInv, Tried, [Next]_vars
  PROVE  EventsKept
  <1>1. Tried'
    BY NextTried
  <1> SUFFICES ASSUME NEW r \in Req, Kept(r), Next PROVE Kept(r)'
    BY DEF EventsKept, Kept, OnBus, vars, request, feedback
  <1>2. Scheduled(r)
    <2>1. Adapters(order[r].side) # <<>>
      BY DEF Adapters
    <2> QED BY <2>1 DEF Kept, Tried, Places
  <1>3. order'[r] = order[r]
    BY <1>2, ScheduledOrder
  <1>4. CASE UNCHANGED <<queue, current, tried>> /\ outbox \subseteq outbox'
    BY <1>3, <1>4 DEF Kept, OnBus
  <1>5. ASSUME NEW q \in Req, Publish(q) PROVE Kept(r)'
    <2>1. /\ queue \in Seq(Req) /\ queue' = Append(queue, q) /\ outbox' = outbox \ {q}
          /\ UNCHANGED <<current, tried>>
      BY <1>5 DEF Publish, IInv, TypeOK
    <2>2. /\ \A i \in DOMAIN queue : i \in DOMAIN queue' /\ queue'[i] = queue[i]
          /\ Len(queue) + 1 \in DOMAIN queue' /\ queue'[Len(queue) + 1] = q
      BY <2>1
    <2> QED BY <1>3, <2>1, <2>2 DEF Kept, OnBus
  <1>6. CASE Take
    <2>1. /\ queue \in Seq(Req) /\ queue # <<>> /\ queue' = Tail(queue)
          /\ current' = Head(queue) /\ current = None /\ UNCHANGED <<outbox, tried>>
      BY <1>6 DEF Take, IInv, TypeOK, request
    <2>2. ASSUME NEW i \in DOMAIN queue, i # 1
          PROVE  i - 1 \in DOMAIN queue' /\ queue'[i - 1] = queue[i]
      <3>1. /\ Tail(queue) \in Seq(Req) /\ Len(Tail(queue)) = Len(queue) - 1
            /\ \A j \in 1 .. Len(Tail(queue)) : Tail(queue)[j] = queue[j + 1]
        BY <2>1, HeadTailProperties
      <3> QED BY <2>1, <2>2, <3>1
    <2>3. OnBus(r) => OnBus(r)' \/ r = current'
      <3>1. ASSUME NEW i \in DOMAIN queue, queue[i] = r PROVE OnBus(r)' \/ r = current'
        <4>1. CASE i = 1
          BY <2>1, <3>1, <4>1
        <4>2. CASE i # 1
          <5>1. i - 1 \in DOMAIN queue' /\ queue'[i - 1] = r
            BY <2>2, <3>1, <4>2
          <5> QED BY <5>1 DEF OnBus
        <4> QED BY <4>1, <4>2
      <3> QED BY <3>1 DEF OnBus
    <2>4. r # None
      BY DEF FlowAssumption
    <2> QED BY <1>3, <2>1, <2>3, <2>4 DEF Kept
  <1>7. ASSUME AdapterEnds, left # <<>> PROVE Kept(r)'
    <2>1. /\ current \in Req /\ tried \in [Req -> Seq(Adapter)] /\ Head(left) \in Adapter
          /\ tried' = [tried EXCEPT ![current] = Append(tried[current], Head(left))]
          /\ UNCHANGED <<outbox, queue>>
      BY <1>7, HeadTailProperties DEF IInv, TypeOK, Busy, AdapterEnds, request
    <2>2. CASE r = current
      <3>1. tried'[r] # <<>>
        BY <2>1, <2>2
      <3>2. r # current' => tried'[r] = Adapters(order'[r].side)
        BY <1>1, <3>1 DEF Tried, Progress
      <3> QED BY <3>2 DEF Kept
    <2>3. CASE r # current
      BY <1>3, <2>1, <2>3 DEF Kept, OnBus
    <2> QED BY <2>2, <2>3
  <1>8. ASSUME NEW q \in Req,
               (\E o \in Order : BuyLoads(q, o) \/ SellLoads(q, o)) \/ Step(q) \/ Fail(q)
        PROVE  UNCHANGED <<queue, current, tried>> /\ outbox \subseteq outbox'
    BY <1>8 DEF BuyLoads, SellLoads, Load, Step, Write, NotLogged, LogReads, LogBreaks,
       LogWrites, LogEnds, Commit, Fail, Schedule, feedback
  <1>9. ReadAdvice => UNCHANGED <<queue, current, tried>> /\ outbox \subseteq outbox'
    BY DEF ReadAdvice, request
  <1> QED BY <1>4, <1>5, <1>6, <1>7, <1>8, <1>9
          DEF Next, Worker, AdapterReturns, AdapterRaises

(* No event is lost between the request and the last adapter: a scheduled one
   is with its task, on the bus or with the worker until every adapter was
   tried, and each trade that succeeded and each logged decision has one.  With
   fairness, which only TLC checks, this is FeedbackFollows. *)
THEOREM EventsAreKept == Spec => []SuccessIsFollowed /\ [][EventsKept]_vars
  <1>1. Init => SuccessIsFollowed
    BY DEF Init, SuccessIsFollowed
  <1>2. ASSUME FlowAssumption, IInv, Tried, SuccessIsFollowed, [Next]_vars
        PROVE  SuccessIsFollowed' /\ EventsKept
    <2>1. EventsKept
      BY <1>2, KeptStep
    <2>2. ASSUME NEW r \in Req, ~Kept(r)', UNCHANGED vars
                 \/ \E q \in Req : \/ \E o \in Order : BuyLoads(q, o) \/ SellLoads(q, o)
                                   \/ Step(q) \/ Fail(q) \/ Publish(q)
                 \/ Worker
          PROVE  pc'[r] \notin {"committing", "done"} /\ r \notin logged'
      <3>1. /\ pc[r] \notin {"committing", "done"} /\ r \notin logged /\ r \notin outbox'
            /\ pc \in [Req -> {"new", "loaded", "written", "advising", "refreshing",
                               "committing", "done", "failed"}]
        BY <1>2, <2>1, <2>2 DEF SuccessIsFollowed, EventsKept, Kept, IInv, TypeOK
      <3>2. ASSUME NEW q \in Req, NEW o \in Order, BuyLoads(q, o) \/ SellLoads(q, o)
            PROVE  logged' = logged /\ \E l \in {"loaded", "failed"} : pc' = [pc EXCEPT ![q] = l]
        BY <3>2 DEF BuyLoads, SellLoads, Load, Goto
      <3>3. ASSUME NEW q \in Req, Step(q) \/ Fail(q)
            PROVE  /\ logged' = logged \/ (logged' = logged \cup {q} /\ q \in outbox')
                   /\ \E l \in {"written", "advising", "refreshing", "committing", "done", "failed"} :
                         /\ pc' = [pc EXCEPT ![q] = l]
                         /\ l = "committing" => q \in outbox'
                         /\ l = "done" => pc[q] = "committing"
        BY <3>3 DEF Step, Write, NotLogged, LogReads, LogBreaks, LogWrites, LogEnds, Commit, Fail,
           Goto, Schedule
      <3>4. ASSUME UNCHANGED vars \/ (\E q \in Req : Publish(q)) \/ Worker
            PROVE  UNCHANGED <<pc, logged>>
        BY <3>4 DEF Publish, Worker, Take, ReadAdvice, AdapterReturns, AdapterRaises,
           AdapterEnds, request, vars
      <3> QED BY <2>2, <3>1, <3>2, <3>3, <3>4
    <2> QED BY <1>2, <2>1, <2>2 DEF SuccessIsFollowed, Next
  <1> QED BY <1>1, <1>2, InitTried, NextTried, FlowAssumption, Invariance, PTL DEF Spec

(* A request reports success only when its trade is committed.  So adapters act
   on a trade that is not committed, against the docstring that
   FeedbackOfCommitted quotes, only before the caller's commit or when the
   request failed, and never for a decision that was logged. *)
SuccessIsDurable == \A r \in Req : pc[r] = "done" => r \in durable
EarlyFeedback ==
    \A r \in Req : tried[r] # <<>> /\ r \notin durable =>
        pc[r] \in {"committing", "failed"} /\ r \notin logged

(* The docstring's sentence holds of every request that succeeds. *)
THEOREM EarlyFeedbackOnly == Spec => [](SuccessIsDurable /\ EarlyFeedback)
  <1>1. Init => SuccessIsDurable
    BY DEF Init, SuccessIsDurable
  <1>2. ASSUME IInv, SuccessIsDurable, [Next]_vars PROVE SuccessIsDurable'
    <2>0. pc \in [Req -> {"new", "loaded", "written", "advising", "refreshing",
                          "committing", "done", "failed"}]
      BY <1>2 DEF IInv, TypeOK
    <2>1. ASSUME NEW q \in Req, NEW o \in Order, BuyLoads(q, o) \/ SellLoads(q, o)
          PROVE  durable' = durable /\ \E l \in {"loaded", "failed"} : pc' = [pc EXCEPT ![q] = l]
      BY <2>1 DEF BuyLoads, SellLoads, Load, Goto
    <2>2. ASSUME NEW q \in Req, Step(q) \/ Fail(q)
          PROVE  /\ durable \subseteq durable'
                 /\ \E l \in {"written", "advising", "refreshing", "committing", "done", "failed"} :
                       /\ pc' = [pc EXCEPT ![q] = l]
                       /\ l = "done" => q \in durable'
      BY <2>2 DEF Step, Write, NotLogged, LogReads, LogBreaks, LogWrites, LogEnds, Commit, Fail,
         Goto, Committed
    <2>3. ASSUME UNCHANGED vars \/ (\E q \in Req : Publish(q)) \/ Worker
          PROVE  UNCHANGED <<pc, durable>>
      BY <2>3 DEF Publish, Worker, Take, ReadAdvice, AdapterReturns, AdapterRaises,
         AdapterEnds, request, vars
    <2> QED BY <1>2, <2>0, <2>1, <2>2, <2>3 DEF SuccessIsDurable, Next
  <1>3. IInv /\ Tried /\ SuccessIsDurable => EarlyFeedback
    BY DEF EarlyFeedback, Tried, Places, Scheduled, SuccessIsDurable, IInv, LoggedIsDurable
  <1> QED BY <1>1, <1>2, <1>3, InitTried, NextTried, FlowAssumption, Invariance, PTL DEF Spec

-----------------------------------------------------------------------------
(* The refinement.  A request goes on only when it loaded none or one open
   position, so that Held is the quantity of that one or nothing for as long as
   no other request runs. *)

\* Nothing is held where no position is open,
LEMMA HeldNone == OpenPositions = {} => Held = 0
  <1> SUFFICES ASSUME OpenPositions = {} PROVE Held = 0
    OBVIOUS
  <1> DEFINE f == [S \in SUBSET {} |-> 0]
  <1>1. f = [S \in SUBSET {} |->
               IF S = {} THEN 0
               ELSE LET y == CHOOSE y \in S : TRUE IN pos[y].qty + f[S \ {y}]]
    OBVIOUS
  <1> QED BY <1>1 DEF Held, MapThenSumSet, MapThenFoldSet

\* and what its quantity says where one is.
LEMMA HeldOne ==
  ASSUME NEW p \in Req, pos[p].qty \in Nat, OpenPositions = {p}
  PROVE  Held = pos[p].qty
  <1> DEFINE f == [S \in SUBSET {p} |-> IF S = {} THEN 0 ELSE pos[p].qty]
             Sum(g, S) == IF S = {} THEN 0
                          ELSE LET y == CHOOSE y \in S : TRUE IN pos[y].qty + g[S \ {y}]
  <1>1. ASSUME NEW g, g = [S \in SUBSET {p} |-> Sum(g, S)] PROVE g[{p}] = pos[p].qty
    <2>1. g[{}] = 0
      BY <1>1
    <2>2. (CHOOSE y \in {p} : TRUE) = p
      OBVIOUS
    <2>3. g[{p}] = pos[p].qty + g[{p} \ {p}]
      BY <1>1, <2>2
    <2> QED BY <2>1, <2>3
  <1>2. f = [S \in SUBSET {p} |-> Sum(f, S)]
    <2>1. ASSUME NEW S \in SUBSET {p} PROVE f[S] = Sum(f, S)
      <3>1. CASE S = {}
        BY <3>1
      <3>2. CASE S = {p}
        <4>1. (CHOOSE y \in S : TRUE) = p
          BY <3>2
        <4>2. f[S \ {p}] = 0
          BY <3>2
        <4> QED BY <3>2, <4>1, <4>2
      <3> QED BY <3>1, <3>2
    <2> QED BY <2>1
  <1>3. Held = (CHOOSE g : g = [S \in SUBSET {p} |-> Sum(g, S)])[{p}]
    BY DEF Held, MapThenSumSet, MapThenFoldSet
  <1> HIDE DEF f, Sum
  <1> QED BY <1>1, <1>2, <1>3

HeldIs == /\ OpenPositions = {} => Held = 0
          /\ \A p \in Req : pos[p].qty \in Nat /\ OpenPositions = {p} => Held = pos[p].qty

\* Both hold before a step and after it.
LEMMA HeldIsAlways == HeldIs /\ HeldIs'
  <1>1. HeldIs
    BY HeldNone, HeldOne DEF HeldIs
  <1> QED BY <1>1, PTL

\* A request has its order from when it loads, and commits its trade once.
Waiting ==
    \A r \in Req :
        /\ pc[r] = "new" => at[r] = r
        /\ pc[r] # "new" => order[r] \in Order
        /\ pc[r] \in {"new", "loaded", "written", "advising"} => r \notin durable

\* What a request computed when it loaded is still right.
Computed(r) ==
    \/ order[r].side = "BUY" /\ OpenPositions = {} /\ at[r] = r /\ new[r] = order[r].qty
    \/ \E p \in Req :
          /\ OpenPositions = {p} /\ at[r] = p
          /\ \/ order[r].side = "BUY" /\ new[r] = pos[p].qty + order[r].qty
             \/ /\ order[r].side = "SELL" /\ order[r].qty <= pos[p].qty
                /\ new[r] = pos[p].qty - order[r].qty

\* Requests that run beside each other have met; what one that met no other
\* has computed is still right, however many positions others opened before.
Meets  == \A q, r \in Running : q # r => r \in met
Lone   == \A r \in Running \ met : r \notin durable => Computed(r)
MetInv == IInv /\ Waiting /\ Meets /\ Lone

\* The commit of a trade computed from what is held is a move of the ledger.
LEMMA CommittedMoves ==
  ASSUME FlowAssumption, IInv, NEW r \in Req, order[r] \in Order, r \notin durable,
         Computed(r), Committed(r), order' = order
  PROVE  Ledger!Next
  <1> DEFINE o == order[r]
  <1>1. /\ o.qty \in Qty /\ o.qty \in Nat \ {0} /\ o.side \in Sides
        /\ new[r] \in Nat /\ at[r] \in Req
        /\ \A p \in Req : pos[p].qty \in Nat
        /\ pos \in [Req -> [status : {"none", "open", "closed"}, qty : Nat]]
    BY OrderType DEF Order, IInv, TypeOK
  <1>2. /\ pos'[at[r]].qty = new[r]
        /\ pos'[at[r]].status = IF new[r] = 0 THEN "closed"
                                ELSE IF at[r] = r THEN "open" ELSE pos[at[r]].status
        /\ \A p \in Req \ {at[r]} : pos'[p] = pos[p]
    BY <1>1 DEF Committed
  <1>3. durable' = durable \cup {r}
    BY DEF Committed
  <1>4. /\ Moved[r] = 0
        /\ Moved' = [Moved EXCEPT ![r] = IF o.side = "BUY" THEN o.qty ELSE -o.qty]
    BY <1>3 DEF Moved
  <1> HIDE DEF o
  <1>5. CASE o.side = "BUY" /\ OpenPositions = {} /\ at[r] = r /\ new[r] = o.qty
    <2>1. OpenPositions' = {r}
      BY <1>1, <1>2, <1>5 DEF OpenPositions
    <2>2. Held = 0 /\ Held' = o.qty
      BY <1>1, <1>2, <1>5, <2>1, HeldIsAlways DEF HeldIs
    <2>3. Ledger!Move(r, o.qty)
      BY <1>1, <1>4, <1>5, <2>2 DEF Ledger!Move
    <2> QED BY <1>1, <2>3 DEF Ledger!Next
  <1>6. ASSUME NEW p \in Req, OpenPositions = {p}, at[r] = p,
               o.side = "BUY", new[r] = pos[p].qty + o.qty
        PROVE  Ledger!Next
    <2>1. OpenPositions' = {p}
      BY <1>1, <1>2, <1>6 DEF OpenPositions
    <2>2. Held = pos[p].qty /\ Held' = pos[p].qty + o.qty
      BY <1>1, <1>2, <1>6, <2>1, HeldIsAlways DEF HeldIs
    <2>3. Ledger!Move(r, o.qty)
      BY <1>1, <1>4, <1>6, <2>2 DEF Ledger!Move
    <2> QED BY <1>1, <2>3 DEF Ledger!Next
  <1>7. ASSUME NEW p \in Req, OpenPositions = {p}, at[r] = p, o.side = "SELL",
               o.qty <= pos[p].qty, new[r] = pos[p].qty - o.qty
        PROVE  Ledger!Next
    <2>1. OpenPositions' = IF new[r] = 0 THEN {} ELSE {p}
      BY <1>1, <1>2, <1>7 DEF OpenPositions
    <2>2. Held = pos[p].qty /\ Held' = pos[p].qty - o.qty
      BY <1>1, <1>2, <1>7, <2>1, HeldIsAlways DEF HeldIs
    <2>3. Ledger!Move(r, -o.qty)
      BY <1>1, <1>4, <1>7, <2>2 DEF Ledger!Move
    <2> QED BY <1>1, <2>3 DEF Ledger!Next
  <1> QED BY <1>5, <1>6, <1>7 DEF Computed, o

\* A later step of a request writes nothing to the positions,
Quiet(r) ==
    /\ r \in Running
    /\ \E l \in {"written", "advising", "refreshing", "committing", "done", "failed"} :
          /\ pc' = [pc EXCEPT ![r] = l]
          /\ l \in {"written", "advising"} => pc[r] \in {"loaded", "written"}
    /\ UNCHANGED <<pos, durable, order, at, new>>

\* or it commits the trade.
Commits(r) ==
    /\ r \in Running /\ r \notin durable
    /\ Committed(r)
    /\ \E l \in {"refreshing", "done"} : pc' = [pc EXCEPT ![r] = l]
    /\ UNCHANGED <<order, at, new>>

\* Every step is one of these, loads an order, or is the worker's.
LEMMA NextShape ==
  ASSUME IInv, Waiting, Next
  PROVE  \/ \E r \in Req, o \in Order : BuyLoads(r, o) \/ SellLoads(r, o)
         \/ \E r \in Req : Quiet(r) \/ Commits(r)
         \/ UNCHANGED <<pc, pos, durable, order, at, new>>
  <1> USE DEF Running, Ended, Goto
  <1>1. ASSUME NEW r \in Req, Step(r) PROVE Quiet(r) \/ Commits(r)
    <2>1. CASE Write(r) \/ NotLogged(r) \/ LogReads(r) \/ LogBreaks(r)
      BY <2>1 DEF Write, NotLogged, LogReads, LogBreaks, Quiet
    <2>2. CASE LogWrites(r)
      BY <2>2 DEF LogWrites, Commits, Waiting
    <2>3. CASE LogEnds(r)
      BY <2>3 DEF LogEnds, Quiet
    <2>4. CASE Commit(r)
      <3>1. /\ r \in Running /\ pc' = [pc EXCEPT ![r] = "done"]
            /\ UNCHANGED <<order, at, new>>
        BY <2>4 DEF Commit
      <3>2. CASE r \notin durable /\ Committed(r)
        BY <3>1, <3>2 DEF Commits
      <3>3. CASE UNCHANGED <<pos, durable>>
        BY <3>1, <3>3 DEF Quiet
      <3> QED BY <2>4, <3>2, <3>3 DEF Commit
    <2> QED BY <1>1, <2>1, <2>2, <2>3, <2>4 DEF Step
  <1>2. ASSUME NEW r \in Req, Fail(r) PROVE Quiet(r)
    BY <1>2 DEF Fail, Quiet
  <1>3. ASSUME (\E r \in Req : Publish(r)) \/ Worker
        PROVE  UNCHANGED <<pc, pos, durable, order, at, new>>
    BY <1>3 DEF Publish, Worker, Take, ReadAdvice, AdapterReturns, AdapterRaises,
       AdapterEnds, request
  <1> QED BY <1>1, <1>2, <1>3 DEF Next

\* Waiting is kept by each.
LEMMA WaitingStep ==
  ASSUME FlowAssumption, IInv, Waiting, [Next]_vars
  PROVE  Waiting'
  <1> USE DEF Waiting, IInv, TypeOK
  <1>1. ASSUME NEW r \in Req, NEW o \in Order, BuyLoads(r, o) \/ SellLoads(r, o)
        PROVE  Waiting'
    <2>1. /\ order' = [order EXCEPT ![r] = o] /\ durable' = durable /\ pc[r] = "new"
      BY <1>1 DEF BuyLoads, SellLoads, Load
    <2>2. \E l \in {"loaded", "failed"} : pc' = [pc EXCEPT ![r] = l]
      BY <1>1 DEF BuyLoads, SellLoads, Goto
    <2>3. \A q \in Req \ {r} : at'[q] = at[q]
      BY <1>1 DEF BuyLoads, SellLoads
    <2> QED BY <2>1, <2>2, <2>3
  <1>2. ASSUME NEW r \in Req, Quiet(r) PROVE Waiting'
    BY <1>2 DEF Quiet, Running, Ended
  <1>3. ASSUME NEW r \in Req, Commits(r) PROVE Waiting'
    BY <1>3 DEF Commits, Committed, Running, Ended
  <1>4. CASE UNCHANGED <<pc, pos, durable, order, at, new>>
    BY <1>4
  <1>5. CASE UNCHANGED vars
    BY <1>5 DEF vars, request
  <1> QED BY <1>1, <1>2, <1>3, <1>4, <1>5, NextShape

\* A request that loads computes from what is held.
LEMMA LoadComputes ==
  ASSUME IInv, Waiting, NEW r \in Req, NEW o \in Order, BuyLoads(r, o) \/ SellLoads(r, o)
  PROVE  /\ UNCHANGED <<pos, durable>>
         /\ order' = [order EXCEPT ![r] = o] /\ r \notin durable
         /\ pc' = [pc EXCEPT ![r] = "failed"] \/ Computed(r)'
         /\ \E l \in {"loaded", "failed"} : pc' = [pc EXCEPT ![r] = l]
         /\ \A q \in Req \ {r} : at'[q] = at[q] /\ new'[q] = new[q]
  <1>1. /\ pc[r] = "new" /\ at[r] = r /\ r \notin durable /\ order'[r] = o
        /\ order' = [order EXCEPT ![r] = o] /\ UNCHANGED <<pos, durable>>
        /\ OpenPositions' = OpenPositions
    BY DEF BuyLoads, SellLoads, Load, Waiting, IInv, TypeOK, OpenPositions
  <1>2. at \in [Req -> Req] /\ new \in [Req -> Nat]
    BY DEF IInv, TypeOK
  <1>3. CASE pc' = [pc EXCEPT ![r] = "failed"] /\ UNCHANGED <<at, new>>
    BY <1>1, <1>3
  <1>4. ASSUME OpenPositions = {}, o.side = "BUY", at' = at,
               new' = [new EXCEPT ![r] = o.qty], Goto(r, "loaded")
        PROVE  Computed(r)' /\ \A q \in Req \ {r} : at'[q] = at[q] /\ new'[q] = new[q]
    BY <1>1, <1>2, <1>4 DEF Computed
  <1>5. ASSUME NEW p \in Req, OpenPositions = {p}, at' = [at EXCEPT ![r] = p],
               \/ o.side = "BUY" /\ new' = [new EXCEPT ![r] = pos[p].qty + o.qty]
               \/ /\ o.side = "SELL" /\ o.qty <= pos[p].qty
                  /\ new' = [new EXCEPT ![r] = pos[p].qty - o.qty]
        PROVE  Computed(r)' /\ \A q \in Req \ {r} : at'[q] = at[q] /\ new'[q] = new[q]
    BY <1>1, <1>2, <1>5 DEF Computed
  <1>6. CASE BuyLoads(r, o)
    BY <1>1, <1>3, <1>4, <1>5, <1>6 DEF BuyLoads, Goto
  <1>7. CASE SellLoads(r, o)
    BY <1>1, <1>3, <1>5, <1>7 DEF SellLoads, Goto
  <1> QED BY <1>6, <1>7

\* What a request that met no other has computed stays right, and the commit of
\* such a request is the only step but those of the others that moves anything.
LEMMA MetStep ==
  ASSUME FlowAssumption, MetInv, [MetNext]_<<vars, met>>
  PROVE  MetInv' /\ [(durable' \ durable) \cap met' = {} => Ledger!Next]_<<Held, Moved>>
  <1> DEFINE Ok   == (durable' \ durable) \cap met' = {} => Ledger!Next
             Goal == Lone' /\ [Ok]_<<Held, Moved>>
  <1>1. IInv' /\ Waiting'
    BY NextInv, WaitingStep DEF MetInv, MetNext, vars
  <1>2. pos' = pos => Held' = Held /\ OpenPositions' = OpenPositions
    <2> SUFFICES ASSUME pos' = pos PROVE Held' = Held /\ OpenPositions' = OpenPositions
      OBVIOUS
    <2>1. OpenPositions' = OpenPositions
      BY DEF OpenPositions
    <2> QED BY <2>1 DEF Held, MapThenSumSet, MapThenFoldSet
  <1>3. durable' = durable /\ order' = order => Moved' = Moved
    BY DEF Moved
  <1>4. Meets' /\ met \subseteq met'
    <2>1. CASE met' = met \cup {r \in Running' : Running' # {r}}
      BY <2>1 DEF Meets
    <2>2. CASE UNCHANGED <<vars, met>>
      BY <2>2 DEF MetInv, Meets, Running, Ended, vars, request
    <2> QED BY <2>1, <2>2 DEF MetNext
  \* A step that commits nothing, and lets no request run that did not.
  <1>5. ASSUME UNCHANGED <<pos, durable, order, at, new>>, Running' \subseteq Running
        PROVE  Goal
    <2>1. Lone'
      BY <1>2, <1>4, <1>5 DEF MetInv, Lone, Computed
    <2> QED BY <1>2, <1>3, <1>5, <2>1
  <1>6. ASSUME NEW r \in Req, NEW o \in Order, BuyLoads(r, o) \/ SellLoads(r, o)
        PROVE  Goal
    <2>1. /\ UNCHANGED <<pos, durable>>
          /\ order' = [order EXCEPT ![r] = o] /\ r \notin durable
          /\ pc' = [pc EXCEPT ![r] = "failed"] \/ Computed(r)'
          /\ \E l \in {"loaded", "failed"} : pc' = [pc EXCEPT ![r] = l]
          /\ \A q \in Req \ {r} : at'[q] = at[q] /\ new'[q] = new[q]
      BY <1>6, LoadComputes DEF MetInv
    <2>2. /\ \A q \in Req \ {r} : order'[q] = order[q] /\ pc'[q] = pc[q]
          /\ pc' = [pc EXCEPT ![r] = "failed"] => pc'[r] = "failed"
      BY <2>1 DEF MetInv, IInv, TypeOK
    <2>3. Moved' = Moved
      BY <2>1, <2>2 DEF Moved
    <2>4. ASSUME NEW q \in Running' \ met', q \notin durable' PROVE Computed(q)'
      <3>1. CASE q = r
        BY <2>1, <2>2, <2>4, <3>1 DEF Running, Ended
      <3>2. CASE q # r
        <4>1. q \in Req /\ q \in Running /\ Computed(q)
          BY <1>4, <2>1, <2>2, <2>4, <3>2 DEF Running, Ended, MetInv, Lone
        <4> QED BY <1>2, <2>1, <2>2, <3>2, <4>1 DEF Computed
      <3> QED BY <3>1, <3>2
    <2> QED BY <1>2, <2>1, <2>3, <2>4 DEF Lone
  <1>7. ASSUME NEW r \in Req, Quiet(r) PROVE Goal
    <2>1. UNCHANGED <<pos, durable, order, at, new>> /\ Running' \subseteq Running
      BY <1>7 DEF Quiet, Running, Ended, MetInv, IInv, TypeOK
    <2> HIDE DEF Goal
    <2> QED BY <1>5, <2>1
  <1>8. ASSUME NEW r \in Req, Commits(r) PROVE Goal
    <2>1. /\ Running' \subseteq Running /\ r \in Running
          /\ order[r] \in Order /\ order' = order
          /\ Committed(r) /\ r \notin durable /\ r \in durable'
      BY <1>8 DEF Commits, Committed, Running, Ended, MetInv, Waiting, IInv, TypeOK
    <2>2. Lone'
      BY <1>4, <2>1 DEF MetInv, Meets, Lone
    <2>3. ASSUME r \notin met' PROVE Ledger!Next
      <3>1. Computed(r)
        BY <1>4, <2>1, <2>3 DEF MetInv, Lone
      <3> QED BY <2>1, <3>1, CommittedMoves DEF MetInv
    <2> QED BY <2>1, <2>2, <2>3
  <1>9. CASE UNCHANGED <<pc, pos, durable, order, at, new>>
    <2>1. Running' \subseteq Running
      BY <1>9 DEF Running, Ended
    <2> HIDE DEF Goal
    <2>2. Goal
      BY <1>5, <1>9, <2>1
    <2> QED BY <1>1, <1>4, <2>2 DEF MetInv, Goal
  <1>10. CASE MetNext
    <2>1. Next
      BY <1>10 DEF MetNext
    <2> HIDE DEF Goal
    <2>2. CASE ~UNCHANGED <<pc, pos, durable, order, at, new>>
      <3>1. Goal
        BY <1>6, <1>7, <1>8, <2>1, <2>2, NextShape DEF MetInv
      <3> QED BY <1>1, <1>4, <3>1 DEF MetInv, Goal
    <2> QED BY <1>9, <2>2
  <1>11. CASE UNCHANGED <<vars, met>>
    BY <1>9, <1>11 DEF vars, request
  <1> QED BY <1>10, <1>11

\* Buying and selling implement TradeLedger as far as a request runs beside no
\* other: whatever overlapped before, it trades once or not at all, whatever
\* fails, whichever commit makes the trade durable and whatever the worker
\* does, and it sells only what is held.  Nothing but a commit moves shares.
THEOREM ImplementsLedgerAlways == MetSpec => ImplementsLedger
  <1>1. Init => Ledger!Init
    <2> SUFFICES ASSUME Init PROVE Ledger!Init
      OBVIOUS
    <2>1. OpenPositions = {} /\ durable = {}
      BY DEF Init, OpenPositions
    <2> QED BY <2>1, HeldNone DEF Moved, Ledger!Init
  <1>2. Init /\ met = {} => MetInv
    <2> SUFFICES ASSUME Init PROVE Waiting /\ Meets /\ Lone
      BY FlowAssumption, InitInv DEF MetInv
    <2> QED BY DEF Init, Waiting, Meets, Lone, Running
  <1>3. MetInv /\ [MetNext]_<<vars, met>>
            => MetInv' /\ [(durable' \ durable) \cap met' = {} => Ledger!Next]_<<Held, Moved>>
    BY FlowAssumption, MetStep
  <1> QED BY <1>1, <1>2, <1>3, PTL DEF MetSpec, ImplementsLedger

\* The behaviours that the run looks at are among those of MetSpec.
LEMMA MCSpecIsMetSpec == MCSpec => MetSpec
  <1>1. [MCNext]_<<vars, rich, met>> => [MetNext]_<<vars, met>>
    BY DEF MCNext
  <1>2. MCInit => Init /\ met = {}
    BY DEF MCInit
  <1> QED BY <1>1, <1>2, PTL DEF MCSpec, MetSpec

=============================================================================
