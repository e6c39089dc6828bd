--------------------------- MODULE EngineCycleProofs ---------------------------
(* Theorems about EngineCycle for all lifetimes, any number of cycles and a  *)
(* backlog of any length.                                                    *)
EXTENDS EngineCycle, TLAPS

\* The reports waiting to be stored are newer than the stored one, and in order.
Newer(e, stored, last) == e.kind = "completed" => stored < e.no /\ e.no <= last

Before(d, e) == d.kind = "completed" /\ e.kind = "completed" => d.no < e.no

QueueInOrder ==
    /\ store.no <= count
    /\ \A i \in DOMAIN queue : Newer(queue[i], store.no, count)
    /\ \A i, j \in DOMAIN queue : i < j => Before(queue[i], queue[j])

\* The worker that awaits a judgement holds the event that asked for it.
JudgingHolds == judging => queue # <<>> /\ Head(queue).kind = "requested"

\* What readers have seen is not newer than what is cached, nor that than what
\* is stored.
SeenIsStored == answer.no <= page.no /\ page.no <= store.no

\* A report's age tells how long ago it was stored, until it has expired.
StoreAges == store.age < HotTTL => store.old = store.age

\* A cached answer that is not called stale was fresh when it was cached.
PageAges == ~page.stale /\ page.age < PageTTL => page.old < HotTTL + page.age

Inv ==
    /\ TypeOK
    /\ EngineIsHeard
    /\ QueueInOrder /\ JudgingHolds /\ SeenIsStored
    /\ StoreAges /\ PageAges /\ FreshIsRecent

-----------------------------------------------------------------------------
(* The ranking.                                                              *)

\* A score is the weight, or a fifth more of it up to 100.
LEMMA ScoreIs ==
    ASSUME NEW F \in SUBSET Fact, NEW f \in Fact
    PROVE  /\ Score(F, f) \in 0 .. 100
           /\ \/ \A g \in Fact : Score(F, g) = Weight[g]
              \/ \A g \in Fact : Score(F, g) = Least(100, (Weight[g] * 12) \div 10)
<1>1. CASE \A s \in Source : \E g \in F : From(g) = s
  <2>1. \A g \in Fact : Score(F, g) = Least(100, (Weight[g] * 12) \div 10)
    BY <1>1 DEF Score
  <2>2. Score(F, f) \in 0 .. 100
    BY <2>1 DEF Fact, Weight, Least
  <2> QED
    BY <2>1, <2>2
<1>2. CASE ~ \A s \in Source : \E g \in F : From(g) = s
  <2>1. \A g \in Fact : Score(F, g) = Weight[g]
    BY <1>2 DEF Score
  <2>2. Score(F, f) \in 0 .. 100
    BY <2>1 DEF Fact, Weight
  <2> QED
    BY <2>1, <2>2
<1> QED
  BY <1>1, <1>2

\* Amplified or not, the signals come in the order in which they are listed.
LEMMA AheadIsPlace ==
    ASSUME NEW F \in SUBSET Fact, NEW f \in Fact, NEW g \in Fact
    PROVE  Ahead(F, f, g) <=> Place[f] < Place[g]
<1>1. CASE \A h \in Fact : Score(F, h) = Weight[h]
  BY <1>1 DEF Ahead, Fact, Weight, Place
<1>2. CASE \A h \in Fact : Score(F, h) = Least(100, (Weight[h] * 12) \div 10)
  <2>1. /\ Score(F, "breach") = 100 /\ Score(F, "invalidated") = 100
        /\ Score(F, "triggered") = 84 /\ Score(F, "drift") = 72
        /\ Score(F, "stale") = 60 /\ Score(F, "spike") = 60
    BY <1>2 DEF Fact, Weight, Least
  <2> QED
    BY <2>1 DEF Ahead, Fact, Place
<1> QED
  BY <1>1, <1>2, ScoreIs

\* The top signal is one of those that fire, and none of the others is listed
\* before it.
LEMMA TopIsFirst ==
    ASSUME NEW F \in SUBSET Fact, F # {}
    PROVE  Top(F) \in F /\ \A g \in F \ {Top(F)} : Place[Top(F)] < Place[g]
<1>1. \E f \in F : \A g \in F \ {f} : Place[f] < Place[g]
  <2>1. /\ Place["breach"] = 1 /\ Place["invalidated"] = 2 /\ Place["triggered"] = 3
        /\ Place["drift"] = 4 /\ Place["stale"] = 5 /\ Place["spike"] = 6
    BY DEF Place
  <2>2. \A f \in F : f \in {"breach", "invalidated", "triggered", "drift", "stale", "spike"}
    BY DEF Fact
  <2>3. CASE "breach" \in F
    BY <2>1, <2>2, <2>3
  <2>4. CASE "breach" \notin F /\ "invalidated" \in F
    BY <2>1, <2>2, <2>4
  <2>5. CASE F \cap {"breach", "invalidated"} = {} /\ "triggered" \in F
    BY <2>1, <2>2, <2>5
  <2>6. CASE F \cap {"breach", "invalidated", "triggered"} = {} /\ "drift" \in F
    BY <2>1, <2>2, <2>6
  <2>7. CASE F \cap {"breach", "invalidated", "triggered", "drift"} = {} /\ "stale" \in F
    BY <2>1, <2>2, <2>7
  <2>8. CASE F = {"spike"}
    BY <2>8
  <2> QED
    BY <2>2, <2>3, <2>4, <2>5, <2>6, <2>7, <2>8
<1>2. \E f \in F : \A g \in F \ {f} : Ahead(F, f, g)
  BY <1>1, AheadIsPlace
<1>3. Top(F) \in F /\ \A g \in F \ {Top(F)} : Ahead(F, Top(F), g)
  BY <1>2 DEF Top
<1> QED
  BY <1>3, AheadIsPlace

\* What the ranking says of a snapshot: a verdict, pushed if there is a signal,
\* and a RISK_ALERT if a position is at risk.
LEMMA HeuristicSays ==
    ASSUME NEW F \in SUBSET Fact
    PROVE  /\ Heuristic(F) \in [verdict : Verdict, confidence : 0 .. Certain]
           /\ F # {} => Pushed(Heuristic(F))
           /\ "breach" \in F => Heuristic(F).verdict = "RISK_ALERT"
<1>1. CASE F = {}
  BY <1>1 DEF Heuristic, Judged, Verdict, Certain
<1>2. CASE F # {}
  <2> DEFINE f == Top(F)
             u == 25 * Score(F, f)
  <2>1. f \in F /\ f \in Fact /\ ("breach" \in F => f = "breach")
    <3>1. \A g \in Fact : g # "breach" => Place["breach"] < Place[g]
      BY DEF Fact, Place
    <3>2. \A g, h \in Fact : ~(Place[g] < Place[h] /\ Place[h] < Place[g])
      BY DEF Fact, Place
    <3> QED
      BY <1>2, <3>1, <3>2, TopIsFirst DEF Fact
  <2>2. Score(F, f) \in 0 .. 100
    BY <2>1, ScoreIs
  <2>3. f \in {"drift", "stale"} => Score(F, f) >= 40
    BY <2>1, ScoreIs DEF Fact, Weight, Least
  <2>4. u \in 0 .. 2500 /\ (f \in {"drift", "stale"} => u >= 1000)
    BY <2>2, <2>3
  <2>5. Heuristic(F) =
          CASE F = {} -> Judged("NO_ACTION", 4000)
            [] F # {} /\ f = "breach" -> Judged("RISK_ALERT", Least(9500, 7000 + u))
            [] F # {} /\ f = "invalidated" -> Judged("REVIEW_THESIS", Least(9000, 6500 + u))
            [] F # {} /\ f \in {"triggered", "spike"} ->
                   Judged("RISK_ALERT", Least(8500, 6000 + u))
            [] F # {} /\ f \in {"drift", "stale"} ->
                   Judged("REVIEW_THESIS", Least(8000, 5500 + u))
    BY DEF Heuristic
  <2> HIDE DEF f, u
  <2>6. CASE f = "breach"
    <3>1. Heuristic(F) = Judged("RISK_ALERT", Least(9500, 7000 + u))
      BY <1>2, <2>5, <2>6
    <3> QED
      BY <1>2, <2>4, <3>1 DEF Judged, Verdict, Certain, Least, Pushed
  <2>7. CASE f = "invalidated"
    <3>1. Heuristic(F) = Judged("REVIEW_THESIS", Least(9000, 6500 + u))
      BY <1>2, <2>5, <2>7
    <3> QED
      BY <1>2, <2>1, <2>4, <2>7, <3>1 DEF Judged, Verdict, Certain, Least, Pushed
  <2>8. CASE f \in {"triggered", "spike"}
    <3>1. Heuristic(F) = Judged("RISK_ALERT", Least(8500, 6000 + u))
      BY <1>2, <2>5, <2>8
    <3> QED
      BY <1>2, <2>4, <3>1 DEF Judged, Verdict, Certain, Least, Pushed
  <2>9. CASE f \in {"drift", "stale"}
    <3>1. Heuristic(F) = Judged("REVIEW_THESIS", Least(8000, 5500 + u))
      BY <1>2, <2>5, <2>9
    <3> QED
      BY <1>2, <2>1, <2>4, <2>9, <3>1 DEF Judged, Verdict, Certain, Least, Pushed
  <2> QED
    BY <2>1, <2>6, <2>7, <2>8, <2>9 DEF Fact
<1> QED
  BY <1>1, <1>2

-----------------------------------------------------------------------------
\* The records that the actions build have their types.
LEMMA Built ==
    /\ \A kind \in {"requested", "scanned"} : Sent(kind) \in Event
    /\ NoStore \in Store /\ NoPage \in Page /\ NoAnswer \in Answer
    /\ \A no \in Nat : [NoStore EXCEPT !.hot = TRUE, !.no = no] \in Store
    /\ 0 \in Old /\ \A n \in Nat : Least(n + 1, HotTTL + PageTTL) \in Old
<1>1. \A kind \in {"requested", "scanned"} : Sent(kind) \in Event
  BY DEF Sent, Event, By, Shown, Verdict, Certain
<1>2. 0 \in Old /\ 0 \in 0 .. HotTTL /\ 0 \in 0 .. PageTTL
  BY TTLAssumption DEF TTLAssumption, Old
<1>3. NoStore \in Store /\ NoPage \in Page /\ NoAnswer \in Answer
  BY <1>2 DEF NoStore, Store, NoPage, Page, NoAnswer, Answer
<1>4. \A no \in Nat : [NoStore EXCEPT !.hot = TRUE, !.no = no] \in Store
  BY <1>2 DEF NoStore, Store
<1>5. \A n \in Nat : Least(n + 1, HotTTL + PageTTL) \in Old
  BY TTLAssumption DEF TTLAssumption, Old, Least
<1> QED
  BY <1>1, <1>2, <1>3, <1>4, <1>5

\* The first state satisfies the invariant.
LEMMA InvInit == Init => Inv
<1> SUFFICES ASSUME Init PROVE Inv
  OBVIOUS
<1>1. TypeOK
  <2>1. queue \in Seq(Event) /\ read \in SUBSET Fact /\ count \in Nat
    BY DEF Init
  <2>2. judging \in BOOLEAN
    BY DEF Init
  <2>3. store \in Store /\ page \in Page /\ answer \in Answer
    BY Built DEF Init
  <2> QED
    BY <2>1, <2>2, <2>3 DEF TypeOK
<1>2. EngineIsHeard /\ QueueInOrder /\ JudgingHolds /\ SeenIsStored
  BY DEF Init, EngineIsHeard, QueueInOrder, JudgingHolds, SeenIsStored, NoStore, NoPage, NoAnswer
<1>3. StoreAges /\ PageAges /\ FreshIsRecent
  BY TTLAssumption DEF TTLAssumption, Init, StoreAges, PageAges, FreshIsRecent, NoStore, NoPage,
     NoAnswer
<1> QED
  BY <1>1, <1>2, <1>3 DEF Inv

\* An event that a schedule, a command or a scan sends keeps the invariant.
LEMMA InvSend ==
    ASSUME Inv, NEW kind \in {"requested", "scanned"}, Send(kind)
    PROVE  Inv'
<1> DEFINE e == Sent(kind)
<1>1. /\ queue' = Append(queue, e) /\ queue \in Seq(Event)
      /\ UNCHANGED <<judging, read, count, store, page, answer>>
  BY DEF Send, Inv, TypeOK
<1>2. e \in Event /\ e.by = "none" /\ e.kind # "completed"
  BY Built DEF Sent
<1> HIDE DEF e
<1>3. queue' \in Seq(Event) /\ Len(queue') = Len(queue) + 1
  BY <1>1, <1>2
<1>4. \A i \in DOMAIN queue' :
          /\ queue'[i] = IF i <= Len(queue) THEN queue[i] ELSE e
          /\ i <= Len(queue) => i \in DOMAIN queue
  BY <1>1, <1>2
<1>5. TypeOK'
  BY <1>1, <1>3 DEF Inv, TypeOK
<1>6. EngineIsHeard'
  BY <1>1, <1>2, <1>3, <1>4 DEF Inv, EngineIsHeard
<1>7. QueueInOrder'
  <2>1. ASSUME NEW i \in DOMAIN queue' PROVE Newer(queue'[i], store'.no, count')
    BY <1>1, <1>2, <1>4 DEF Inv, QueueInOrder, Newer
  <2>2. ASSUME NEW i \in DOMAIN queue', NEW j \in DOMAIN queue', i < j
        PROVE  Before(queue'[i], queue'[j])
    <3>1. j <= Len(queue) => i <= Len(queue)
      BY <1>1, <1>3, <2>2
    <3> QED
      BY <1>1, <1>2, <1>4, <2>2, <3>1 DEF Inv, QueueInOrder, Before
  <2> QED
    BY <1>1, <2>1, <2>2 DEF Inv, QueueInOrder, Newer
<1>8. JudgingHolds'
  <2>1. queue # <<>> => queue' # <<>> /\ Head(queue') = Head(queue)
    BY <1>1, <1>2
  <2> QED
    BY <1>1, <2>1 DEF Inv, JudgingHolds
<1> QED
  BY <1>1, <1>5, <1>6, <1>7, <1>8 DEF Inv, SeenIsStored, StoreAges, PageAges, FreshIsRecent

\* What the bus keeps of the queue when its first event is done with.
LEMMA InvTail ==
    ASSUME TypeOK, EngineIsHeard, QueueInOrder, queue # <<>>, queue' = Tail(queue),
           count' = count,
           store'.no = store.no \/ (Head(queue).kind = "completed" /\ store'.no = Head(queue).no)
    PROVE  queue' \in Seq(Event) /\ EngineIsHeard' /\ QueueInOrder'
<1>1. queue' \in Seq(Event) /\ Len(queue') = Len(queue) - 1 /\ Head(queue) = queue[1]
      /\ 1 \in DOMAIN queue
  BY DEF TypeOK
<1>2. \A i \in DOMAIN queue' :
          queue'[i] = queue[i + 1] /\ i + 1 \in DOMAIN queue /\ 1 < i + 1
  BY <1>1 DEF TypeOK
<1>3. EngineIsHeard'
  BY <1>1, <1>2 DEF EngineIsHeard
<1>4. store'.no <= count
  BY <1>1 DEF QueueInOrder, Newer
<1>5. ASSUME NEW i \in DOMAIN queue' PROVE Newer(queue'[i], store'.no, count')
  BY <1>1, <1>2 DEF QueueInOrder, Newer, Before
<1>6. ASSUME NEW i \in DOMAIN queue', NEW j \in DOMAIN queue', i < j
      PROVE  Before(queue'[i], queue'[j])
  <2>1. i + 1 < j + 1
    BY <1>1, <1>6
  <2> QED
    BY <1>2, <2>1 DEF QueueInOrder
<1> QED
  BY <1>1, <1>3, <1>4, <1>5, <1>6 DEF QueueInOrder, Newer

\* A published verdict of the right type keeps the invariant, when the ranking's
\* verdicts are heard.
LEMMA InvComplete ==
    ASSUME Inv, NEW by \in {"engine", "model", "fallback"},
           NEW v \in [verdict : Verdict, confidence : 0 .. Certain],
           by = "engine" => /\ Shows(read) # "nothing" => Pushed(v)
                            /\ Shows(read) = "breach" => v.verdict = "RISK_ALERT",
           Complete(by, v)
    PROVE  Inv'
<1> DEFINE e == [kind |-> "completed", no |-> count + 1, by |-> by, shown |-> Shows(read),
                 verdict |-> v.verdict, confidence |-> v.confidence]
<1>1. /\ queue' = Append(Tail(queue), e) /\ queue \in Seq(Event) /\ queue # <<>>
      /\ count \in Nat /\ count' = count + 1 /\ judging' = FALSE /\ read' = {}
      /\ UNCHANGED <<store, page, answer>>
  BY DEF Complete, Inv, TypeOK, JudgingHolds
<1>2. Shows(read) \in Shown
  BY DEF Shows, Shown
<1>3. e \in Event /\ e.kind = "completed" /\ e.no = count + 1
  BY <1>1, <1>2 DEF Event, By
<1>4. e.by = "engine" => /\ e.shown # "nothing" => Pushed(e)
                         /\ e.shown = "breach" => e.verdict = "RISK_ALERT"
  BY DEF Pushed
<1> HIDE DEF e
<1>5. Tail(queue) \in Seq(Event) /\ Len(Tail(queue)) = Len(queue) - 1
  BY <1>1
<1>6. queue' \in Seq(Event) /\ Len(queue') = Len(queue)
  BY <1>1, <1>3, <1>5
<1>7. \A i \in DOMAIN queue' :
          /\ i = Len(queue) => queue'[i] = e
          /\ i # Len(queue) => i + 1 \in DOMAIN queue /\ queue'[i] = queue[i + 1]
  BY <1>1, <1>3, <1>5, <1>6
<1>8. TypeOK'
  <2>1. store \in Store /\ page \in Page /\ answer \in Answer
    BY DEF Inv, TypeOK
  <2>2. read' \in SUBSET Fact /\ count' \in Nat
    BY <1>1
  <2>3. judging' \in BOOLEAN
    BY <1>1
  <2> QED
    BY <1>1, <1>6, <2>1, <2>2, <2>3 DEF TypeOK
<1>9. EngineIsHeard'
  BY <1>4, <1>7 DEF Inv, EngineIsHeard
<1>10. QueueInOrder'
  <2>1. store.no \in Nat /\ store.no <= count
    BY DEF Inv, TypeOK, Store, QueueInOrder
  <2>2. ASSUME NEW i \in DOMAIN queue PROVE queue[i].no \in Nat /\ Newer(queue[i], store.no, count)
    <3>1. queue[i] \in Event
      BY <1>1
    <3> QED
      BY <3>1 DEF Inv, QueueInOrder, Event
  <2>3. ASSUME NEW i \in DOMAIN queue' PROVE Newer(queue'[i], store'.no, count')
    BY <1>1, <1>3, <1>7, <2>1, <2>2 DEF Newer
  <2>4. ASSUME NEW i \in DOMAIN queue', NEW j \in DOMAIN queue', i < j
        PROVE  Before(queue'[i], queue'[j])
    <3>1. i + 1 \in DOMAIN queue /\ queue'[i] = queue[i + 1] /\ i + 1 < j + 1
      BY <1>6, <1>7, <2>4
    <3>2. CASE j = Len(queue)
      BY <1>1, <1>3, <1>7, <2>2, <3>1, <3>2 DEF Before, Newer
    <3>3. CASE j # Len(queue)
      BY <1>7, <3>1, <3>3 DEF Inv, QueueInOrder
    <3> QED
      BY <3>2, <3>3
  <2> QED
    BY <1>1, <2>1, <2>3, <2>4 DEF QueueInOrder, Newer
<1> QED
  BY <1>1, <1>8, <1>9, <1>10 DEF Inv, JudgingHolds, SeenIsStored, StoreAges, PageAges,
     FreshIsRecent

\* What the agents and the ranking say keeps the invariant.
LEMMA InvJudged ==
    ASSUME Inv, Judges \/ CallFails \/ AgentFails
    PROVE  Inv'
<1> DEFINE Judgement == [verdict : Verdict, confidence : 0 .. Certain]
<1>1. /\ Judged("RISK_ALERT", 6500) \in Judgement /\ Judged("HOLD", 6500) \in Judgement
      /\ Fallback \in Judgement
  BY DEF Judged, Fallback, Verdict, Certain
<1>2. CASE Judges
  BY <1>1, <1>2, InvComplete DEF Judges
<1>3. CASE CallFails
  BY <1>1, <1>3, InvComplete DEF CallFails
<1>4. CASE AgentFails
  <2>1. read \in SUBSET Fact
    BY DEF Inv, TypeOK
  <2>2. /\ Shows(read) # "nothing" => read # {}
        /\ Shows(read) = "breach" => "breach" \in read
    BY DEF Shows
  <2>3. Heuristic(read) \in Judgement
    BY <2>1, HeuristicSays
  <2>4. /\ Shows(read) # "nothing" => Pushed(Heuristic(read))
        /\ Shows(read) = "breach" => Heuristic(read).verdict = "RISK_ALERT"
    BY <2>1, <2>2, HeuristicSays
  <2>5. Complete("engine", Heuristic(read))
    BY <1>4 DEF AgentFails
  <2> QED
    BY <2>3, <2>4, <2>5, InvComplete
<1> QED
  BY <1>2, <1>3, <1>4

\* The rest of the bus keeps the invariant.
LEMMA InvBus ==
    ASSUME Inv, Build \/ BuildFails \/ Deliver \/ Invalidate
    PROVE  Inv'
<1>1. TypeOK /\ store \in Store /\ HotTTL \in Nat \ {0}
  BY TTLAssumption DEF TTLAssumption, Inv, TypeOK
<1>2. CASE Build
  <2>1. read' \in SUBSET Fact /\ UNCHANGED <<queue, count, store, page, answer>>
    BY <1>2 DEF Build, Snapshots
  <2>2. JudgingHolds' /\ judging' \in BOOLEAN
    BY <1>2 DEF Build, Handles, JudgingHolds
  <2> QED
    BY <2>1, <2>2 DEF Inv, TypeOK, EngineIsHeard, QueueInOrder, SeenIsStored, StoreAges, PageAges,
       FreshIsRecent
<1>3. CASE BuildFails
  <2>1. /\ queue # <<>> /\ queue' = Tail(queue) /\ ~judging
        /\ UNCHANGED <<judging, read, count, store, page, answer>>
    BY <1>3 DEF BuildFails, Handles
  <2>2. queue' \in Seq(Event) /\ EngineIsHeard' /\ QueueInOrder'
    BY <2>1, InvTail DEF Inv
  <2> QED
    BY <2>1, <2>2 DEF Inv, TypeOK, JudgingHolds, SeenIsStored, StoreAges, PageAges, FreshIsRecent
<1>4. CASE Deliver
  <2>1. /\ queue # <<>> /\ Head(queue).kind = "completed" /\ queue' = Tail(queue)
        /\ store' = [NoStore EXCEPT !.hot = TRUE, !.no = Head(queue).no]
        /\ UNCHANGED <<judging, read, count, page, answer>>
    BY <1>4 DEF Deliver, Handles, Stored
  <2>2. ~judging
    BY <2>1 DEF Inv, JudgingHolds
  <2>3. /\ store'.no = Head(queue).no /\ store'.age = 0 /\ store'.old = 0
    BY <2>1 DEF NoStore
  <2>4. queue' \in Seq(Event) /\ EngineIsHeard' /\ QueueInOrder'
    BY <2>1, <2>3, InvTail DEF Inv
  <2>5. Head(queue) \in Event /\ Newer(Head(queue), store.no, count)
    <3>1. Head(queue) = queue[1] /\ 1 \in DOMAIN queue /\ queue[1] \in Event
      BY <1>1, <2>1 DEF TypeOK
    <3> QED
      BY <3>1 DEF Inv, QueueInOrder
  <2>6. store.no < store'.no /\ store'.no \in Nat
    BY <2>1, <2>3, <2>5 DEF Newer, Event
  <2>7. store' \in Store
    BY <2>1, <2>3, <2>6, Built
  <2>8. SeenIsStored'
    BY <1>1, <2>1, <2>6 DEF Inv, TypeOK, Page, Store, SeenIsStored
  <2>9. StoreAges'
    BY <2>3 DEF StoreAges
  <2> QED
    BY <2>1, <2>2, <2>4, <2>7, <2>8, <2>9 DEF Inv, TypeOK, JudgingHolds, PageAges, FreshIsRecent
<1>5. CASE Invalidate
  <2>1. /\ queue # <<>> /\ Head(queue).kind = "scanned" /\ queue' = Tail(queue)
        /\ store' = [store EXCEPT !.hot = FALSE]
        /\ UNCHANGED <<judging, read, count, page, answer>>
    BY <1>5 DEF Invalidate, Handles, Cooled
  <2>2. ~judging
    BY <2>1 DEF Inv, JudgingHolds
  <2>3. store'.no = store.no /\ store'.age = store.age /\ store'.old = store.old
        /\ store' \in Store
    BY <1>1, <2>1 DEF Store
  <2>4. queue' \in Seq(Event) /\ EngineIsHeard' /\ QueueInOrder'
    BY <2>1, <2>3, InvTail DEF Inv
  <2> QED
    BY <2>1, <2>2, <2>3, <2>4 DEF Inv, TypeOK, JudgingHolds, SeenIsStored, StoreAges, PageAges,
       FreshIsRecent
<1> QED
  BY <1>2, <1>3, <1>4, <1>5

\* A look, the passing of time and a restart keep the invariant.
LEMMA InvAround ==
    ASSUME Inv, LookCached \/ LookStored \/ Tick \/ Restart
    PROVE  Inv'
<1> USE TTLAssumption DEF TTLAssumption
<1>1. TypeOK /\ store \in Store /\ page \in Page /\ answer \in Answer
  BY DEF Inv, TypeOK
<1>2. CASE LookCached
  <2>1. /\ answer' = [no |-> page.no, stale |-> page.stale, old |-> page.old]
        /\ page.no # 0 /\ page.age < PageTTL
        /\ UNCHANGED <<queue, judging, read, count, store, page>>
    BY <1>2 DEF LookCached, Show, Cached
  <2>2. answer' \in Answer /\ SeenIsStored'
    BY <1>1, <2>1 DEF Page, Answer, Inv, SeenIsStored
  <2>3. FreshIsRecent'
    BY <1>1, <2>1 DEF Page, Old, Inv, PageAges, FreshIsRecent
  <2> QED
    BY <2>1, <2>2, <2>3 DEF Inv, TypeOK, EngineIsHeard, QueueInOrder, JudgingHolds, StoreAges,
       PageAges
<1>3. CASE LookStored
  <2>1. /\ answer' = [no |-> store.no, stale |-> ~Fresh, old |-> store.old]
        /\ page' = [no |-> store.no, stale |-> ~Fresh, age |-> 0, old |-> store.old]
        /\ UNCHANGED <<queue, judging, read, count, store>>
    BY <1>3 DEF LookStored, Show
  <2>2. answer' \in Answer /\ page' \in Page /\ SeenIsStored'
    <3>1. (~Fresh) \in BOOLEAN
      OBVIOUS
    <3>2. /\ store.no \in Nat /\ store.old \in Old /\ 0 \in 0 .. PageTTL
      BY <1>1 DEF Store
    <3> HIDE DEF Fresh
    <3> QED
      BY <2>1, <3>1, <3>2 DEF Page, Answer, SeenIsStored
  <2>3. Fresh => store.old < HotTTL
    BY DEF Inv, StoreAges, Fresh
  <2>4. FreshIsRecent' /\ PageAges'
    <3>1. store.old \in Nat
      BY <1>1 DEF Store, Old
    <3>2. CASE Fresh
      <4>1. answer'.old < HotTTL + PageTTL /\ page'.old < HotTTL + page'.age
        BY <2>1, <2>3, <3>1, <3>2
      <4> QED
        BY <4>1 DEF FreshIsRecent, PageAges
    <3>3. CASE ~Fresh
      <4>1. answer'.stale /\ page'.stale
        BY <2>1, <3>3, Zenon
      <4> QED
        BY <4>1 DEF FreshIsRecent, PageAges
    <3> QED
      BY <3>2, <3>3
  <2> QED
    BY <2>1, <2>2, <2>4 DEF Inv, TypeOK, EngineIsHeard, QueueInOrder, JudgingHolds, StoreAges
<1>4. CASE Tick
  <2> DEFINE s == [store EXCEPT !.age = Older(store.age, HotTTL),
                                !.old = Older(store.old, HotTTL + PageTTL)]
             p == [page EXCEPT !.age = Older(page.age, PageTTL),
                               !.old = Older(page.old, HotTTL + PageTTL)]
  <2>1. store' = s /\ page' = p /\ UNCHANGED <<queue, judging, read, count, answer>>
    BY <1>4 DEF Tick
  <2>2. /\ store.age \in 0 .. HotTTL /\ store.old \in Old
        /\ page.age \in 0 .. PageTTL /\ page.old \in Old
    BY <1>1 DEF Store, Page
  <2>3. /\ \A n \in 0 .. HotTTL : Older(n, HotTTL) \in 0 .. HotTTL
        /\ \A n \in 0 .. PageTTL : Older(n, PageTTL) \in 0 .. PageTTL
        /\ \A n \in Old : Older(n, HotTTL + PageTTL) \in Old
    BY DEF Older, Least, Old
  <2>4. /\ s.no = store.no /\ s.age = Older(store.age, HotTTL)
        /\ s.old = Older(store.old, HotTTL + PageTTL) /\ s \in Store
    BY <1>1, <2>2, <2>3 DEF Store
  <2>5. /\ p.no = page.no /\ p.stale = page.stale /\ p.age = Older(page.age, PageTTL)
        /\ p.old = Older(page.old, HotTTL + PageTTL) /\ p \in Page
    BY <1>1, <2>2, <2>3 DEF Page
  <2> HIDE DEF s, p
  <2>6. StoreAges'
    BY <2>1, <2>2, <2>4 DEF Inv, StoreAges, Older, Least, Old
  <2>7. PageAges'
    BY <2>1, <2>2, <2>5 DEF Inv, PageAges, Older, Least, Old
  <2>8. TypeOK'
    BY <2>1, <2>4, <2>5 DEF Inv, TypeOK
  <2> QED
    BY <2>1, <2>4, <2>5, <2>6, <2>7, <2>8 DEF Inv, EngineIsHeard, QueueInOrder, JudgingHolds,
       SeenIsStored, FreshIsRecent
<1>5. CASE Restart
  <2>1. /\ queue' = <<>> /\ read' = {} /\ count' = count
        /\ store' = NoStore /\ page' = NoPage /\ answer' = NoAnswer
    BY <1>5 DEF Restart
  <2>2. judging' = FALSE
    BY <1>5 DEF Restart
  <2>3. count \in Nat
    BY <1>1 DEF TypeOK
  <2>4. queue' \in Seq(Event) /\ read' \in SUBSET Fact /\ count' \in Nat
    BY <2>1, <2>3
  <2>5. store' \in Store /\ page' \in Page /\ answer' \in Answer
    BY <2>1, Built
  <2>6. TypeOK'
    BY <2>2, <2>4, <2>5 DEF TypeOK
  <2>7. EngineIsHeard' /\ QueueInOrder' /\ JudgingHolds' /\ SeenIsStored'
    BY <2>1, <2>2, <2>3 DEF EngineIsHeard, QueueInOrder, JudgingHolds, SeenIsStored, NoStore,
       NoPage, NoAnswer
  <2>8. StoreAges' /\ PageAges' /\ FreshIsRecent'
    BY <2>1 DEF StoreAges, PageAges, FreshIsRecent, NoStore, NoPage, NoAnswer
  <2> QED
    BY <2>6, <2>7, <2>8 DEF Inv
<1> QED
  BY <1>2, <1>3, <1>4, <1>5

\* Every step keeps the invariant.
LEMMA InvStep == Inv /\ [Next]_vars => Inv'
<1> SUFFICES ASSUME Inv, [Next]_vars PROVE Inv'
  OBVIOUS
<1>1. CASE Next
  BY <1>1, InvSend, InvJudged, InvBus, InvAround DEF Next
<1>2. CASE UNCHANGED vars
  BY <1>2 DEF vars, Inv, TypeOK, EngineIsHeard, QueueInOrder, JudgingHolds, SeenIsStored,
     StoreAges, PageAges, FreshIsRecent
<1> QED
  BY <1>1, <1>2

\* In every behaviour the invariant holds.
LEMMA InvAlways == Spec => []Inv
  BY InvInit, InvStep, PTL DEF Spec

-----------------------------------------------------------------------------
\* Every step of the engine and its readers is a step of the feed, or changes
\* nothing of it.
LEMMA FeedStep ==
    Inv /\ [Next]_vars => [Feed!Next]_<<store.no, answer.no>>
<1> SUFFICES ASSUME Inv, [Next]_vars PROVE [Feed!Next]_<<store.no, answer.no>>
  OBVIOUS
<1> USE DEF Feed!Next, Feed!Publish, Feed!Show, Feed!Restart
<1>1. /\ store.no \in Nat /\ page.no \in Nat /\ answer.no \in Nat
      /\ answer.no <= page.no /\ page.no <= store.no /\ store \in Store
  BY DEF Inv, TypeOK, SeenIsStored, Store, Page, Answer
<1>2. CASE Deliver
  <2>1. /\ store' = [NoStore EXCEPT !.hot = TRUE, !.no = Head(queue).no] /\ answer' = answer
        /\ queue # <<>> /\ Head(queue).kind = "completed"
    BY <1>2 DEF Deliver, Handles, Stored
  <2>2. Head(queue) \in Event /\ Newer(Head(queue), store.no, count)
    <3>1. Head(queue) = queue[1] /\ 1 \in DOMAIN queue /\ queue[1] \in Event
      BY <2>1 DEF Inv, TypeOK
    <3> QED
      BY <3>1 DEF Inv, QueueInOrder
  <2>3. store'.no = Head(queue).no
    BY <2>1 DEF NoStore
  <2> QED
    BY <2>1, <2>2, <2>3 DEF Newer, Event
<1>3. CASE Invalidate
  <2>1. store' = [store EXCEPT !.hot = FALSE] /\ answer' = answer
    BY <1>3 DEF Invalidate, Cooled
  <2> QED
    BY <1>1, <2>1 DEF Store
<1>4. CASE LookCached
  BY <1>1, <1>4 DEF LookCached, Show
<1>5. CASE LookStored
  BY <1>1, <1>5 DEF LookStored, Show
<1>6. CASE Tick
  <2>1. /\ store' = [store EXCEPT !.age = Older(store.age, HotTTL),
                                  !.old = Older(store.old, HotTTL + PageTTL)]
        /\ answer' = answer
    BY <1>6 DEF Tick
  <2>2. store'.no = store.no
    BY <1>1, <2>1 DEF Store
  <2> QED
    BY <2>1, <2>2
<1>7. CASE Restart
  BY <1>7 DEF Restart, NoStore, NoAnswer
<1>8. ASSUME UNCHANGED <<store, answer>> PROVE [Feed!Next]_<<store.no, answer.no>>
  BY <1>8
<1>9. ASSUME NEW kind \in {"requested", "scanned"}, Send(kind) PROVE UNCHANGED <<store, answer>>
  BY <1>9 DEF Send
<1>10. ASSUME Build \/ BuildFails \/ Judges \/ CallFails \/ AgentFails
       PROVE  UNCHANGED <<store, answer>>
  BY <1>10 DEF Build, BuildFails, Judges, CallFails, AgentFails, Complete
<1>11. CASE UNCHANGED vars
  BY <1>8, <1>11 DEF vars
<1> QED
  BY <1>2, <1>3, <1>4, <1>5, <1>6, <1>7, <1>8, <1>9, <1>10, <1>11 DEF Next

\* Events, reports, cached answers and their ages always have their types.
THEOREM TypeCorrect == Spec => []TypeOK
<1>1. Inv => TypeOK
  BY DEF Inv
<1> QED
  BY <1>1, InvAlways, PTL

\* Whatever fires together, amplified or not, a position at risk makes the
\* ranking raise a RISK_ALERT, and what it found reaches Discord.
THEOREM EngineIsHeardAlways == Spec => []EngineIsHeard
<1>1. Inv => EngineIsHeard
  BY DEF Inv
<1> QED
  BY <1>1, InvAlways, PTL

\* The two caches together never present as current a report older than their
\* two lifetimes.
THEOREM FreshIsRecentAlways == Spec => []FreshIsRecent
<1>1. Inv => FreshIsRecent
  BY DEF Inv
<1> QED
  BY <1>1, InvAlways, PTL

\* The bus, the store with its hot and warm copies and the command's cache
\* together are a feed that never goes back to an older report.
THEOREM EngineImplementsFeed == Spec => ImplementsFeed
<1>1. Init => Feed!Init
  BY DEF Init, Feed!Init, NoStore, NoAnswer
<1> QED
  BY <1>1, InvAlways, FeedStep, PTL DEF Spec, ImplementsFeed, Feed!Spec
=============================================================================
