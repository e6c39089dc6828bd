----------------------------- MODULE TradeFlow -----------------------------
(***************************************************************************)
(* Requests to buy and sell one ticker, from the route or the Discord       *)
(* command (api/routes/portfolio.py, bot/commands/portfolio.py) through     *)
(* TradeUseCase and DecisionService.log_decision() to the UserActionEvent   *)
(* and the adapters of core/user_action_listener.py that it starts.         *)
(*                                                                          *)
(* A request reads the open position, computes its new quantity, writes it  *)
(* with a Trade row, may log a decision and schedules its event; its caller *)
(* then commits.  Between two awaits other requests run, and the event's    *)
(* task, and the worker of the bus.  log_decision() commits the session it  *)
(* shares with the trade.  Prices and P&L are in PositionBooks, what the    *)
(* adapters do to a thesis in ThesisLifecycle.                              *)
(***************************************************************************)
EXTENDS Integers, Sequences, FiniteSets

CONSTANTS
    Req,       \* requests; a position has the name of the one that opens it
    None,
    Qty,       \* quantities traded
    Advice     \* the ids, in order, of the PRETRADE_ADVICE rows of the ticker

ASSUME FlowAssumption ==
    /\ None \notin Req
    /\ Qty \subseteq Nat \ {0}
    /\ Advice \subseteq Nat \ {0}

Sides == {"BUY", "SELL"}

\* logs: a thesis or an advice is given, or a thesis was found for a buy.
\* advice: the advice that the user had seen, 0 for None.
Order == [side : Sides, qty : Qty, logs : BOOLEAN, advice : Advice \cup {0}]

\* _handle() and _on_buy(), _on_sell(): the adapters of an action.
Adapters(side) ==
    IF side = "BUY" THEN <<"track", "reconcile", "memory", "snapshot">>
    ELSE <<"close", "deprioritize", "reconcile", "memory", "snapshot">>

Adapter == {"track", "close", "deprioritize", "reconcile", "memory", "snapshot"}

VARIABLES
    pos,       \* the committed positions: status and qty
    answered,  \* the request that each advice is committed as the advice for
    pc, order, \* what each request is at, and what it is for
    at, new,   \* the position it writes, and the quantity it computed for it
    fresh,     \* whether it read its advice as not yet answered
    durable,   \* the requests whose trade is committed
    broken,    \* those whose session the database refuses to commit
    logged,    \* those that report a logged decision
    outbox,    \* events whose publishing task was created and has not run
    queue,     \* events on the bus
    current, left, picked,  \* the worker: its event, the adapters to call,
                            \* and the advice that reconcile has read
    tried      \* the adapters called for each event, in order

request  == <<pc, order, at, new, fresh, durable, broken, logged, outbox>>
feedback == <<queue, current, left, picked, tried>>
vars     == <<pos, answered, request, feedback>>

NoOrder == [side |-> "BUY", qty |-> 0, logs |-> FALSE, advice |-> 0]

TypeOK ==
    /\ pos \in [Req -> [status : {"none", "open", "closed"}, qty : Nat]]
    /\ answered \in [Advice -> Req \cup {None}]
    /\ pc \in [Req -> {"new", "loaded", "written", "advising", "refreshing",
                       "committing", "done", "failed"}]
    /\ order \in [Req -> Order \cup {NoOrder}]
    /\ at \in [Req -> Req] /\ new \in [Req -> Nat]
    /\ fresh \in [Req -> BOOLEAN]
    /\ durable \subseteq Req /\ broken \subseteq Req
    /\ logged \subseteq Req /\ outbox \subseteq Req
    /\ queue \in Seq(Req)
    /\ current \in Req \cup {None}
    /\ left \in Seq(Adapter)
    /\ picked \in Advice \cup {0}
    /\ tried \in [Req -> Seq(Adapter)]

Init ==
    /\ pos = [r \in Req |-> [status |-> "none", qty |-> 0]]
    /\ answered = [a \in Advice |-> None]
    /\ pc = [r \in Req |-> "new"]
    /\ order = [r \in Req |-> NoOrder]
    /\ at = [r \in Req |-> r]
    /\ new = [r \in Req |-> 0]
    /\ fresh = [r \in Req |-> FALSE]
    /\ durable = {} /\ broken = {} /\ logged = {} /\ outbox = {}
    /\ queue = <<>> /\ current = None /\ left = <<>> /\ picked = 0
    /\ tried = [r \in Req |-> <<>>]

-----------------------------------------------------------------------------
Ended(r) == pc[r] \in {"done", "failed"}
Goto(r, l) == pc' = [pc EXCEPT ![r] = l]

OpenPositions == {p \in Req : pos[p].status = "open"}

Load(r, o) ==
    /\ pc[r] = "new"
    /\ o.advice # 0 => o.logs
    /\ order' = [order EXCEPT ![r] = o]
    /\ UNCHANGED <<pos, answered, fresh, durable, broken, logged, outbox, feedback>>

\* Mutants: a buy replaces what was there; any quantity may be sold.
BuyLoadsOver(r, o) ==
    /\ o.side = "BUY"
    /\ Load(r, o)
    /\ at' = [at EXCEPT ![r] = IF OpenPositions = {} THEN r
                               ELSE CHOOSE p \in OpenPositions : TRUE]
    /\ new' = [new EXCEPT ![r] = o.qty] /\ Goto(r, "loaded")
SellLoadsAny(r, o) ==
    /\ o.side = "SELL"
    /\ Load(r, o)
    /\ \E p \in Req : /\ OpenPositions = {p}
                      /\ at' = [at EXCEPT ![r] = p]
                      /\ new' = [new EXCEPT ![r] = pos[p].qty - o.qty]
                      /\ Goto(r, "loaded")

\* buy() and sell() read the open position.  Two are an error
\* (MultipleResultsFound), and so is a sale of more than there is.
BuyLoads(r, o) ==
    /\ o.side = "BUY"
    /\ Load(r, o)
    /\ \/ OpenPositions = {}
          /\ at' = at /\ new' = [new EXCEPT ![r] = o.qty] /\ Goto(r, "loaded")
       \/ \E p \in Req :
             /\ OpenPositions = {p}
             /\ at' = [at EXCEPT ![r] = p]
             /\ new' = [new EXCEPT ![r] = pos[p].qty + o.qty]
             /\ Goto(r, "loaded")
       \/ Cardinality(OpenPositions) > 1
          /\ Goto(r, "failed") /\ UNCHANGED <<at, new>>

SellLoads(r, o) ==
    /\ o.side = "SELL"
    /\ Load(r, o)
    /\ \/ \E p \in Req :
             /\ OpenPositions = {p}
             /\ o.qty <= pos[p].qty
             /\ at' = [at EXCEPT ![r] = p]
             /\ new' = [new EXCEPT ![r] = pos[p].qty - o.qty]
             /\ Goto(r, "loaded")
       \/ /\ \A p \in Req : OpenPositions = {p} => pos[p].qty < o.qty
          /\ Goto(r, "failed") /\ UNCHANGED <<at, new>>

\* Whether the transaction of a request holds the lock of a position's row.
Holds(r, p) ==
    /\ at[r] = p
    /\ pc[r] \in {"written", "advising", "committing"}
    /\ r \notin durable \cup broken

\* save_position() and save_trade() flush, which waits for the row.
Write(r) ==
    /\ pc[r] = "loaded"
    /\ \A s \in Req \ {r} : ~Holds(s, at[r])
    /\ Goto(r, "written")
    /\ UNCHANGED <<pos, answered, order, at, new, fresh, durable, broken, logged, outbox,
                   feedback>>

\* The UPDATE names the columns that changed: a buy never clears closed_at.
Committed(r) ==
    /\ pos' = [pos EXCEPT ![at[r]] =
                   [status |-> IF new[r] = 0 THEN "closed"
                               ELSE IF at[r] = r THEN "open" ELSE @.status,
                    qty    |-> new[r]]]
    /\ durable' = durable \cup {r}

\* _emit_user_action() creates the task that publishes.
Schedule(r) == outbox' = outbox \cup {r}

\* Nothing to log, or log_decision() raises before it wrote: no such thesis,
\* not the user's, not an advice on this ticker.
NotLogged(r) ==
    /\ pc[r] = "written"
    /\ Schedule(r)
    /\ Goto(r, "committing")
    /\ UNCHANGED <<pos, answered, order, at, new, fresh, durable, broken, logged, feedback>>

\* log_decision() reads the thesis and the advice.
LogReads(r) ==
    /\ pc[r] = "written"
    /\ order[r].logs
    /\ fresh' = [fresh EXCEPT ![r] =
                     order[r].advice # 0 /\ answered[order[r].advice] = None]
    /\ Goto(r, "advising")
    /\ UNCHANGED <<pos, answered, order, at, new, durable, broken, logged, outbox, feedback>>

\* The database refuses a statement: log_decision()'s exception is caught,
\* its session can no longer commit anything.
LogBreaks(r) ==
    /\ pc[r] \in {"written", "advising"}
    /\ order[r].logs
    /\ broken' = broken \cup {r}
    /\ Schedule(r)
    /\ Goto(r, "committing")
    /\ UNCHANGED <<pos, answered, order, at, new, fresh, durable, logged, feedback>>

Answered(r) ==
    answered' = IF fresh[r] THEN [answered EXCEPT ![order[r].advice] = r] ELSE answered

\* Mutants: the decision is committed in a session of its own; the advice is
\* not reconciled.
LogWritesApart(r) ==
    /\ pc[r] = "advising"
    /\ Answered(r) /\ Goto(r, "refreshing")
    /\ UNCHANGED <<pos, durable, order, at, new, fresh, broken, logged, outbox, feedback>>
LogWritesOnly(r) ==
    /\ pc[r] = "advising"
    /\ Committed(r) /\ Goto(r, "refreshing")
    /\ UNCHANGED <<answered, order, at, new, fresh, broken, logged, outbox, feedback>>

\* The decision is flushed, the advice reconciled and everything committed,
\* the trade too.
LogWrites(r) ==
    /\ pc[r] = "advising"
    /\ Committed(r)
    /\ Answered(r)
    /\ Goto(r, "refreshing")
    /\ UNCHANGED <<order, at, new, fresh, broken, logged, outbox, feedback>>

\* The row is read back, and the event scheduled.
LogEnds(r) ==
    /\ pc[r] = "refreshing"
    /\ logged' = logged \cup {r}
    /\ Schedule(r)
    /\ Goto(r, "committing")
    /\ UNCHANGED <<pos, answered, order, at, new, fresh, durable, broken, feedback>>

\* The caller's commit, of which a logged trade has no need.
Commit(r) ==
    /\ pc[r] = "committing"
    /\ r \notin broken
    /\ \/ r \notin durable /\ Committed(r)
       \/ r \in durable /\ UNCHANGED <<pos, durable>>
    /\ Goto(r, "done")
    /\ UNCHANGED <<answered, order, at, new, fresh, broken, logged, outbox, feedback>>

\* An exception, a lost connection or a client that left, at any await: what
\* is not committed is rolled back, and the caller reports an error.
Fail(r) ==
    /\ pc[r] # "new" /\ ~Ended(r)
    /\ Goto(r, "failed")
    /\ UNCHANGED <<pos, answered, order, at, new, fresh, durable, broken, logged, outbox,
                   feedback>>

-----------------------------------------------------------------------------
\* The task runs as soon as the request awaits.
Publish(r) ==
    /\ r \in outbox
    /\ outbox' = outbox \ {r}
    /\ queue' = Append(queue, r)
    /\ UNCHANGED <<pos, answered, pc, order, at, new, fresh, durable, broken, logged,
                   current, left, picked, tried>>

Take ==
    /\ current = None
    /\ queue # <<>>
    /\ current' = Head(queue)
    /\ queue' = Tail(queue)
    /\ left' = Adapters(order[Head(queue)].side)
    /\ UNCHANGED <<pos, answered, request, picked, tried>>

Unanswered == {a \in Advice : answered[a] = None}

\* reconcile_pretrade_with_action() without an advice_id takes the latest
\* advice that is not answered, whatever the trade itself referred to.
ReadAdvice ==
    /\ left # <<>> /\ Head(left) = "reconcile" /\ picked = 0
    /\ picked' \in {a \in Unanswered : \A b \in Unanswered : b <= a}
    /\ UNCHANGED <<pos, answered, request, queue, current, left, tried>>

AdapterEnds ==
    /\ tried' = [tried EXCEPT ![current] = Append(@, Head(left))]
    /\ left' = Tail(left)
    /\ current' = IF Len(left) = 1 THEN None ELSE current
    /\ picked' = 0
    /\ UNCHANGED <<pos, request, queue>>

\* The adapter's session commits.
AdapterReturns ==
    /\ left # <<>>
    /\ Head(left) = "reconcile" => picked # 0 \/ Unanswered = {}
    /\ answered' = IF picked = 0 THEN answered ELSE [answered EXCEPT ![picked] = current]
    /\ AdapterEnds

\* Mutant: a failed adapter ends the worker.
AdapterRaisesThrough ==
    /\ left # <<>> /\ left' = <<>> /\ picked' = 0
    /\ UNCHANGED <<pos, answered, request, queue, current, tried>>

\* Each adapter catches what its segment raises.
AdapterRaises ==
    /\ left # <<>>
    /\ AdapterEnds
    /\ UNCHANGED answered

Step(r) ==
    \/ Write(r) \/ NotLogged(r) \/ LogReads(r) \/ LogBreaks(r) \/ LogWrites(r)
    \/ LogEnds(r) \/ Commit(r)

Worker == Take \/ ReadAdvice \/ AdapterReturns \/ AdapterRaises

Next ==
    \/ \E r \in Req : \/ \E o \in Order : BuyLoads(r, o) \/ SellLoads(r, o)
                      \/ Step(r) \/ Fail(r) \/ Publish(r)
    \/ Worker

\* The event loop runs every task that is ready; queries return or raise.
Fairness ==
    /\ \A r \in Req : WF_vars(Step(r)) /\ WF_vars(Publish(r))
    /\ WF_vars(Worker)

Spec     == Init /\ [][Next]_vars
FairSpec == Spec /\ Fairness

-----------------------------------------------------------------------------
\* A decision that the response reports as logged is of a trade that is
\* committed, and so is one that a later failure hides from the user.
LoggedIsDurable ==
    \A r \in Req : r \in logged \/ pc[r] = "refreshing" => r \in durable

\* A logged decision settles the advice it refers to: it is not left open for
\* the next trade of the ticker to be taken for its answer.
AdviceIsSettled ==
    \A r \in logged : order[r].advice # 0 => answered[order[r].advice] # None

\* An event is handed to each adapter once, in order, failures or not.
EveryAdapterTried ==
    \A r \in Req : tried[r] # <<>> /\ current # r => tried[r] = Adapters(order[r].side)

\* Every scheduled event reaches its adapters.
FeedbackFollows ==
    \A r \in Req : r \in outbox ~> tried[r] = Adapters(order[r].side)
=============================================================================
