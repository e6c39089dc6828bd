------------------------------ MODULE EventBus ------------------------------
(***************************************************************************)
(* platform/event_bus.py: the in-process bus every segment of the agent    *)
(* talks through.  publish() puts an event on an unbounded asyncio.Queue,  *)
(* one background worker takes events one by one and awaits the handlers   *)
(* subscribed to the event's type, one after the other, in the order of    *)
(* their subscription.                                                     *)
(*                                                                         *)
(* An event is what the bus tells apart: its dedup key (the code prefixes  *)
(* it with the type name) and how many handlers its type has.  An action   *)
(* is a run of a coroutine between two awaits.                             *)
(***************************************************************************)
EXTENDS Integers, Sequences, FiniteSets, SequencesExt

CONSTANTS
    Event,        \* the event objects that may be published, each once
    Key,          \* full dedup keys, "<type name>:<dedup_key>"
    NoKey,        \* published without a dedup_key
    KeyOf,        \* the key each event is published under
    NumHandlers,  \* how many handlers are subscribed to the event's type
    Worker,       \* the tasks start() may create, one per call
    NoWorker,     \* _worker_task is None
    NoEvent,      \* the worker holds no event
    Window,       \* dedup_window
    StopAgain,    \* whether stop() may be called after an earlier one returned
    MaxTime       \* bound on the clock

ASSUME BusAssumption ==
    /\ KeyOf \in [Event -> Key \cup {NoKey}]
    /\ NoKey \notin Key
    /\ NumHandlers \in [Event -> Nat]
    /\ NoWorker \notin Worker
    /\ NoEvent \notin Event
    /\ Window \in Nat
    /\ MaxTime \in Nat
    /\ StopAgain \in BOOLEAN

Never == -1

VARIABLES
    now,          \* the clock
    running,      \* EventBus._running
    queue,        \* EventBus._queue
    unfinished,   \* the queue's count of events put and not task_done
    lastSeen,     \* EventBus._dedup
    deadLetters,  \* EventBus._dead_letters, as <<event, handler>>
    workerTask,   \* EventBus._worker_task
    pc,           \* where each worker task is
    cur,          \* the event the worker dispatches
    next,         \* the handler it calls next
    stopper,      \* where the caller of stop() is
    \* What happened, for the properties:
    acceptedAt,   \* when publish() put the event, or Never
    delivered,    \* the handler calls that ended, in order
    finished,     \* the events whose dispatch ended
    owed          \* the events put before stop() was called

dedupVars   == <<lastSeen, acceptedAt>>
workerVars  == <<pc, cur, next>>
historyVars == <<delivered, finished, owed>>
vars == <<now, running, queue, unfinished, lastSeen, deadLetters, workerTask,
          pc, cur, next, stopper, acceptedAt, delivered, finished, owed>>

Handlers(e) == 1 .. NumHandlers[e]
Accepted    == {e \in Event : acceptedAt[e] # Never}

TypeOK ==
    /\ now \in 0 .. MaxTime
    /\ running \in BOOLEAN
    /\ queue \in Seq(Event)
    /\ unfinished \in Int
    /\ lastSeen \in [Key -> {Never} \cup 0 .. MaxTime]
    /\ deadLetters \subseteq (Event \X Nat)
    /\ workerTask \in Worker \cup {NoWorker}
    /\ pc \in [Worker -> {"unborn", "waiting", "dispatching", "ended"}]
    /\ cur \in [Worker -> Event \cup {NoEvent}]
    /\ next \in [Worker -> Nat]
    /\ stopper \in {"idle", "joining", "cancelling", "returned"}
    /\ acceptedAt \in [Event -> {Never} \cup 0 .. MaxTime]
    /\ delivered \in Seq(Event \X Nat)
    /\ finished \subseteq Event
    /\ owed \subseteq Event

Init ==
    /\ now = 0
    /\ running = FALSE
    /\ queue = <<>>
    /\ unfinished = 0
    /\ lastSeen = [k \in Key |-> Never]
    /\ deadLetters = {}
    /\ workerTask = NoWorker
    /\ pc = [w \in Worker |-> "unborn"]
    /\ cur = [w \in Worker |-> NoEvent]
    /\ next = [w \in Worker |-> 0]
    /\ stopper = "idle"
    /\ acceptedAt = [e \in Event |-> Never]
    /\ delivered = <<>>
    /\ finished = {}
    /\ owed = {}

-----------------------------------------------------------------------------
(* publish(): the key is recorded before the event is put, and whatever    *)
(* becomes of the event later it keeps suppressing the key for a window.   *)

\* Mutant: the window closes a unit early.
IsDuplicateShort(e) ==
    /\ KeyOf[e] # NoKey
    /\ lastSeen[KeyOf[e]] # Never
    /\ now - lastSeen[KeyOf[e]] < Window - 1

IsDuplicate(e) ==
    /\ KeyOf[e] # NoKey
    /\ lastSeen[KeyOf[e]] # Never
    /\ now - lastSeen[KeyOf[e]] < Window

Enqueue(e, seen, q) ==
    /\ acceptedAt[e] = Never
    /\ ~IsDuplicate(e)
    /\ lastSeen' = IF KeyOf[e] = NoKey THEN lastSeen
                   ELSE [lastSeen EXCEPT ![KeyOf[e]] = seen]
    /\ queue' = q
    /\ unfinished' = unfinished + 1
    /\ acceptedAt' = [acceptedAt EXCEPT ![e] = now]
    /\ UNCHANGED <<now, running, deadLetters, workerTask, stopper>>
    /\ UNCHANGED workerVars /\ UNCHANGED historyVars

\* Mutants: the newest event first; the expiry stored in place of the time.
PublishLifo(e)   == Enqueue(e, now, <<e>> \o queue)
PublishExpiry(e) == Enqueue(e, now + Window, Append(queue, e))

Publish(e) == Enqueue(e, now, Append(queue, e))

(* start() does nothing while the bus runs.  It does not look at the task  *)
(* of an earlier start: called while a stop() still waits in join(), it    *)
(* leaves two workers on the queue.                                        *)
Start(w) ==
    /\ ~running
    /\ pc[w] = "unborn"
    /\ running' = TRUE
    /\ workerTask' = w
    /\ pc' = [pc EXCEPT ![w] = "waiting"]
    /\ UNCHANGED <<now, queue, unfinished, deadLetters, cur, next, stopper>>
    /\ UNCHANGED dedupVars /\ UNCHANGED historyVars

-----------------------------------------------------------------------------
(* The worker.  "waiting" is the head of its loop and the get() it awaits  *)
(* for at most a second: an event in the queue is taken whether the bus    *)
(* runs or not.                                                            *)

\* Mutant: the event is looked at and left in the queue.
TakeAndLeave(w) ==
    /\ pc[w] = "waiting"
    /\ queue # <<>>
    /\ cur' = [cur EXCEPT ![w] = Head(queue)]
    /\ next' = [next EXCEPT ![w] = 1]
    /\ pc' = [pc EXCEPT ![w] = "dispatching"]
    /\ UNCHANGED <<now, running, queue, unfinished, deadLetters, workerTask,
                   stopper>>
    /\ UNCHANGED dedupVars /\ UNCHANGED historyVars

Take(w) ==
    /\ pc[w] = "waiting"
    /\ queue # <<>>
    /\ cur' = [cur EXCEPT ![w] = Head(queue)]
    /\ queue' = Tail(queue)
    /\ next' = [next EXCEPT ![w] = 1]
    /\ pc' = [pc EXCEPT ![w] = "dispatching"]
    /\ UNCHANGED <<now, running, unfinished, deadLetters, workerTask, stopper>>
    /\ UNCHANGED dedupVars /\ UNCHANGED historyVars

\* Mutant: a worker with nothing to do for a second ends.
ExitWhenIdle(w) ==
    /\ pc[w] = "waiting"
    /\ queue = <<>>
    /\ pc' = [pc EXCEPT ![w] = "ended"]
    /\ UNCHANGED <<now, running, queue, unfinished, deadLetters, workerTask,
                   cur, next, stopper>>
    /\ UNCHANGED dedupVars /\ UNCHANGED historyVars

\* The get() timed out and the loop's condition is false.
Exit(w) ==
    /\ pc[w] = "waiting"
    /\ ~running
    /\ queue = <<>>
    /\ pc' = [pc EXCEPT ![w] = "ended"]
    /\ UNCHANGED <<now, running, queue, unfinished, deadLetters, workerTask,
                   cur, next, stopper>>
    /\ UNCHANGED dedupVars /\ UNCHANGED historyVars

HandlerEnds(w) ==
    /\ pc[w] = "dispatching"
    /\ next[w] \in Handlers(cur[w])
    /\ delivered' = Append(delivered, <<cur[w], next[w]>>)
    /\ next' = [next EXCEPT ![w] = @ + 1]
    /\ UNCHANGED <<now, running, queue, unfinished, workerTask, pc, cur,
                   stopper, finished, owed>>
    /\ UNCHANGED dedupVars

HandlerReturns(w) == HandlerEnds(w) /\ UNCHANGED deadLetters

\* An Exception becomes a dead letter and the next handler is called.
HandlerRaises(w) ==
    /\ HandlerEnds(w)
    /\ deadLetters' = deadLetters \cup {<<cur[w], next[w]>>}

EndDispatch(w, count) ==
    /\ pc[w] = "dispatching"
    /\ next[w] \notin Handlers(cur[w])
    /\ unfinished' = count
    /\ stopper' = IF count = 0 /\ stopper = "joining"
                  THEN "cancelling" ELSE stopper
    /\ pc' = [pc EXCEPT ![w] = IF running \/ queue # <<>>
                               THEN "waiting" ELSE "ended"]
    /\ cur' = [cur EXCEPT ![w] = NoEvent]
    /\ finished' = finished \cup {cur[w]}
    /\ UNCHANGED <<now, running, queue, deadLetters, workerTask, next,
                   delivered, owed>>
    /\ UNCHANGED dedupVars

\* Mutant: task_done() is forgotten.
DispatchEndsUncounted(w) == EndDispatch(w, unfinished)

\* task_done() wakes the join() that waits for it, even if another event is
\* put before that join() resumes; no await separates it from the test of
\* the loop's condition.  An event without handlers comes here at once.
DispatchEnds(w) == EndDispatch(w, unfinished - 1)

-----------------------------------------------------------------------------
(* stop(): clear the flag, join() the queue, cancel the current task.  With *)
(* nothing unfinished join() does not suspend and the cancel comes at once.  *)

CanStop == stopper = "idle" \/ (StopAgain /\ stopper = "returned")

\* A worker cancelled in the middle of a dispatch drops the event it holds.
CancelWorker ==
    /\ stopper' = "returned"
    /\ pc' = IF workerTask = NoWorker THEN pc
             ELSE [pc EXCEPT ![workerTask] = "ended"]

\* Mutant: the task is cancelled without join().
StopAtOnce ==
    /\ CanStop
    /\ running' = FALSE
    /\ owed' = Accepted
    /\ CancelWorker
    /\ UNCHANGED <<now, queue, unfinished, deadLetters, workerTask, cur, next,
                   delivered, finished>>
    /\ UNCHANGED dedupVars

Stop ==
    /\ CanStop
    /\ running' = FALSE
    /\ owed' = Accepted
    /\ IF unfinished = 0 THEN CancelWorker
       ELSE stopper' = "joining" /\ UNCHANGED pc
    /\ UNCHANGED <<now, queue, unfinished, deadLetters, workerTask, cur, next,
                   delivered, finished>>
    /\ UNCHANGED dedupVars

JoinReturns ==
    /\ stopper = "cancelling"
    /\ CancelWorker
    /\ UNCHANGED <<now, running, queue, unfinished, deadLetters, workerTask,
                   cur, next>>
    /\ UNCHANGED dedupVars /\ UNCHANGED historyVars

Tick ==
    /\ now < MaxTime
    /\ now' = now + 1
    /\ UNCHANGED <<running, queue, unfinished, deadLetters, workerTask, stopper>>
    /\ UNCHANGED dedupVars /\ UNCHANGED workerVars /\ UNCHANGED historyVars

WorkerStep(w) ==
    Take(w) \/ Exit(w) \/ HandlerReturns(w) \/ HandlerRaises(w) \/ DispatchEnds(w)

Next ==
    \/ \E e \in Event : Publish(e)
    \/ \E w \in Worker : Start(w) \/ WorkerStep(w)
    \/ Stop \/ JoinReturns \/ Tick

\* bootstrap() awaits start(); the event loop runs every ready task, and the
\* handlers are assumed to return or raise (the bus puts no timeout on them).
Fairness ==
    /\ \A w \in Worker : WF_vars(WorkerStep(w))
    /\ WF_vars(\E w \in Worker : Start(w))
    /\ WF_vars(JoinReturns)

Spec     == Init /\ [][Next]_vars
FairSpec == Spec /\ Fairness

-----------------------------------------------------------------------------
\* No handler is called twice for one event, whatever raises, and however
\* start() and stop() overlap.
AtMostOnce == IsInjective(delivered)

\* An event is finished only after every handler of its type was called, the
\* ones subscribed after a handler that raised included.
EveryHandlerCalled ==
    \A e \in finished : \A i \in Handlers(e) : <<e, i>> \in ToSet(delivered)

\* The bus never lets two events with one key through within the window.
DedupSpacing ==
    \A e1, e2 \in Accepted :
        (e1 # e2 /\ KeyOf[e1] = KeyOf[e2] /\ KeyOf[e1] # NoKey)
            => \/ acceptedAt[e1] - acceptedAt[e2] >= Window
               \/ acceptedAt[e2] - acceptedAt[e1] >= Window

\* "Graceful shutdown: drain the queue then stop the worker": when stop()
\* returns, every event put before it was called has been dispatched.
DrainedWhenStopped == stopper = "returned" => owed \subseteq finished

\* join() returns only when the count is exact: what is put and not done is
\* in the queue or in the hands of a worker.
UnfinishedIsExact ==
    unfinished = Len(queue)
                 + Cardinality({w \in Worker : cur[w] # NoEvent})
=============================================================================
