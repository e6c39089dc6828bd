-------------------------- MODULE ThesisLifecycle --------------------------
(***************************************************************************)
(* The status of investment theses, and the database sessions that change  *)
(* it: the user's close, invalidate, reactivate, create and delete         *)
(* (thesis/service.py), the SELL feedback, the automatic invalidation after *)
(* an edit of an assumption (component_service.py), the batches that scan   *)
(* every active thesis (stop_breach_service.py, watchdog_service.py) and    *)
(* the AI review with its reactor (review_service.py,                       *)
(* watchlist/review_outcome_reactor.py).                                    *)
(*                                                                          *)
(* A session reads committed rows, sets attributes of objects in memory,    *)
(* flushes them (the UPDATE names the changed columns only and locks the    *)
(* row until the transaction ends) and commits.  Between two awaits other   *)
(* sessions run.  Nothing re-reads a row before it is written, and no       *)
(* column holds a version.                                                  *)
(***************************************************************************)

CONSTANTS
    Thesis,     \* theses, those not yet created included
    Ticker,
    TickerOf,   \* the ticker of each thesis; there is one user
    Session,    \* database sessions, each used for one job
    Jobs        \* the jobs that sessions may do

Reviews == {"command", "api", "listener"}    \* who calls review_thesis()
AllJobs == Reviews \cup {"create", "close", "sell", "reactivate", "delete",
                         "edit", "scan"}

ASSUME LifecycleAssumption ==
    /\ TickerOf \in [Thesis -> Ticker]
    /\ Jobs \subseteq AllJobs

(* ThesisStatus.  No code sets PAUSED; "none" is no row.                    *)
Open     == {"ACTIVE", "WEAKENING"}
Terminal == {"CLOSED", "INVALIDATED"}
Status   == {"none"} \cup Open \cup Terminal

VARIABLES
    row,       \* the committed status and closed_at of each thesis
    pc, job,   \* what each session is at and what it is for
    todo,      \* the theses it has loaded and not dealt with
    change,    \* the attributes it has set and not lost again
    flushed,   \* the rows its transaction has written and locks
    \* What happened, for the properties:
    announced, \* the theses it published a ThesisClosedEvent for
    verdict,   \* the status its reactor chose, or "none"
    outcome    \* how it ended

vars == <<row, pc, job, todo, change, flushed, announced, verdict, outcome>>

\* Values of changed columns; "keep" is a column the UPDATE does not name.
Change   == [status : Status \cup {"keep"}, closedAt : {"null", "time", "keep"}]
NoChange == [status |-> "keep", closedAt |-> "keep"]

TypeOK ==
    /\ row \in [Thesis -> [status : Status, closedAt : {"null", "time"}]]
    /\ pc \in [Session -> {"new", "picked", "checking", "thinking", "writing",
                           "committing", "ended"}]
    /\ job \in [Session -> AllJobs \cup {"none"}]
    /\ todo \in [Session -> SUBSET Thesis]
    /\ change \in [Session -> [Thesis -> Change]]
    /\ flushed \in [Session -> SUBSET Thesis]
    /\ announced \in [Session -> SUBSET Thesis]
    /\ verdict \in [Session -> Open \cup Terminal \cup {"none"}]
    /\ outcome \in [Session -> {"none", "committed", "discarded", "failed"}]

StampOf(st) == IF st \in Terminal THEN "time" ELSE "null"

\* No ticker starts with two open theses; what can make two is create().
Init ==
    /\ \E st \in [Thesis -> Status] :
           /\ row = [t \in Thesis |-> [status |-> st[t], closedAt |-> StampOf(st[t])]]
           /\ \A t, u \in Thesis : t # u /\ TickerOf[t] = TickerOf[u]
                                      => ~(st[t] \in Open /\ st[u] \in Open)
    /\ pc = [s \in Session |-> "new"]
    /\ job = [s \in Session |-> "none"]
    /\ todo = [s \in Session |-> {}]
    /\ change = [s \in Session |-> [t \in Thesis |-> NoChange]]
    /\ flushed = [s \in Session |-> {}]
    /\ announced = [s \in Session |-> {}]
    /\ verdict = [s \in Session |-> "none"]
    /\ outcome = [s \in Session |-> "none"]

-----------------------------------------------------------------------------
Begin(s, j, p, ts, c) ==
    /\ pc[s] = "new"
    /\ j \in Jobs
    /\ job' = [job EXCEPT ![s] = j]
    /\ pc' = [pc EXCEPT ![s] = p]
    /\ todo' = [todo EXCEPT ![s] = ts]
    /\ change' = [change EXCEPT ![s] = c]
    /\ UNCHANGED <<row, flushed, announced, verdict, outcome>>

Only(t, c) == [u \in Thesis |-> IF u = t THEN c ELSE NoChange]
Closing(st) == [status |-> st, closedAt |-> "time"]

\* create() looks for no other open thesis of the ticker.
Create(s, t) ==
    /\ row[t].status = "none"
    /\ \A r \in Session : change[r][t] = NoChange
    /\ Begin(s, "create", "writing", {},
             Only(t, [status |-> "ACTIVE", closedAt |-> "null"]))

\* close() and invalidate() load a mutable thesis.
Close(s, t, st) ==
    /\ row[t].status \in Open
    /\ Begin(s, "close", "writing", {}, Only(t, Closing(st)))

\* mark_closed() picks any ACTIVE thesis of the ticker, then calls close().
SellPicks(s, t) ==
    /\ row[t].status = "ACTIVE"
    /\ Begin(s, "sell", "picked", {t}, Only(t, NoChange))

Delete(s, t) ==
    /\ row[t].status # "none"
    /\ Begin(s, "delete", "writing", {},
             Only(t, [status |-> "none", closedAt |-> "null"]))

\* closed_at becomes None, which is a change only if it was set.
Reactivate(s, t) ==
    /\ row[t].status \in Terminal
    /\ Begin(s, "reactivate", "checking", {t},
             Only(t, [status |-> "ACTIVE",
                      closedAt |-> IF row[t].closedAt = "time" THEN "null" ELSE "keep"]))

\* Mutant: closed_at is forgotten.
EditUnstamped(s, t) ==
    /\ row[t].status = "ACTIVE"
    /\ Begin(s, "edit", "writing", {},
             Only(t, [status |-> "INVALIDATED", closedAt |-> "keep"]))

\* The edit of an assumption ends in _auto_invalidate_if_needed(), which
\* finds an ACTIVE thesis with more than half of its assumptions INVALID.
Edit(s, t) ==
    /\ row[t].status = "ACTIVE"
    /\ Begin(s, "edit", "writing", {}, Only(t, Closing("INVALIDATED")))

\* _load_candidates() (those with a stop_loss), list_active_for_user().
Scan(s, ts) ==
    /\ ts # {}
    /\ \A t \in ts : row[t].status = "ACTIVE"
    /\ Begin(s, "scan", "thinking", ts, [t \in Thesis |-> NoChange])

Review(s, t, caller) ==
    /\ row[t].status = "ACTIVE"
    /\ Begin(s, caller, "thinking", {t}, Only(t, NoChange))

-----------------------------------------------------------------------------
\* Mutant: the transaction is left open.
EndIdle(s, how) ==
    /\ pc' = [pc EXCEPT ![s] = "ended"]
    /\ todo' = [todo EXCEPT ![s] = {}]
    /\ outcome' = [outcome EXCEPT ![s] = how]
    /\ UNCHANGED <<job, change, flushed, announced, verdict>>

\* The session ends, and with it its locks.
End(s, how) ==
    /\ pc' = [pc EXCEPT ![s] = "ended"]
    /\ todo' = [todo EXCEPT ![s] = {}]
    /\ flushed' = [flushed EXCEPT ![s] = {}]
    /\ outcome' = [outcome EXCEPT ![s] = how]
    /\ UNCHANGED <<job, change, announced, verdict>>

\* close() loads the thesis again and refuses one no longer mutable.
SellLoads(s) ==
    /\ pc[s] = "picked"
    /\ \E t \in todo[s] :
         \/ /\ row[t].status \in Open
            /\ change' = [change EXCEPT ![s][t] = Closing("CLOSED")]
            /\ pc' = [pc EXCEPT ![s] = "writing"]
            /\ todo' = [todo EXCEPT ![s] = {}]
            /\ UNCHANGED <<row, job, flushed, announced, verdict, outcome>>
         \/ /\ row[t].status \notin Open
            /\ End(s, "failed") /\ UNCHANGED row

HasOther(t, open) ==
    \E u \in Thesis \ {t} : TickerOf[u] = TickerOf[t] /\ row[u].status \in open

ConflictChecked(s, open) ==
    /\ pc[s] = "checking"
    /\ \E t \in todo[s] :
         \/ /\ ~HasOther(t, open)
            /\ pc' = [pc EXCEPT ![s] = "writing"]
            /\ todo' = [todo EXCEPT ![s] = {}]
            /\ UNCHANGED <<row, job, change, flushed, announced, verdict, outcome>>
         \/ /\ HasOther(t, open)
            /\ End(s, "failed") /\ UNCHANGED row

\* Mutants: a WEAKENING thesis is no conflict; nothing is.
ConflictActive(s) == ConflictChecked(s, {"ACTIVE"})
ConflictNever(s)  == ConflictChecked(s, {})

\* get_open_by_user_and_ticker() counts ACTIVE and WEAKENING theses.
Conflict(s) == ConflictChecked(s, Open)

\* Mutant: the thesis stays on the list of the scan.
JudgeAgain(s, t) ==
    /\ pc[s] = "thinking" /\ job[s] = "scan"
    /\ t \in todo[s]
    /\ UNCHANGED <<row, job, pc, change, todo, flushed, announced, verdict, outcome>>

\* The scan is done with a thesis: its stop holds, it is in cooldown, the AI
\* failed or did not confirm; or it is confirmed, and INVALIDATED as loaded.
Judge(s, t) ==
    /\ pc[s] = "thinking" /\ job[s] = "scan"
    /\ t \in todo[s]
    /\ todo' = [todo EXCEPT ![s] = @ \ {t}]
    /\ \/ UNCHANGED <<change, pc>>
       \/ /\ change' = [change EXCEPT ![s][t] = Closing("INVALIDATED")]
          /\ pc' = [pc EXCEPT ![s] = "writing"]
    /\ UNCHANGED <<row, job, flushed, announced, verdict, outcome>>

ScanEnds(s) ==
    /\ pc[s] = "thinking" /\ job[s] = "scan"
    /\ todo[s] = {}
    /\ pc' = [pc EXCEPT ![s] = "committing"]
    /\ UNCHANGED <<row, job, change, todo, flushed, announced, verdict, outcome>>

\* The reactor is there when a session factory was given to the service, and
\* acts when the ticker is on the watchlist.  The review agent's verdict is
\* BULLISH, BEARISH or NEUTRAL: a sure BEARISH weakens the thesis, and the
\* reactor's branch for INVALIDATED is never taken.
Choices(caller) == IF caller = "api" THEN {"none"} ELSE {"none", "WEAKENING"}

\* The AI answers and the review is saved.  The reactor takes the thesis as
\* the review loaded it for ACTIVE and sets its status, without a flush.
\* Recommendations are then saved, which flushes everything; without them the
\* thesis is read again, which discards what was not flushed.
ReviewSaved(s, v, recommends) ==
    /\ pc[s] = "thinking" /\ job[s] \in Reviews
    /\ v \in Choices(job[s])
    /\ verdict' = [verdict EXCEPT ![s] = v]
    /\ \/ /\ v = "none" \/ ~recommends
          /\ pc' = [pc EXCEPT ![s] = "committing"]
          /\ UNCHANGED change
       \/ /\ v # "none" /\ recommends
          /\ pc' = [pc EXCEPT ![s] = "writing"]
          /\ \E t \in todo[s] :
                 change' = [change EXCEPT ![s][t] = [status |-> v, closedAt |-> "keep"]]
    /\ UNCHANGED <<row, job, todo, flushed, announced, outcome>>

-----------------------------------------------------------------------------
Unflushed(s) == {t \in Thesis : change[s][t] # NoChange} \ flushed[s]
Locked(s, t) == \E r \in Session \ {s} : t \in flushed[r]

Flushed(s, t, tells) ==
    /\ pc[s] = "writing"
    /\ t \in Unflushed(s)
    /\ ~Locked(s, t)
    /\ row[t].status # "none" \/ job[s] = "create"
    /\ flushed' = [flushed EXCEPT ![s] = @ \cup {t}]
    /\ announced' = IF job[s] \in tells
                    THEN [announced EXCEPT ![s] = @ \cup {t}] ELSE announced
    /\ pc' = [pc EXCEPT ![s] = IF job[s] = "scan" THEN "thinking" ELSE "committing"]
    /\ UNCHANGED <<row, job, todo, change, verdict, outcome>>

\* Mutant: the scans publish nothing.
FlushSilentScan(s, t) == Flushed(s, t, {"close", "sell"})

\* The flush and, after it, the ThesisClosedEvent of the jobs that close: the
\* automatic invalidation publishes none.
\* An UPDATE that finds no row raises, and the session fails.
Flush(s, t) == Flushed(s, t, {"close", "sell", "scan"})

Overlay(r, c) ==
    [status   |-> IF c.status = "keep" THEN r.status ELSE c.status,
     closedAt |-> IF c.closedAt = "keep" THEN r.closedAt ELSE c.closedAt]

\* Mutant: every attribute of the object is written, changed or not.
CommitWhole(s) ==
    /\ pc[s] = "committing" /\ job[s] # "listener"
    /\ row' = [t \in Thesis |-> IF t \in flushed[s] THEN change[s][t] ELSE row[t]]
    /\ End(s, "committed")

\* The caller commits: get_session(), get_db_session(), the schedulers.
Commit(s) ==
    /\ pc[s] = "committing"
    /\ job[s] # "listener"
    /\ row' = [t \in Thesis |-> IF t \in flushed[s] THEN Overlay(row[t], change[s][t])
                                ELSE row[t]]
    /\ End(s, "committed")

\* The event listeners leave the session without a commit.
LeaveUncommitted(s) ==
    /\ pc[s] = "committing"
    /\ job[s] = "listener"
    /\ End(s, "discarded")
    /\ UNCHANGED row

\* An exception, a lost connection or a crash, at any await.
Fail(s) ==
    /\ pc[s] \notin {"new", "ended"}
    /\ End(s, "failed")
    /\ UNCHANGED row

\* What cannot be flushed: the database finds a cycle of sessions that wait for
\* each other's rows and ends one of it, or the row is gone.
Waits(s, r) == r # s /\ pc[s] = "writing" /\ Unflushed(s) \cap flushed[r] # {}
RowGone(s)  == /\ pc[s] = "writing" /\ job[s] # "create"
               /\ \E t \in Unflushed(s) : row[t].status = "none"

Stuck(s) ==
    \/ \E C \in SUBSET Session : s \in C /\ \A r \in C : \E q \in C : Waits(r, q)
    \/ RowGone(s)

Step(s) ==
    \/ SellLoads(s) \/ Conflict(s) \/ ScanEnds(s)
    \/ \E t \in Thesis : Judge(s, t) \/ Flush(s, t)
    \/ \E v \in Status, rec \in BOOLEAN : ReviewSaved(s, v, rec)
    \/ Commit(s) \/ LeaveUncommitted(s)

Start(s) ==
    \/ \E t \in Thesis : \/ Create(s, t) \/ SellPicks(s, t) \/ Delete(s, t)
                         \/ Reactivate(s, t) \/ Edit(s, t)
                         \/ \E st \in Terminal : Close(s, t, st)
                         \/ \E caller \in Reviews : Review(s, t, caller)
    \/ \E ts \in SUBSET Thesis : Scan(s, ts)

Next == \E s \in Session : Start(s) \/ Step(s) \/ Fail(s)

\* The event loop runs what is ready, AI calls return or raise (they have a
\* timeout), queries are assumed to, and the database resolves deadlocks.
Fairness == \A s \in Session : WF_vars(Step(s)) /\ WF_vars(Stuck(s) /\ Fail(s))

Spec     == Init /\ [][Next]_vars
FairSpec == Spec /\ Fairness

-----------------------------------------------------------------------------
\* closed_at is set exactly when the thesis is closed or invalidated, and
\* never while it is ACTIVE, in whatever order sessions commit.  (A WEAKENING
\* thesis may carry one: the reactor writes the status alone.)
StampAgrees ==
    \A t \in Thesis :
        /\ row[t].status \in Terminal => row[t].closedAt = "time"
        /\ row[t].status \in {"none", "ACTIVE"} => row[t].closedAt = "null"

\* No session closes a thesis without publishing the ThesisClosedEvent that
\* starts its post-mortem, the automatic invalidation after an edit excepted.
ClosingIsAnnounced ==
    \A s \in Session : outcome[s] = "committed" /\ job[s] # "edit" =>
        \A t \in Thesis : change[s][t].status \in Terminal => t \in announced[s]

\* Whatever order sessions take rows in, they never all wait: one of those that
\* run can take its next step, or is one that the database ends.
CanStep(s) ==
    \/ pc[s] \in {"picked", "checking"} /\ todo[s] # {}
    \/ pc[s] = "thinking" /\ job[s] \in Reviews \cup {"scan"}
    \/ pc[s] = "committing"
    \/ /\ pc[s] = "writing"
       /\ \E t \in Unflushed(s) : /\ ~Locked(s, t)
                                  /\ row[t].status # "none" \/ job[s] = "create"
NeverAllWait ==
    (\E s \in Session : pc[s] \notin {"new", "ended"})
        => \E s \in Session : CanStep(s) \/ Stuck(s)

\* Every session that starts ends: no two batches hold each other's rows for
\* ever.
SessionsEnd == \A s \in Session : (pc[s] # "new") ~> (pc[s] = "ended")
=============================================================================
