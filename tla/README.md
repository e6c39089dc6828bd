# TLA+ models of stock-agent

stock-agent is an assistant for one investor in the Vietnamese stock market: it
keeps a watchlist, investment theses, a portfolio and a log of decisions, asks a
language model about them, and talks to the investor through a Discord bot and a
web dashboard. `docker-compose.yml` runs it as three processes: two uvicorn
workers of the API and the bot, which alone has the schedulers. Each has
its own event bus, caches and stores; what they share is PostgreSQL. Inside a process
segments (`thesis`, `portfolio`, `watchlist`, ...) call each other through services and
through the bus. Everything there runs on one asyncio loop, so two handlers
interleave exactly at their `await`s: a query, a price, a call to the language
model.

This directory models the parts of the program where that matters: the bus that
connects the segments, the life of a thesis and the edits of its assumptions, the
books of a position and the path of a trade, the alerts of the watchlist, the closing
prices and the end-of-day rows, the cycle of the intelligence engine, and what becomes
of logged decisions. TLC checks the models on small instances, TLAPS proves their main
invariants for every instance.

Paths below are relative to `src/src/` of the repository.

- [Running](#running)
- [The system](#the-system): the components, their state, and what makes them right
- [The models](#the-models): which module models what, and how
- [The runs](#the-runs): what each shows, bounds, fairness
- [The proofs](#the-proofs)
- [What the code does that its comments deny](#what-the-code-does-that-its-comments-deny)
- [What is not modelled](#what-is-not-modelled)
- [Plan](#plan)

## Running

    tlasany EventBus.tla
    tlc -workers 2 -config MCEventBus.cfg MCEventBus
    tlapm EventBusProofs.tla

Each `*.cfg` names its instance in its first lines. A module `MCx` extends `x` with
the refinement mapping and the liveness properties, with the history that they need
(`met`, the sessions that overlapped) and with values for constants; `MCTradingDay` does
so for five modules at once. A module `xProofs` extends `x`, or `MCx` where it is about
the refinement, with theorems; `TradingDayProofs` has those of ThesisComponents,
of DecisionOutcomes and of the five parts together. An
operator under a comment `Mutant:` is a plausible mistake in the code, kept beside
the operator it would replace; `PROJECT.json` pairs each with the property that
notices it.

## The system

### How the parts interact

    Discord commands, schedulers        dashboard (FastAPI)
                 \                        /
              TradeUseCase   ThesisService   ScanService   ReviewService ...
                 |                |              |             |
                 +------ one AsyncSession per request or job ---+----> PostgreSQL
                 |
          UserActionEvent, ThesisClosedEvent, SignalDetectedEvent, ...
                 v
        EventBus: queue -> one worker -> listeners, each with its own session
        (one bus per process: the bot does not hear what the API publishes)

- **Calls.** A route, a command or a scheduled job opens a session, gives it to one
  or more services and commits when they return (`get_session`, `get_db_session`).
  Some code opens `AsyncSessionLocal()` itself, and that one does not commit on exit.
- **Sessions.** `autoflush=False`, `expire_on_commit=False`, READ COMMITTED, and no
  row carries a version. An object is read once; what was set on it is flushed by
  the repository's `save`, naming the changed columns only.
- **Events.** `publish` puts an object on a queue. The worker awaits the listeners of
  its type one after the other. A listener runs in its own session and usually after,
  but sometimes before, the publisher has committed.
- **Tasks.** Some work is fired with `create_task` and forgotten: the `UserActionEvent`
  of a trade, the persistence of snapshots, the replay of a decision.

### The components

| Component | State | Operations | What makes it right |
|---|---|---|---|
| platform: event bus (`platform/event_bus.py`) | queue, handlers, dedup stamps, dead letters, worker task | publish, start, stop, dispatch | each accepted event reaches each handler once, in order, whatever handlers raise; a key at most once a window; stop drains |
| platform: wiring (`bootstrap.py`, `db.py`, `container.py`, `config.py`) | singletons | construct, shut down, open sessions | subscriptions precede events; stores are loaded at start |
| thesis: lifecycle (`thesis/service.py`, `stop_breach_service.py`, `watchdog_service.py`, `review_service.py`, listeners) | `Thesis.status`, `closed_at` | create, close, invalidate, reactivate, delete, scan, review | `closed_at` agrees with status; a closing is announced; a closed thesis is only reopened by hand, and not beside another |
| thesis: scoring, health, drift (`component_service.py`, `invalidation_service.py`) | scores, assumptions, catalysts | edit, recompute, invalidate past the threshold | no two edits miss the threshold together, or wait for each other |
| thesis: decisions and outcomes (`decision_service.py`, `outcome_filler_service.py`) | decision log, pre-trade advice, outcomes, post-mortems | log, reconcile, evaluate at a horizon, post-mortem | a decision with its trade; an advice settled once; an outcome of one evaluation, kept by the jobs |
| thesis: replay, lessons, stress tests (`decision_replay_scheduler.py`) | lessons, patterns | nightly batches | what is due gets its lesson |
| portfolio: books (`portfolio/service.py`) | positions, trades, dividends | buy, sell, split, correct, edit | realized P&L and cost agree with the cash; rows agree with the position |
| portfolio: trade flow (`trade_usecase.py`, `user_action_listener.py`) | one request; adapters | buy or sell, log, emit, feed back | no shares from nowhere; feedback only of what happened |
| portfolio: valuation and sizing (`eod_snapshot_service.py`) | one row per position and day | the job of 15:20, its catch-up, refresh and deletion after a trade | every open position has the day's row, at the closing price; a closed one has none |
| watchlist: alerts and scan (`scan_service.py`, `alert_service.py`) | alerts ACTIVE or TRIGGERED, signal rows, scan snapshot | scan, re-arm, react | a one-shot alert fires once; a re-armed one not within its cooldown; what was shown is stored |
| watchlist: items and reminders | items; no reminder is ever stored | track, untrack | one item per ticker |
| core: intelligence engine (`core/engine.py`, `snapshot.py`, `signals.py`) | a snapshot per cycle | rank the signals, ask the model, publish a verdict | what the ranking finds is heard, whatever fires beside it |
| readmodel: caches and snapshots (`intelligence_snapshot.py`) | TTL caches, hot and warm copies | read through, invalidate | no reader goes back to an older report; what is called fresh is |
| readmodel: queries, dashboards | none | read | - |
| briefing | briefs | generate, store, deliver | a brief marked done was delivered |
| market data (`market/quote_service.py`) | per process: the last quote of a ticker, fetches under way | fetch or join a fetch, capture the close, save, load | a captured close is not lost to a late answer |
| market: screening, trends, discovery | trend baselines | compare, publish a shift | a shift is measured from the last scan |
| ai: client, context, agents, memory | prompt cache, logs of interactions | call, parse, append | errors come back as exceptions or `None` |
| bot: schedulers, commands, subscribers | timers | call services, send messages | a job that fails does not stop the next |
| api: routes and dashboard | none | parse, call, lay out | commit on success only |

### What is hard about it

`PROJECT.json` lists the hazards at their lines. They come in families:

- **stale objects**: a status read before the language model answers and tested
  after it; a thesis read again with what was set on it unflushed; a quantity loaded
  before another trade committed.
- **transactions in the wrong place**: an event published before the commit that it
  reports; a commit in the middle of a trade; a session left without a commit; a
  rollback of more than was meant.
- **caches that age apart**: a fetch that lands after the closing price was taken; a hot
  copy, a warm copy and a page over them; a process that was down at 15:20.
- **jobs that meet**: two that select by the same empty column; rows locked across a
  call to the language model.
- **check-then-act without a lock or a unique index**: reactivation, first buys,
  watchlist items, answers to an advice.
- **one of several fails**: handlers of an event, adapters of a trade, theses of a
  scan, reminders of a morning.
- **start, stop, restart** of the bus, and what a crash leaves of it.
- **long sequences of legal calls** on the books: splits, partial sells and
  corrections whose averages have to agree in the end.

## The models

All models share one granularity: an action is what a coroutine does between two
awaits that let somebody else in, and it includes every change made there. Text,
prices and verdicts are small sets; what the language model answers is a choice.

### EventBus, EventChannel (`platform/event_bus.py`)

| EventBus | Code |
|---|---|
| `queue`, `running`, `workerTask`, `lastSeen`, `deadLetters` | `_queue`, `_running`, `_worker_task`, `_dedup`, `_dead_letters` |
| `unfinished` | the queue's own count for `join()` |
| `pc`, `cur`, `next` | each worker task, its event, the index of the next handler |
| `Publish` | `publish` (`publish_sync` schedules the same) |
| `Start`, `Stop`, `JoinReturns` | `start`, and `stop` before and after its `join()` |
| `Take`, `Exit`, `DispatchEnds` | `_worker`: got an event, got none and leaves, `task_done()` |
| `HandlerReturns`, `HandlerRaises` | `_dispatch`: a handler's end, and a dead letter |

`acceptedAt`, `delivered`, `finished` and `owed` record what happened. Handlers are
subscribed in bootstrap before any event, so how many an event has is a constant. The
poll of one second in `_worker` is abstracted to "may leave when the flag is down and
the queue empty".

`EventChannel` is what the segments rely on: the handler calls of accepted events,
made once each and in order. The mapping takes as `todo` the rest of the calls for the
event in hand and then those of the queue.

### ThesisLifecycle, ThesisStates (`thesis/`, `watchlist/review_outcome_reactor.py`)

A `Session` is one database session doing one job. It loads committed rows, sets
attributes (`change`), flushes them (`flushed`, which takes the row lock) and commits
(`row`). `change` has a "keep" per column, because the UPDATE names the changed
columns only: two sessions may each write half of a row.

| ThesisLifecycle | Code |
|---|---|
| `Create`, `Close`, `Delete`, `Reactivate` | `ThesisService.create`, `close` and `invalidate`, `delete`, `reactivate` |
| `SellPicks`, `SellLoads` | `mark_closed`, two queries |
| `Edit` | `component_service` ending in `_auto_invalidate_if_needed` |
| `Scan`, `Judge`, `ScanEnds` | `StopBreachService.scan`, `WatchdogService.run_for_user` |
| `Review`, `ReviewSaved` | `review_thesis`, `_persist_review` and the reactor |
| `Conflict` | the query for another open thesis of the ticker |
| `Flush` | `repo.save`, and the `ThesisClosedEvent` published after it |
| `Commit`, `LeaveUncommitted` | a caller that commits, a listener that does not |
| `Fail` | an exception at any await |
| `Waits`, `RowGone`, `Stuck` | an UPDATE that waits for another session's row, one that finds no row; a cycle of such waits, of any length, or a row that is gone |

`ThesisStates` is the lifecycle its readers expect, with a step per decision.

### PositionBooks (`portfolio/service.py`, `repository.py`, `models.py`)

One ticker, operations one at a time (TradeFlow has their interleavings). Money is in
hundredths of a unit, so fees in percent are exact; a position keeps its cost basis
`qty * avg_cost` rather than the average, and division rounds down where the code's
floats would. Its parts are named `BooksInit`, `BooksNext`, `BooksTypeOK`, because
MCTradingDay extends it beside other modules.

| PositionBooks | Code |
|---|---|
| `Buy`, `Sell`, `Split`, `Correct`, `Edit` | `buy`, `sell`, `apply_stock_split`, `correct_trade`, `edit_position` |
| `BuyInto`, `IsOpen` | `get_open_position`, or a new position |
| `EffectivePrice`, `CostOf`, `Proceeds` | the buy fee in the cost; cost and net proceeds of a sale |
| `AddTrade`, `trades` | `save_trade`, the `Trade` rows |
| `locked` | `locked_qty` |

`cash` is the money the trades moved, kept apart from the books and from the formulas
of the code, so that the two can be compared; `manual` remembers who was corrected.

### TradeFlow, TradeLedger (`trade_usecase.py`, `decision_service.py`, `user_action_listener.py`)

A request reads the position, computes a quantity, writes it, may log a decision in
the same session, creates the task that publishes its event, and returns to its
caller, who commits. Beside it run other requests, their tasks, and the worker of the
bus with the adapters of `UserActionFeedbackListener`.

| TradeFlow | Code |
|---|---|
| `BuyLoads`, `SellLoads`, `Write` | `buy`, `sell`: load, check, save |
| `NotLogged`, `LogReads`, `LogBreaks`, `LogWrites`, `LogEnds` | `TradeUseCase._log_decision` and `DecisionService.log_decision`, with its own commit in `LogWrites` |
| `Schedule`, `Publish` | `_emit_user_action`: create the task; the task runs |
| `Commit`, `Fail` | the session's exit in the route or the command |
| `Take`, `ReadAdvice`, `AdapterReturns`, `AdapterRaises` | the worker; `_thesis_reconcile_pretrade` and the other adapters, in order |
| `pos`, `answered` | committed positions; which trade an advice is committed as answered by |

`TradeLedger` is the promise: each request moves its quantity once or not at all, and
what is held never goes below zero. A request that ran beside no other is a step of it,
whatever those that overlapped before it have left in the positions.

### AlertScan, AlertStates (`watchlist/scan_service.py`, `alert_service.py`, callers)

A `Job` is one scanning session: the tick of five minutes, which first re-arms in a
transaction of its own, or a request (the proactive listener, a command, a page whose
snapshot is old). Time is the age of a row and stops counting at `Cap`.

| AlertScan | Code |
|---|---|
| `RearmReads`, `RearmCommits` | `reactivate_cooled_down`: 4 h for CHANGE_PCT_*, 24 h for VOLUME_SPIKE |
| `List` | `list_for_user`, then the prices |
| `Mark` | `process_triggered` and its flush, then `_emit_events`, whose failure rolls back (`kept`) |
| `Commit`, `Tell` | the caller's commit; the message, and for a listener or a command one more read |
| `Remove`, `Create`, `Fail` | the investor drops or adds a ticker; an exception or a restart |

`AlertStates` is the promise: triggered once, named once, re-armed only if the type may be
and after its cooldown. A scan that ran beside no other, and lost nothing, is a step of it.

### ClosingPrices (`market/quote_service.py`, `portfolio/eod_snapshot_service.py`, `bot/scheduler.py`)

A price is known only by when it was matched: before today, in the session, or in the
closing auction.

| ClosingPrices | Code |
|---|---|
| `last`, `flight`, `saving`, `saved` | `_last_known`, the fetch others join, the tasks that save, the table |
| `Ask`, `Land`, `FetchFails`, `Save`, `Carried` | `get_quote`, `_carry_close`, the save nobody awaits |
| `CaptureFetches`, `CaptureSaves`, `CaptureFails` | `capture_eod_close` at 14:50, once more after a failure |
| `EodChecks`, `EodLists`, `EodWrites`, `EodCommits`, `EodFails` | `_maybe_catchup`; the job of 15:20 |
| `TradeByApi` | a route's trade or edit, committed before its refresh begins |
| `RefreshDeletes`, `RefreshReads`, `RefreshWrites`, `RefreshFails` | `refresh_after_trade`: the rows deleted, or the position read, a quote awaited up to eight seconds, and the row written |
| `TradeByBot` | the bot's commands, which refresh nothing |
| `ToAtc` ... `NewDay`, `BotStops`, `BotStarts`, `ApiRestarts` | the clock, and restarts |

The two API workers are one process here: they share nothing with each other that they do
not share with the bot. Nothing keeps other requests, or the bot's commands, from trading a
ticker whose refresh is under way, and what such requests do after they have read the
position depends on nothing but how far they are; so `refresh` counts, per ticker, how many are
at which stage. No property speaks of the price a refresh writes, and `rows` only
says who has a row of today; the job's prices are kept until it commits. `day` records what the properties speak of: who is owed a row,
whose rows were deleted, what was captured.

### EngineCycle, ReportFeed (`core/`, `readmodel/intelligence_snapshot.py`, the subscribers)

One process, the bot: its bus has one worker, which builds the snapshot, ranks it, awaits
the model and publishes behind whatever waits.

| EngineCycle | Code |
|---|---|
| `Send` | the timer, the commands, and the events that invalidate |
| `Build`, `BuildFails`, `Snapshots` | `build_snapshot`: which facts can occur together |
| `Score`, `Ahead`, `Top`, `Heuristic` | `rank_signals`, the amplification, the verdict table of `_synthesize` |
| `Judges`, `CallFails`, `AgentFails` | the model's verdict, the fallback of its agent, the ranking's |
| `Deliver`, `Pushed` | `put` of the report; the threshold for a message |
| `Invalidate`, `Fresh` | the hot copy goes, the warm one stays |
| `LookCached`, `LookStored`, `Tick`, `Restart` | the command over its page cache; time; a restart |

`ReportFeed` is what a reader may count on: reports are numbered, and none older than the
last one shown is shown again until a restart. `ImplementsFeed` is that refinement.

### ThesisComponents (`thesis/component_service.py`, `invalidation_service.py`, `review_service.py`)

The assumptions of one thesis and the sessions that edit them. A session locks the rows it
writes until it commits; a query sees what is committed by then.

| ThesisComponents | Code |
|---|---|
| `EditLoads`, `AddLoads`, `OtherLoads` | edits and accepted recommendations; catalysts and their expiry |
| `ReviewLoads`, `ReviewOpens`, `MayApply` | the review's own recommendations, applied after the model answered |
| `Writes` | the UPDATE of the assumption, first |
| `Scores`, `Saves` | the new score, which writes the thesis only if it differs |
| `Checks`, `Invalidates` | more than half INVALID and still ACTIVE; a review skips it (`AfterScore`) |
| `Commits`, `Fails` | the session's exit |
| `Closes`, `Reopens` | ThesisLifecycle, as far as it matters here |

`excused` says when a thesis may be ACTIVE past the threshold: a review made it so, or a
reactivation, which looks at no assumption, or an edit that left the score as it was beside
another session and so never waited for the thesis.

### DecisionOutcomes (`thesis/decision_service.py`, `outcome_filler_service.py`, `decision_replay_scheduler.py`)

| DecisionOutcomes | Code |
|---|---|
| `FillerLists`, `FillerCommits` | the filler of 15:05: one user's decisions, one commit, verdicts from 2.5 % |
| `BatchLists`, `BatchEvaluates`, `BatchSkips`, `Learns`, `BatchEnds` | the batch of 15:15 or of a command: every user, a commit per row, verdicts from 5 %, then the lesson |
| `HandLoads`, `HandEvaluates`, `Learns` | evaluating and replaying by hand, which ask for no horizon |
| `Written` | an UPDATE of the columns that differ from what was loaded |
| `GivesUp` | no price, an error, a restart |

An outcome is how far the price moved and the verdict given on it. Whether 2.5 to 5 % is a
verdict depends on who evaluated: both are outcomes the code means. `torn` records rows that
one session wrote between another's load and its write.

## The runs

| Run | Instance | States | Shows |
|---|---|---|---|
| `bus_restart` | 3 events, two with one key, 2 calls of `start()`, one or two of `stop()` | 108 k | at most once, dedup spacing, draining, an exact count with two workers on one queue; with one, the bus implements EventChannel; what is accepted is dispatched and `stop()` returns |
| `thesis_overlapping` | 2 theses of one ticker, 2 sessions, any interleaving | 53 k | stamps agree, closings are announced, sessions never all wait for each other and all end; a session that ran alone is a step of ThesisStates, and only `create` or an overlap makes two open theses |
| `trade_sequential` | 2 requests one after the other, or two that overlap and log nothing and a third after them; quantities 1 and 2; 2 advices; the worker | 367 k | a request that ran beside no other is a step of the ledger; decisions with their trades; advices settled; every adapter tried, in the end |
| `alert_scans` | a one-shot and a re-armed alert, 2 sessions of any kind | 123 k | a lone scan is a step of AlertStates; a price alert never comes back; a re-armed one comes back |
| `trading_day` | five models beside each other, see below | 1.24 M | the closing prices, the engine, the books, the edits, the outcomes |
| `thesis_overwrite`, `thesis_reaction_lost`, `thesis_review_lost`, `books_split_undone`, `trade_event_early`, `day_missed`, `outcome_unreplayed` | one or two actors | small | each violates a sentence of the code's own comments, see below |

`trading_day` checks five modules that share no state in one run: `part` is chosen in the
first state and says which of them moves, so its states are the sum of theirs and not
the product.

| Part | Instance | States | Shows |
|---|---|---|---|
| prices | 1 ticker, one fetch or save under way, two refreshes, days without end | 736 k | a captured close stays and is what the job writes; an untraded day leaves nobody without a row; closed stays gone |
| engine | 2 verdicts, 2 events waiting, `HotTTL = 2`, `PageTTL = 1` | 40 k | a position at risk is heard; fresh is recent; ReportFeed |
| books | 2 successive positions, 3 trades, prices and quantities 1 and 2, fee and tax 10 % | 240 k | books balance; rows account for positions; closed positions are settled |
| edits | 2 assumptions, 2 sessions | 211 k | the threshold is kept, edits do not deadlock, a lone review restores nothing |
| outcomes | 2 decisions, one without a price, 2 sessions | 17 k | jobs keep what stands; verdict and move are of one evaluation |

### Bounds, and why they are enough

- **Bus.** Nothing in the code counts events or handlers; its only arithmetic is the
  window, where "at the end of it" (`Window = 1`, `MaxTime = 1`) is the interesting
  value and the proofs cover the others. Two events with one key are a
  duplicate, and a third can be queued behind. A second
  worker needs a second `start()`; a third adds no kind of overlap, and `AtMostOnce` is
  proved for any number.
- **Theses.** All interference is between two writers of one row or two rows of one
  ticker; deadlock needs two rows and two sessions. A session does one job, but every
  combination of statuses is a first state, so what a history of jobs led to is there.
- **Books.** Three rows are a buy, a split and a sell or correction, or a closed
  position and another beside it. Prices 1 and 2 with 10 % fee and tax give P&L of
  both signs and averages that do not divide. `MaxTrades` bounds rows; edits and
  corrections in between are unbounded. `Locks = {}`: `locked_qty` limits nothing but what
  the dashboard shows, no property here speaks of it, and the theorems cover every `Locks`;
  `books_split_undone` has `Locks = {0, 2}`.
- **Trades.** Two sequential requests are enough for a buy and a sale of more, the same
  or less than it, with any failure in between; each may refer to either advice while
  the listener answers the other. The third (`Late`) comes after two that may have
  overlapped: two first buys, and one that then finds two open positions.
- **Alerts.** One alert of each kind, since a scan treats alerts apart from each other except
  that they are rolled back together; two sessions, as in Theses. Cooldown 0 with
  `Cap = 1` tells "at the cutoff" from "after it".
- **Prices.** `Tasks = 1`: the fetch or save of either process that races the capture.
  `Requests = 2`: two refreshes of a ticker under way, one that has read the position or
  is about to and one that deletes its rows; a third does what one of the two does. They share
  no variable with fetches and saves, and two of them are under way only while there is none
  of those (`Crowded`). `day_missed` needs one refresh. Trades are not bounded. Rows of
  different tickers meet only in the question whether any row of the day exists, for which
  `day_missed` has two tickers; the theorems cover any number of both.
- **Engine.** `Cycles = 2` is an older and a newer report, `Backlog = 2` an event before and one
  behind the verdict. The lifetimes let a stored report expire while a page still
  shows it. All snapshots, not a sample, are enumerated.
- **Edits.** Two assumptions, of which both have to be INVALID for "more than half", and two sessions
  with one each: neither sees the threshold alone.
- **Outcomes.** A decision that can be evaluated and one that cannot, and any two of the
  filler, the batch and the two hands, twice the same one too. `Strangers` only narrows
  what the filler lists; the theorems cover it.

No run uses symmetry; in the books part of `trading_day` the first position is opened
first, as ids are given out in order. `CHECK_DEADLOCK FALSE`
is in every configuration: the buses, trades and requests of an instance are finite and
their models end, and the violation runs need no more. (The alerts, the day, the edits and
the outcomes go on for ever.)

### Fairness

- *Bus*: weak fairness of each worker's step, of `start()` and of the return of `join()`.
  The loop runs every task that is ready; bootstrap awaits `start()`. Handlers are
  assumed to return or raise, which the bus itself does not enforce: without that nothing
  behind a hanging handler is ever dispatched.
- *Theses*: weak fairness of a session's step. Calls to the language model
  return or raise (`ai/client.py` gives them a timeout); that queries do is assumed, as
  `platform/db.py` sets no timeout. Two sessions that hold each other's rows are
  resolved by the database, which ends one of them: fairness of `Fail` is assumed only
  where `Stuck` holds.
- *Trades*: weak fairness of a request's step, of its publishing task and of the worker.
  Nothing is assumed of `Fail`.
- *Alerts*: weak fairness of time and of "a session goes on or fails"; strong fairness of the
  scheduler's opening a session, whose loop calls it again after every tick, and of the two
  steps of re-arming, that is, re-arming does not fail every time it is tried.
- *The day*: none. All its properties are of safety: a bot that is down stays down.

## The proofs

A theorem holds for all values of the constants that satisfy the assumption of its
module. `tlapm` checks all obligations; no step is left without a proof.

| Module | Assumption | Theorems |
|---|---|---|
| EventBusProofs | `BusAssumption`: keys and handler counts are what they are, the window is a natural number | `TypeCorrect`, `DedupSpacingAlways`, `EveryHandlerCalledAlways`, `AtMostOnceAlways`, `CalledInOrderAlways`, `UnfinishedIsExactAlways`, `DrainedWhenStoppedAlways`, `JoinIsServedAlways`, `ImplementsChannelAlways` |
| ThesisLifecycleProofs | `LifecycleAssumption`: theses have tickers, jobs are jobs | `TypeCorrect`, `StampAgreesAlways`, `ClosingIsAnnouncedAlways`, `ImplementsStatesAlways`, `OneOpenUnlessCreatedAlways`, `NeverAllWaitAlways`, `ReviewReacts` |
| PositionBooksProofs | `BooksAssumption`: prices, quantities and ratios positive, fee and tax natural | `BooksTypeCorrect`, `OneOpenAlways`, `BooksBalanceAlways`, `ClosedCostsNothingAlways`, `ClosedIsSettledAlways`, `RowsAccountAlways`, `CorrectionsBalanceAlways` |
| TradeFlowProofs | `FlowAssumption`: quantities and ids of advices positive | `TypeCorrect`, `LoggedIsDurableAlways`, `AdviceIsSettledAlways`, `EveryAdapterTriedAlways`, `ImplementsLedgerAlways`, `EventsAreKept`, `EarlyFeedbackOnly` |
| AlertScanProofs | `CoolAssumption`: only some types are re-armed, cooldowns are below `Cap` | `TypeCorrect`, `OneShotStaysDownAlways`, `ImplementsStatesAlways`, `DueStaysAlways` |
| ClosingPricesProofs | none | `DayTypeCorrect`, `CloseIsCarriedAlways`, `EodWritesCloseAlways`, `UntradedDayRecordedAlways`, `ClosedStaysGoneAlways` |
| EngineCycleProofs | `TTLAssumption`, `BoundAssumption`: lifetimes positive, bounds natural | `TypeCorrect`, `EngineIsHeardAlways`, `FreshIsRecentAlways`, `EngineImplementsFeed` |
| TradingDayProofs | `PartsAssumption`: finitely many assumptions; `OutcomeAssumption`: sets of decisions are; for the last one also those of the parts | `EditTypeCorrect`, `ThresholdKeptAlways`, `EditsNeverDeadlockAlways`, `RestoredByHandAlways`, `OutcomeTypeCorrect`, `VerdictFitsAlways`, `JobsKeepOutcomesAlways`, `LessonsHaveOutcomes`, `TradingDayTypes` |

Types carry weight in some of them: `qty \in Nat` in PositionBooks and `new \in Nat`
in TradeFlow say that no sequence of trades, overlapping or not, goes below zero; the
type of `comp` says that a deleted assumption is not written back; that of `outcome`
that a decision without a price never has one.

**The bus.** The invariants stand on each other. `Typed` adds to the types that a worker
has an event exactly while it dispatches. `StampsOK` says that a key's stamp is at least
as late as every event accepted under it, and the spacing follows, because an event is
accepted only a window after the stamp. `CalledSoFar` says that the handlers before the
next one were called, hence all of them when the dispatch ends. At-most-once is the
deep one: `delivered` alone is not inductive, since nothing in it says that a call will
not be made again. `Placed` says where an event can be: once in the queue and with no
worker (`QueueOK`), or with one worker that has made no call from `next` on (`HandsOK`),
or gone, and that what was delivered is of no queued event (`DeliveredOK`). That two
workers share the queue is harmless because `get()` takes what it returns. `CalledSoFar` and
`DeliveredOK` together give `CalledInOrder`, for any number of workers: before a handler is called
for an event, those subscribed before it were called and none of those after it. The count of
`join()` is exact since `Holding`, the workers with an event, grows and shrinks by one with
`Take` and `DispatchEnds`; and with `Found` (what was accepted is queued, held or finished)
a count of zero means that nothing is left, which is what `stop()` waits for (`Drained`).
The other half, that a `stop()` which waits is served, is `JoinIsServedAlways`: while it waits
the count is positive (`Waited`), so that an event is queued or in a worker's hands, and the
last worker does not leave before. Fairness to workers is all that `StopReturns` adds.

That the bus implements the channel is proved for one `start()` (`OneWorker`), queues of any
length and any numbers of handlers. Taking an event moves calls from the queue's part
of `Todo` to the hand's part, and the end of a handler moves the head of `Todo` to `delivered`;
both are facts about what `FlattenSeq` returns, whose recursion no prover here opens. So
the proof has an invariant `Flattens(Len(queue))`: for sequences of as many elements as the
queue has, exactly one function satisfies the equation of the recursion, which makes the
library's CHOOSE return it. One `Publish` makes the queue longer by one, and `FlattensNext` is
that step: the steps of the bus do the induction.

**The lifecycle.** `StampAgrees` speaks of rows, but the rows are written from stale
objects. What makes it true is a property of each session by itself: `ChangeOK`, a
terminal status is only ever written together with a time, ACTIVE together with null,
and WEAKENING with neither. Any order of such writes leaves consistent rows, and
`Consistent == ChangeOK /\ StampAgrees` is inductive. `null` over null is no change in
the code; that `Reactivate` skips it only when the row it read had none would be a gap,
were it not that a terminal row always has a time, which is the other half of the
invariant. For announcements, `Paired` ties `change` to what is flushed, pending and
announced: `OneWrite` (a session other than a scan writes at most one thesis), `Told` (what
a closing job flushed it announced) and `Pending` (what it has not flushed it cannot
commit, since `pc` is still "writing").

Nothing re-reads a row before it is written, so that a commit is a step of the abstract
lifecycle only if the rows are still what the session read. `LoneInv` says for which
sessions they are: `Meets`, who run at one time have met; `Shaped`, what a session at each
point of each job may have set (one row, or rows that a scan invalidates); `LoneFits`, what a
session that met nobody has set suits the rows as they are, the check for another open
thesis included. A session beside which anybody else takes a step has met somebody, so
`LoneFits` need only survive the session's own steps, and `CommitImplements` reads the
abstract step off it. `OneOpenUnlessCreated` follows for the sessions that reopen; the others
may overlap, as they only close and delete, which opens nothing.

Two of the runs show a review that writes over a closed thesis and one whose reaction is
lost. `ReviewReacts` says how far that can go: the commit of a review changes nothing, or
is the one of a command's review, and writes WEAKENING as the status of the thesis it is about
and nothing else; over a status other than ACTIVE only if a session ran beside it.
`ReviewOK` follows a review from what it loaded to what it set, which no other session
touches.

`NeverAllWait` is what `SessionsEnd` needs besides fairness. `Live` says that a session that
runs has something to do next, that what it is to write is not yet flushed, and that it
holds rows only while it runs. If then no session that runs can go on, each is writing
a row that another one of them holds (or that is gone), and the set of all that run is the
closed set of waiting sessions that `Stuck` asks for, whatever their number and the order in
which they took rows. `CanStep` spells out when `Step` is enabled.

**The books.** `IInv` adds `BoughtSome`, that an open position bought something, by which
`correct_trade` divides. The balance is kept operation by operation through one lemma,
`Update`: each operation is shown to be an update of one position with new values that
satisfy the invariant of that position. A sale moves the same amount from the cost to the
P&L whatever the rounding; that a sold-out position costs nothing needs `WholeCost`,
`(b * q) \div q = b`. That it is settled from then on is read off the guards of the
operations, each of which asks for an open position.

`RowsAccount` compares the position with sums over its rows. A new row adds its part to each
sum and a correction changes the part of one row; that a sum does so is a property of a
recursive function over sequences of every length, which cannot be shown by induction here.
An invariant therefore carries it along, as on the bus: `Adds(Len(trades))`, that sequences as
long as the rows have running totals, and that only one function is that, survives each row
that an operation adds.

A correction after a split breaks the balance. `CorrectionsBalanceAlways` says what is left:
without fees a position that was only bought into has paid exactly its BUY rows (`AsBought`),
so the mean that a correction takes is the true cost, however often and whichever row is
corrected. Sales, splits and edits take a position out of the statement; with a fee the rows'
prices are not what was paid.

**The trades.** `LoggedIsDurable` needs only that log and commit are one step. That an
advice stays settled is harder, as the worker and other requests write `answered` too, from
values they read earlier. `Settling` says that a request that saw its advice answered is
right for good, because no write ever puts `None` there, and `Busy` that the worker never
answers in the name of nobody. That every adapter is tried stands on where an event is
(`Places`: scheduled, queued or in hand, each once) and on what is left of the one in hand
(`Progress`).

That requests which ran beside no other make a ledger is proved for `MetSpec`, where requests
come in any kind, number and order; every behaviour of the run is one (`MCSpecIsMetSpec`).
Nothing is asked of those that overlap, and they may leave two open positions or a wrong
quantity behind: a later request either fails on what it finds or moves it by its own. `Meets`
says that who runs at one time has met; `Lone`, by `Computed`, what an uncommitted request
knows that met nobody: the open position it read is the only one, or there is none, and its
new quantity is the held one plus or less its own; `Waiting` that its trade is not durable yet. So
whichever commit makes the trade durable, `log_decision`'s own or the caller's, moves what is
held by the quantity of the order, once.

`EventsAreKept` is the safety under `FeedbackFollows`: a scheduled event is with its task, in
the queue or in the worker's hands until each of its adapters was tried, no step loses one, and
each trade that succeeded and each logged decision has one. `EarlyFeedbackOnly` bounds what
`trade_event_early` shows: adapters act on a trade that is not committed only before the caller's
commit or when the request failed, and never for a logged decision; a request that
reports success is committed.

**The alerts.** An alert that is not re-armed by itself comes back only if a session that
re-arms holds it; `RearmsRepeating` says that it never does, and deletions lead to "gone".
For the refinement, `LoneSees` says that a session which met nobody works on rows that are
still as it loaded them, so that what it triggers is ACTIVE, what it re-arms is past its
cooldown and what it tells was not told. `DueStays` is the safety under `Rearmed`: an alert past its
cooldown stays so until a session re-arms it or it is dropped. The one exception is a session
that read it ACTIVE, was overtaken by another and marks it again, which starts the cooldown
anew; `Sees` says that it must have met somebody.

**The closing prices.** `UntradedDayRecorded` is about a job that may be run by its timer or
by a catch-up after a restart, that reads positions, prices them one by one and commits,
while trades go on. `JobCovers` says that a running job has priced, or has still to
price, whoever is owed a row; `RowsAreOfAJob` that without a trade a row of the day is proof
that such a job committed; `OwedIsHeld`, `DownIsIdle` and `JobIsOfTheEvening` close it. For
`ClosedStaysGone`, `NothingUnderWay` says that a ticker that is gone is not held and that
neither the job nor any refresh still has its position in hand; a request that has yet to read it
finds none (`Looks`). A deletion that comes late may hit the row of a position bought again
meanwhile, and takes the ticker out of `owed` (the row is then not the job's to answer for).

**The engine.** `AheadIsPlace` is the heart of `EngineIsHeard`: amplified or not, capped at
100 or not, signals are ranked in the order in which the code lists them, so what amplification
does is nothing to the order. That readers never go back follows from a chain: what was seen is
not newer than what is cached, nor that than what is stored (`SeenIsStored`), and the verdicts
waiting on the bus are newer and in order (`QueueInOrder`, for which the worker must keep the
request it judges at the head, `JudgingHolds`). `StoreAges` and `PageAges` add the two lifetimes.
`EngineImplementsFeed` is a refinement, proved step by step.

**The edits.** `ThresholdKept` is about two edits each of which sees only its own. Its
invariant follows a session from its write to its commit: `CheckedFor` says that one which
passed its check looked at what it will commit, and, as it then holds the thesis or had met
nobody, that nobody commits in between; `PastHalfBefore` says that the committed rows were
not past half already. `RowIsOne` (one session holds the thesis) and `MetBoth` (sessions that
overlap know it) carry it. Deadlock is excluded since an edit takes the thesis after
its assumption and never the other way round.

**The outcomes.** An UPDATE names the columns that differ from what was loaded, so two
evaluations might leave the move of one with the verdict of the other. `OutInv` says what
was loaded: a job beside which nobody worked (`MetTogether`: who overlaps knows it) lists
only what is still empty, and what a session loaded is never emptied again.
`WrittenIsOutcome` is the case analysis on which columns are written. `LessonsHaveOutcomes`
needs no such condition: whatever overlaps or gives up, a write of the changed columns leaves an
outcome where one was, so that a lesson, asked for in one step and stored in a later one, is of
a decision that still has its outcome.

**Left to TLC.** Liveness (`AcceptedIsDispatched`, `StopReturns`, `SessionsEnd`,
`FeedbackFollows`, `Rearmed`), since TLAPS does not reason about ENABLED; for `StopReturns`,
`SessionsEnd`, `FeedbackFollows` and `Rearmed` the safety that they rest on is proved, see above. The other
way round, `EveryHandlerCalled`,
`EveryAdapterTried`, `OneOpen` and `ClosedCostsNothing` are in no run: the theorems have them
for every instance, and the runs check the refinements and the balance that they serve. No
module here declares a RECURSIVE operator.

## What the code does that its comments deny

Each has a run whose counterexample shows it. Where a sentence is false, a theorem often says
under what condition it is true: `ReviewReacts` for 1 and 2, `CorrectionsBalanceAlways` for 4,
`EarlyFeedbackOnly` for 5, `UntradedDayRecordedAlways` for 6.

1. **A review writes over a closed thesis** (`thesis_overwrite`,
   `watchlist/review_outcome_reactor.py:255`). The reactor tests the status that was loaded
   before the language model answered. A thesis closed meanwhile becomes WEAKENING and keeps
   its `closed_at`. Its comment: "never overwrite CLOSED, PAUSED, WEAKENING, INVALIDATED".
2. **The reaction is lost** (`thesis_reaction_lost`, `thesis/review_service.py:530`).
   `_persist_review` reads the thesis again with `populate_existing`, which discards the status
   that is not flushed yet, unless recommendations were saved in between.
3. **A listener's review is never committed** (`thesis_review_lost`,
   `thesis/thesis_review_listener.py:161`, and the same in
   `signal_review_trigger_listener.py`). `AsyncSessionLocal()` rolls back on exit.
4. **Correcting a buy after a split multiplies the cost** (`books_split_undone`,
   `portfolio/service.py:353`). The new average is the mean price of the BUY rows, of before the
   split, for shares of after it.
5. **The event of a trade precedes its commit** (`trade_event_early`,
   `portfolio/trade_usecase.py:360`). The docstring says "after trade commits"; a trade that
   is rolled back still closes its thesis.
6. **A traded day is missed** (`day_missed`, `bot/scheduler.py:2158`). The catch-up runs "if no
   snapshot exists for today", and a trade through the API has written one: a bot that was down
   at 15:20 leaves every other position without its row. Docstring: "Handles server restarts
   after 15:20 without missing the day".
7. **What the filler fills is never replayed** (`outcome_unreplayed`,
   `thesis/decision_service.py:511`). The filler of 15:05 sets the column by whose
   emptiness the batch of 15:15 selects. Comment: "so replay always reads fresh
   outcome_pnl_pct / outcome_verdict data".

The same reading left some that no run shows, because they are seen in one place: the
stores are bound with `hasattr(store, "container.session_factory")`, which is never true
(`platform/bootstrap.py:664`, `:677`), so nothing is persisted or loaded; `core/snapshot.py:245-264`
reads keys that no scan writes, so the market source never fires; a failed model call
publishes its fallback NO_ACTION rather than the ranking's verdict that
`intelligence_verdict.py:13-15` promises; `core/README.md:61` promises a session per fetcher
where one is shared; `refresh_after_trade` says that a closed
ticker never has a new row again, "ticker đã đóng không bao giờ có row mới lại"
(`portfolio/eod_snapshot_service.py:245-246`), which the job, or the refresh of another request,
that read the position before it was sold does write (the two exceptions of
`ClosedStaysGone`); `TrendBatch` calls `WatchlistService.get_watchlist`, which does not exist.

## What is not modelled

The repository has some 80 000 lines of Python and JavaScript, and the map about
6 000 of them. The rest is for the most part what a model of states and steps would only
repeat: prompts and schemas, layouts of Discord messages, the dashboard's
JavaScript, read-only queries, request parsing, arithmetic over floats, adapters to price
feeds, and their tests. It keeps no state that two actors share, or state nothing
reads again. What that leaves out by component:

- *Lifecycle and components*: scores, health and the texts of reviews; catalysts' rows and
  their locks; `apply_bulk_recommendations`, which goes back to an assumption after it
  locked the thesis (the deadlock theorem is of single edits); prices changed by
  `ThesisService.update`, which leaves the score as it was (hence "may differ" in `Scores`).
- *Books*: dividends and the logs of edits, which enter no quantity.
- *Trade flow*: the replay task, the thesis wired to a buy, the listener's other actions.
- *Decisions*: post-mortems and the pre-trade check, one row each;
  `ThesisReviewRequestedEvent` of a replay, whose listener commits nothing. A lesson that failed
  once is tried again by hand only. Two overlapping evaluations of a row that has an outcome
  can mix: `VerdictFits` names them.
- *Alerts*: their wording; dismissing, which nothing calls; reacting and muting, which
  `bot/signal_reaction_listener.py` and `core/user_action_listener.py` do for an alert named
  `alert:<id>` in a message's footer, and no message names one; snoozing a ticker, which no
  scan asks about; that a page's scan tells nobody. Overlapping scans may each send a message.
- *Reminders*: no reminder row is ever written (`ReminderService.upsert` has no caller), so the
  job that sends them has nothing to send.
- *Prices*: the amounts of a row, and the price a refresh gives it, of which nothing
  is promised (in the evening it may be the API's own stale quote); holidays.
- *Engine*: the multi-agent path, which nothing reaches; the global risk store, which nothing
  reads; the stored copies of snapshots, which are never bound to a database; in the
  API's processes the readers always find nothing.
- *Briefs*: one row, stored before it is delivered. *Replay of lessons, profiles, stress
  tests*: batches that store what a model says of rows.
- *Wiring*: construction in one order. That `shutdown()` does not stop the bus, so that
  a restart loses what is queued, is a line in the hazards.
- *Floats.* The code's averages are floats; the models' costs are integers that round down. The
  difference is a rounding error per operation, which `ClosedCostsNothing` shows not to survive a
  position; how large it grows within one is not claimed.

## Plan

Done, by worth: EventBus with EventChannel; ThesisLifecycle with ThesisStates;
PositionBooks; TradeFlow with TradeLedger; AlertScan with AlertStates; ClosingPrices;
EngineCycle with ReportFeed; ThesisComponents; DecisionOutcomes; and theorems of each, among
them that the five with an abstract specification implement it. Every safety property that a
passing run checks is a theorem.

Next:

1. **PostMortem**: `ThesisClosedEvent` twice, or of a closing that was rolled back.
2. **QuoteJoin**: the future of a cancelled fetch, with those who wait on it.
3. **Alert messages**: what overlapping scans, and one that was rolled back, may tell.
4. **AgentWorld**, a composition of EventBus with TradeFlow and ThesisLifecycle, in which the SELL
   adapter of the one starts a session of the other.
