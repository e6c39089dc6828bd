----------------------------- MODULE EngineCycle -----------------------------
(* A cycle of the intelligence engine in the bot, from the request on the    *)
(* event bus to the message on Discord and the report that /intel shows.     *)
(* The bus has one worker: it builds a snapshot, ranks what it shows, asks   *)
(* the model to judge, and publishes a verdict that it later stores and      *)
(* pushes.  The store keeps the report twice, hot for HotTTL ticks and warm  *)
(* for ever; the command caches what it showed for PageTTL ticks.            *)
EXTENDS Naturals, Sequences

CONSTANTS
    HotTTL,   \* how long a stored report is fresh
    PageTTL,  \* how long an answer is cached
    Cycles,   \* bound: verdicts published
    Backlog   \* bound: events waiting

ASSUME TTLAssumption == HotTTL \in Nat \ {0} /\ PageTTL \in Nat \ {0}
ASSUME BoundAssumption == Cycles \in Nat /\ Backlog \in Nat

VARIABLES
    queue,    \* the events waiting on the bus, the one being handled first
    judging,  \* the worker awaits the model's judgement
    read,     \* what the snapshot of that cycle shows
    count,    \* the verdicts published so far
    store,    \* the stored report
    page,     \* the cached answer
    answer    \* the last answer given, for the properties

vars == <<queue, judging, read, count, store, page, answer>>

-----------------------------------------------------------------------------
(* What a snapshot shows, and the verdict of the ranking.  The market source *)
(* is left out: it reads a field that no scan writes.                        *)

Fact   == {"breach", "invalidated", "triggered", "drift", "stale", "spike"}
Source == {"portfolio", "thesis", "watchlist"}

From(f) ==
    CASE f = "breach" -> "portfolio"
      [] f \in {"invalidated", "drift", "stale"} -> "thesis"
      [] f \in {"triggered", "spike"} -> "watchlist"

\* In hundredths; the order in which the signals are listed comes first on a tie.
Weight == [breach |-> 100, invalidated |-> 90, triggered |-> 70,
           drift |-> 60, stale |-> 50, spike |-> 50]
Place  == [breach |-> 1, invalidated |-> 2, triggered |-> 3,
           drift |-> 4, stale |-> 5, spike |-> 6]

\* An overdue thesis is stale, and invalidated or drifting by how long it is
\* overdue; a spike is an alert that fired.  A fetcher that fails shows nothing.
Snapshots ==
    {F \in SUBSET Fact :
        /\ "stale" \in F <=> F \cap {"invalidated", "drift"} # {}
        /\ "spike" \in F => "triggered" \in F}

Least(a, b) == IF a < b THEN a ELSE b

\* Three sources that fire together amplify one another.
Score(F, f) ==
    IF \A s \in Source : \E g \in F : From(g) = s
    THEN Least(100, (Weight[f] * 12) \div 10) ELSE Weight[f]

\* Mutant: on a tie the signal listed last wins.
AheadOnTie(F, f, g) ==
    Score(F, f) > Score(F, g) \/ (Score(F, f) = Score(F, g) /\ Place[f] > Place[g])

Ahead(F, f, g) ==
    Score(F, f) > Score(F, g) \/ (Score(F, f) = Score(F, g) /\ Place[f] < Place[g])

Top(F) == CHOOSE f \in F : \A g \in F \ {f} : Ahead(F, f, g)

Verdict == {"BUY_SIGNAL", "SELL_SIGNAL", "HOLD", "REVIEW_THESIS", "RISK_ALERT", "NO_ACTION"}
Certain == 10000

\* In ten-thousandths.
Judged(verdict, confidence) == [verdict |-> verdict, confidence |-> confidence]

Heuristic(F) ==
    LET f == Top(F)
        u == 25 * Score(F, f) IN
    CASE F = {} -> Judged("NO_ACTION", 4000)
      [] F # {} /\ f = "breach" -> Judged("RISK_ALERT", Least(9500, 7000 + u))
      [] F # {} /\ f = "invalidated" -> Judged("REVIEW_THESIS", Least(9000, 6500 + u))
      [] F # {} /\ f \in {"triggered", "spike"} -> Judged("RISK_ALERT", Least(8500, 6000 + u))
      [] F # {} /\ f \in {"drift", "stale"} -> Judged("REVIEW_THESIS", Least(8000, 5500 + u))

Fallback == Judged("NO_ACTION", 0)

\* Whether the verdict is pushed to Discord.
Pushed(v) ==
    \/ v.verdict \in {"RISK_ALERT", "SELL_SIGNAL"}
    \/ v.verdict \notin {"NO_ACTION", "HOLD"} /\ v.confidence >= 6500

-----------------------------------------------------------------------------
Old == 0 .. HotTTL + PageTTL

\* What the ranking had to go by.
Shown   == {"nothing", "signals", "breach"}
Shows(F) == CASE F = {} -> "nothing" [] "breach" \in F -> "breach" [] OTHER -> "signals"

\* by: who gave the verdict of a completed cycle; shown: what its snapshot held.
By    == {"none", "engine", "model", "fallback"}
Event == [kind : {"requested", "scanned", "completed"}, no : Nat, by : By,
          shown : Shown, verdict : Verdict, confidence : 0 .. Certain]

Sent(kind) == [kind |-> kind, no |-> 0, by |-> "none", shown |-> "nothing",
               verdict |-> "NO_ACTION", confidence |-> 0]

\* age: since the report was stored or the answer cached; old: since its report
\* was stored, counted up to where no answer may be called fresh.
Store  == [no : Nat, hot : BOOLEAN, age : 0 .. HotTTL, old : Old]
Page   == [no : Nat, stale : BOOLEAN, age : 0 .. PageTTL, old : Old]
Answer == [no : Nat, stale : BOOLEAN, old : Old]

NoStore  == [no |-> 0, hot |-> FALSE, age |-> 0, old |-> 0]
NoPage   == [no |-> 0, stale |-> FALSE, age |-> 0, old |-> 0]
NoAnswer == [no |-> 0, stale |-> FALSE, old |-> 0]

TypeOK ==
    /\ queue \in Seq(Event)
    /\ judging \in BOOLEAN
    /\ read \in SUBSET Fact
    /\ count \in Nat
    /\ store \in Store
    /\ page \in Page
    /\ answer \in Answer

Init ==
    /\ queue = <<>>
    /\ judging = FALSE
    /\ read = {}
    /\ count = 0
    /\ store = NoStore
    /\ page = NoPage
    /\ answer = NoAnswer

-----------------------------------------------------------------------------
(* The bus.                                                                  *)

\* A schedule or a command asks for a cycle; a scan ends, or the investor acts.
Send(kind) ==
    /\ kind \in {"requested", "scanned"}
    /\ Len(queue) < Backlog
    /\ queue' = Append(queue, Sent(kind))
    /\ UNCHANGED <<judging, read, count, store, page, answer>>

Handles(kind) == queue # <<>> /\ Head(queue).kind = kind

Build ==
    /\ Handles("requested") /\ ~judging
    /\ read' \in Snapshots
    /\ judging' = TRUE
    /\ UNCHANGED <<queue, count, store, page, answer>>

BuildFails ==
    /\ Handles("requested") /\ ~judging
    /\ queue' = Tail(queue)
    /\ UNCHANGED <<judging, read, count, store, page, answer>>

\* The verdict is published behind what waits.
Complete(by, v) ==
    /\ judging
    /\ count < Cycles
    /\ count' = count + 1
    /\ queue' = Append(Tail(queue),
                       [kind |-> "completed", no |-> count + 1, by |-> by,
                        shown |-> Shows(read), verdict |-> v.verdict,
                        confidence |-> v.confidence])
    /\ judging' = FALSE
    /\ read' = {}
    /\ UNCHANGED <<store, page, answer>>

\* The model answers: one verdict that is pushed and one that is not stand for all.
Judges == \E v \in {Judged("RISK_ALERT", 6500), Judged("HOLD", 6500)} : Complete("model", v)

\* The call to the model fails or times out: its agent answers for it.
CallFails == Complete("fallback", Fallback)

\* The agent raises: the verdict of the ranking stands.
AgentFails == Complete("engine", Heuristic(read))

Stored(no) == [NoStore EXCEPT !.hot = TRUE, !.no = no]

\* The report is stored, and the verdict sent to Discord if it is pushed.
Deliver ==
    /\ Handles("completed")
    /\ store' = Stored(Head(queue).no)
    /\ queue' = Tail(queue)
    /\ UNCHANGED <<judging, read, count, page, answer>>

\* Mutant: the warm copy goes with the hot one.
Dropped == NoStore

\* Only the hot copy goes.
Cooled == [store EXCEPT !.hot = FALSE]

Invalidate ==
    /\ Handles("scanned")
    /\ store' = Cooled
    /\ queue' = Tail(queue)
    /\ UNCHANGED <<judging, read, count, page, answer>>

-----------------------------------------------------------------------------
(* The readers.                                                              *)

Fresh  == store.hot /\ store.age < HotTTL

\* Mutant: an answer is cached until the next one replaces it.
CachedForEver == page.no # 0

Cached == page.no # 0 /\ page.age < PageTTL

Show(a) == answer' = a /\ UNCHANGED <<queue, judging, read, count, store>>

LookCached ==
    /\ Cached
    /\ Show([no |-> page.no, stale |-> page.stale, old |-> page.old])
    /\ UNCHANGED page

LookStored ==
    /\ ~Cached /\ store.no # 0
    /\ Show([no |-> store.no, stale |-> ~Fresh, old |-> store.old])
    /\ page' = [no |-> store.no, stale |-> ~Fresh, age |-> 0, old |-> store.old]

-----------------------------------------------------------------------------
Older(n, top) == Least(n + 1, top)

Tick ==
    /\ store' = [store EXCEPT !.age = Older(@, HotTTL), !.old = Older(@, HotTTL + PageTTL)]
    /\ page' = [page EXCEPT !.age = Older(@, PageTTL), !.old = Older(@, HotTTL + PageTTL)]
    /\ UNCHANGED <<queue, judging, read, count, answer>>

\* Nothing of this is kept anywhere else.
Restart ==
    /\ queue' = <<>>
    /\ judging' = FALSE
    /\ read' = {}
    /\ store' = NoStore
    /\ page' = NoPage
    /\ answer' = NoAnswer
    /\ UNCHANGED count

Next ==
    \/ \E kind \in {"requested", "scanned"} : Send(kind)
    \/ Build \/ BuildFails
    \/ Judges \/ CallFails \/ AgentFails
    \/ Deliver \/ Invalidate
    \/ LookCached \/ LookStored
    \/ Tick \/ Restart

Spec == Init /\ [][Next]_vars

-----------------------------------------------------------------------------
(* Properties.                                                               *)

\* Whatever else fires beside it, a position at risk makes the ranking raise a
\* RISK_ALERT; and when the ranking had anything to go by, its verdict reaches
\* Discord (rank_signals, _synthesize, the subscriber's threshold).
EngineIsHeard ==
    \A i \in DOMAIN queue : LET e == queue[i] IN
        e.by = "engine" =>
            /\ e.shown # "nothing" => Pushed(e)
            /\ e.shown = "breach" => e.verdict = "RISK_ALERT"

\* An answer that is not called stale is of a report stored not longer ago than
\* the two lifetimes together.
FreshIsRecent ==
    answer.no # 0 /\ ~answer.stale => answer.old < HotTTL + PageTTL

Feed == INSTANCE ReportFeed WITH published <- store.no, shown <- answer.no

\* The readers of a process never go back to an older report, whatever is
\* cached, invalidated and expires in between.
ImplementsFeed == Feed!Spec
=============================================================================
