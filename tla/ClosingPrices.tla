---------------------------- MODULE ClosingPrices ----------------------------
(* How a session's closing price reaches the daily snapshot of a position.   *)
(* Every process keeps the last quote it fetched and saves it, in tasks      *)
(* nobody awaits, to a table it loads when it starts.  After the auction the *)
(* bot stamps the closing prices on its own quotes; at 15:20 its job writes  *)
(* one row per open position from them; a request that trades through the    *)
(* API commits, and then rewrites or deletes the day's row while others may  *)
(* trade.  A price is known only by when it was matched: before today,       *)
(* during the session, or in the closing auction.                            *)

EXTENDS Naturals, FiniteSets

CONSTANTS
    Ticker,
    Tasks,     \* bound: fetches and saves under way at once
    Requests   \* bound: refreshes of a ticker under way at once

VARIABLES
    phase,    \* of the trading day
    up,       \* the bot runs
    last,     \* per process: the last quote it knows of each ticker
    flight,   \* per process: the price at the start of the fetch under way
    saving,   \* per process: the quote a task is about to save
    saved,    \* the table of quotes
    capture,  \* the bot's capture of the closing prices
    eod,      \* the bot's end-of-day job
    held,     \* the open positions
    refresh,  \* the API's refreshes after a trade, by how far they have come
    rows,     \* the tickers that have a snapshot row of today
    day       \* history, for the properties

prices  == <<last, flight, saving, saved>>
dayVars == <<phase, up, prices, capture, eod, held, refresh, rows, day>>

Proc  == {"bot", "api"}
Phase == {"session", "atc", "closed", "evening"}
Label == {"old", "live", "atc"}
Price == Label \cup {"none"}

Quote   == [price : Price, close : Price]
NoQuote == [price |-> "none", close |-> "none"]
Earlier == [price |-> "old", close |-> "none"]
Closing == [price |-> "atc", close |-> "atc"]

\* todo: the captured tickers still to be saved; left and wrote: the positions
\* the job has still to price, and the prices it has not committed yet.
Capture == [st : {"off", "due", "retry", "saving", "over"}, todo : SUBSET Ticker]
Job     == [st : {"off", "check", "due", "run", "over", "skipped", "failed"},
            left : SUBSET Ticker, wrote : [Ticker -> Price]]

\* How many refreshes of a ticker are about to delete its rows, to read the
\* position, and to write the row of a position they have read.
Refresh == [sold : Nat, changed : Nat, read : Nat]

\* owed: positions held at 15:20, not found without a quote by the job, and touched
\* since by no trade and no deletion; traded: a trade wrote a row today; gone: sold
\* tickers whose rows were deleted when nobody had still to write one (TakenUp);
\* taken: the tickers this run of the bot captured today.
Day == [owed : SUBSET Ticker, traded : BOOLEAN, gone : SUBSET Ticker, taken : SUBSET Ticker]

DayTypeOK ==
    /\ phase \in Phase
    /\ up \in BOOLEAN
    /\ last \in [Proc -> [Ticker -> Quote]]
    /\ flight \in [Proc -> [Ticker -> Price]]
    /\ saving \in [Proc -> [Ticker -> Quote]]
    /\ saved \in [Ticker -> Quote]
    /\ capture \in Capture
    /\ eod \in Job
    /\ held \in [Ticker -> BOOLEAN]
    /\ refresh \in [Ticker -> Refresh]
    /\ rows \subseteq Ticker
    /\ day \in Day

NoQuotes  == [t \in Ticker |-> NoQuote]
NoPrices  == [t \in Ticker |-> "none"]
NoRefresh == [t \in Ticker |-> [sold |-> 0, changed |-> 0, read |-> 0]]
NoCapture == [st |-> "off", todo |-> {}]
NoJob     == [st |-> "off", left |-> {}, wrote |-> NoPrices]

DayInit ==
    /\ phase = "session"
    /\ up = TRUE
    /\ saved \in [Ticker -> {NoQuote, Earlier}]
    /\ last = [p \in Proc |-> saved]
    /\ flight = [p \in Proc |-> NoPrices]
    /\ saving = [p \in Proc |-> NoQuotes]
    /\ capture = NoCapture
    /\ eod = NoJob
    /\ held \in [Ticker -> BOOLEAN]
    /\ refresh = NoRefresh
    /\ rows = {}
    /\ day = [owed |-> {}, traded |-> FALSE, gone |-> {}, taken |-> {}]

-----------------------------------------------------------------------------
(* Quotes.                                                                   *)

Now   == IF phase = "session" THEN "live" ELSE "atc"
Open  == phase \in {"session", "atc"}
Runs(p) == p = "bot" => up

\* Mutant: the last price of the session before the closing price.
PriceFirst(q) == q.price

Settled(q) == IF q.close # "none" THEN q.close ELSE q.price

\* Mutant: a fetch that lands late forgets the closing price.
NeverCarried(price, before) == [price |-> price, close |-> "none"]

\* A quote just fetched keeps the closing price taken earlier the same day.
Carried(price, before) ==
    [price |-> price, close |-> IF before.close = "atc" THEN "atc" ELSE "none"]

Work == Proc \X Ticker
Busy == Cardinality({w \in Work : flight[w[1]][w[2]] # "none"})
        + Cardinality({w \in Work : saving[w[1]][w[2]] # NoQuote})

Ask(p, t) ==
    /\ Runs(p) /\ Open /\ Busy < Tasks
    /\ flight[p][t] = "none"
    /\ flight' = [flight EXCEPT ![p][t] = Now]
    /\ UNCHANGED <<phase, up, last, saving, saved, capture, eod, held, refresh, rows, day>>

\* The answer reaches everyone who joined the fetch, and a task to save it.
\* Bound: one such task per process and ticker.
Land(p, t) ==
    /\ flight[p][t] # "none"
    /\ saving[p][t] = NoQuote
    /\ \E price \in {flight[p][t], Now} :
           LET q == Carried(price, last[p][t]) IN
           /\ last' = [last EXCEPT ![p][t] = q]
           /\ saving' = [saving EXCEPT ![p][t] = q]
    /\ flight' = [flight EXCEPT ![p][t] = "none"]
    /\ UNCHANGED <<phase, up, saved, capture, eod, held, refresh, rows, day>>

\* The provider fails, or the caller gives up after eight seconds.
FetchFails(p, t) ==
    /\ flight[p][t] # "none"
    /\ flight' = [flight EXCEPT ![p][t] = "none"]
    /\ UNCHANGED <<phase, up, last, saving, saved, capture, eod, held, refresh, rows, day>>

\* A save that fails is logged and forgotten.
Save(p, t) ==
    /\ saving[p][t] # NoQuote
    /\ saved' \in {saved, [saved EXCEPT ![t] = saving[p][t]]}
    /\ saving' = [saving EXCEPT ![p][t] = NoQuote]
    /\ UNCHANGED <<phase, up, last, flight, capture, eod, held, refresh, rows, day>>

-----------------------------------------------------------------------------
(* The capture of the closing prices: 14:50, once more after a failure.      *)

\* A ticker without a match, or unknown to the provider, is left as it is.
CaptureFetches(S) ==
    /\ capture.st \in {"due", "retry"}
    /\ last' = [last EXCEPT !["bot"] = [t \in Ticker |-> IF t \in S THEN Closing ELSE @[t]]]
    /\ capture' = [st |-> IF S = {} THEN "over" ELSE "saving", todo |-> S]
    /\ day' = [day EXCEPT !.taken = @ \cup S]
    /\ UNCHANGED <<phase, up, flight, saving, saved, eod, held, refresh, rows>>

CaptureSaves ==
    /\ capture.st = "saving"
    /\ saved' \in {saved, [t \in Ticker |-> IF t \in capture.todo THEN Closing ELSE saved[t]]}
    /\ capture' = [st |-> "over", todo |-> {}]
    /\ UNCHANGED <<phase, up, last, flight, saving, eod, held, refresh, rows, day>>

CaptureFails ==
    /\ capture.st \in {"due", "retry"}
    /\ \E st \in {"retry", "over"} :
           /\ capture.st = "retry" => st = "over"
           /\ capture' = [capture EXCEPT !.st = st]
    /\ UNCHANGED <<phase, up, prices, eod, held, refresh, rows, day>>

-----------------------------------------------------------------------------
(* The end-of-day job: 15:20, or when the bot starts later and finds no row  *)
(* of the day.                                                               *)

\* Mutant: the catch-up never runs.
NeverCatchesUp == eod' = [eod EXCEPT !.st = "skipped"]

EodDecides == eod' = [eod EXCEPT !.st = IF rows = {} THEN "due" ELSE "skipped"]

EodChecks ==
    /\ eod.st = "check"
    /\ EodDecides
    /\ UNCHANGED <<phase, up, prices, capture, held, refresh, rows, day>>

Held == {t \in Ticker : held[t]}

EodLists ==
    /\ eod.st = "due"
    /\ eod' = [eod EXCEPT !.st = "run", !.left = Held]
    /\ UNCHANGED <<phase, up, prices, capture, held, refresh, rows, day>>

\* The market is closed: the quote is the last one known, or there is none and
\* the position is skipped.
EodWrites(t) ==
    LET price == Settled(last["bot"][t]) IN
    /\ eod.st = "run" /\ t \in eod.left
    /\ eod' = [eod EXCEPT !.left = @ \ {t}, !.wrote[t] = price]
    /\ day' = [day EXCEPT !.owed = IF price = "none" THEN @ \ {t} ELSE @]
    /\ UNCHANGED <<phase, up, prices, capture, held, refresh, rows>>

EodCommits ==
    /\ eod.st = "run" /\ eod.left = {}
    /\ eod' = [NoJob EXCEPT !.st = "over"]
    /\ rows' = rows \cup {t \in Ticker : eod.wrote[t] # "none"}
    /\ UNCHANGED <<phase, up, prices, capture, held, refresh, day>>

\* A query, the upsert of a row or the commit fails: nothing of the job is kept,
\* whatever it reports.
EodFails ==
    /\ eod.st \in {"check", "due", "run"}
    /\ eod' = [NoJob EXCEPT !.st = "failed"]
    /\ UNCHANGED <<phase, up, prices, capture, held, refresh, rows, day>>

-----------------------------------------------------------------------------
(* Trades.  Through the API the trade is committed first and the day's row   *)
(* refreshed afterwards, in a session of its own and under no lock: other    *)
(* requests and the bot's commands, which refresh nothing, trade meanwhile.  *)

Trade(t, keeps) ==
    /\ keeps \/ held[t]
    /\ held' = [held EXCEPT ![t] = keeps]
    /\ day' = [day EXCEPT !.owed = @ \ {t}, !.gone = @ \ {t}]

UnderWay(t) == refresh[t].sold + refresh[t].changed + refresh[t].read

TradeByApi(t, keeps) ==
    /\ UnderWay(t) < Requests
    /\ Trade(t, keeps)
    /\ refresh' = IF keeps THEN [refresh EXCEPT ![t].changed = @ + 1]
                           ELSE [refresh EXCEPT ![t].sold = @ + 1]
    /\ UNCHANGED <<phase, up, prices, capture, eod, rows>>

TradeByBot(t, keeps) ==
    /\ up
    /\ Trade(t, keeps)
    /\ UNCHANGED <<phase, up, prices, capture, eod, refresh, rows>>

\* The job, or another request's refresh, has read the position and has its row
\* still to write or to commit.
TakenUp(t) == t \in eod.left \/ eod.wrote[t] # "none" \/ refresh[t].read > 0

\* A row the job has rewritten is locked until it commits; one it has inserted
\* is not seen.
RefreshDeletes(t) ==
    /\ refresh[t].sold > 0
    /\ t \notin rows \/ eod.wrote[t] = "none"
    /\ rows' = rows \ {t}
    /\ refresh' = [refresh EXCEPT ![t].sold = @ - 1]
    /\ day' = [day EXCEPT !.owed = @ \ {t},
                          !.gone = IF held[t] \/ TakenUp(t) THEN @ ELSE @ \cup {t}]
    /\ UNCHANGED <<phase, up, prices, capture, eod, held>>

\* Mutant: the refresh goes on with the position of its own trade.
LooksBlindly(t) == [refresh EXCEPT ![t].changed = @ - 1, ![t].read = @ + 1]

\* A position that was sold out since has no row to refresh.
Looks(t) == IF held[t] THEN [refresh EXCEPT ![t].changed = @ - 1, ![t].read = @ + 1]
                       ELSE [refresh EXCEPT ![t].changed = @ - 1]

RefreshReads(t) ==
    /\ refresh[t].changed > 0
    /\ refresh' = Looks(t)
    /\ UNCHANGED <<phase, up, prices, capture, eod, held, rows, day>>

\* After the quote was awaited, or given up for an older price.  The upsert waits
\* for the job's row.
RefreshWrites(t) ==
    /\ refresh[t].read > 0
    /\ eod.wrote[t] = "none"
    /\ refresh' = [refresh EXCEPT ![t].read = @ - 1]
    /\ rows' = rows \cup {t}
    /\ day' = [day EXCEPT !.traded = TRUE]
    /\ UNCHANGED <<phase, up, prices, capture, eod, held>>

\* A failure at any point is logged and forgotten.
RefreshFails(t) ==
    /\ \E stage \in {"sold", "changed", "read"} :
           /\ refresh[t][stage] > 0
           /\ refresh' = [refresh EXCEPT ![t][stage] = @ - 1]
    /\ UNCHANGED <<phase, up, prices, capture, eod, held, rows, day>>

-----------------------------------------------------------------------------
(* The day, and restarts.                                                    *)

ToAtc ==
    /\ phase = "session"
    /\ phase' = "atc"
    /\ capture' = IF up THEN [capture EXCEPT !.st = "due"] ELSE capture
    /\ UNCHANGED <<up, prices, eod, held, refresh, rows, day>>

ToClosed ==
    /\ phase = "atc"
    /\ phase' = "closed"
    /\ UNCHANGED <<up, prices, capture, eod, held, refresh, rows, day>>

ToEvening ==
    /\ phase = "closed"
    /\ phase' = "evening"
    /\ eod' = IF up THEN [eod EXCEPT !.st = "due"] ELSE eod
    /\ day' = [day EXCEPT !.owed = Held]
    /\ UNCHANGED <<up, prices, capture, held, refresh, rows>>

\* A closing price of an earlier day is a price like any other: it is not carried.
Aged(q) == IF q = NoQuote THEN NoQuote ELSE Earlier

\* The next trading day, when the work of the last one is done.
NewDay ==
    /\ phase = "evening"
    /\ capture.st \in {"off", "over"} /\ eod.st \in {"off", "over", "skipped", "failed"}
    /\ refresh = NoRefresh
    /\ flight = [p \in Proc |-> NoPrices] /\ saving = [p \in Proc |-> NoQuotes]
    /\ phase' = "session"
    /\ last' = [p \in Proc |-> [t \in Ticker |-> Aged(last[p][t])]]
    /\ saved' = [t \in Ticker |-> Aged(saved[t])]
    /\ capture' = NoCapture
    /\ eod' = NoJob
    /\ rows' = {}
    /\ day' = [owed |-> {}, traded |-> FALSE, gone |-> day.gone, taken |-> {}]
    /\ UNCHANGED <<up, flight, saving, held, refresh>>

\* What a process loses when it stops.
Forgets(p) ==
    /\ flight' = [flight EXCEPT ![p] = NoPrices]
    /\ saving' = [saving EXCEPT ![p] = NoQuotes]

BotStops ==
    /\ up
    /\ up' = FALSE
    /\ Forgets("bot")
    /\ last' = [last EXCEPT !["bot"] = NoQuotes]
    /\ capture' = NoCapture
    /\ eod' = NoJob
    /\ day' = [day EXCEPT !.taken = {}]
    /\ UNCHANGED <<phase, saved, held, refresh, rows>>

\* The quotes are loaded before the jobs start.
BotStarts ==
    /\ ~up
    /\ up' = TRUE
    /\ last' = [last EXCEPT !["bot"] = saved]
    /\ capture' = IF phase = "session" THEN capture ELSE [capture EXCEPT !.st = "due"]
    /\ eod' = IF phase = "evening" THEN [eod EXCEPT !.st = "check"] ELSE eod
    /\ UNCHANGED <<phase, flight, saving, saved, held, refresh, rows, day>>

ApiRestarts ==
    /\ Forgets("api")
    /\ last' = [last EXCEPT !["api"] = saved]
    /\ refresh' = NoRefresh
    /\ UNCHANGED <<phase, up, saved, capture, eod, held, rows, day>>

-----------------------------------------------------------------------------
DayNext ==
    \/ \E p \in Proc, t \in Ticker : Ask(p, t) \/ Land(p, t) \/ FetchFails(p, t) \/ Save(p, t)
    \/ \E S \in SUBSET Ticker : CaptureFetches(S)
    \/ CaptureSaves \/ CaptureFails
    \/ EodChecks \/ EodLists \/ (\E t \in Ticker : EodWrites(t)) \/ EodCommits \/ EodFails
    \/ \E t \in Ticker, keeps \in BOOLEAN : TradeByApi(t, keeps) \/ TradeByBot(t, keeps)
    \/ \E t \in Ticker : RefreshDeletes(t) \/ RefreshReads(t) \/ RefreshWrites(t)
                         \/ RefreshFails(t)
    \/ ToAtc \/ ToClosed \/ ToEvening \/ NewDay
    \/ BotStops \/ BotStarts \/ ApiRestarts

DaySpec == DayInit /\ [][DayNext]_dayVars

-----------------------------------------------------------------------------
(* Properties.                                                               *)

\* Once the bot has captured a ticker's closing price, no fetch that started
\* before and lands after takes it away again that day (_carry_close).
CloseIsCarried == \A t \in day.taken : last["bot"][t].close = "atc"

\* For a ticker captured before, the end-of-day job writes the auction's price.
EodWritesClose ==
    [][\A t \in day.taken : eod'.wrote[t] \in {"none", eod.wrote[t], "atc"}]_dayVars

\* A job that ran, or a catch-up that found the day's rows written, leaves no
\* position held since 15:20 without a row, unless it found no quote for it
\* (_maybe_catchup, "Handles server restarts after 15:20 without missing the day").
DayRecorded ==
    eod.st \in {"over", "skipped"} => day.owed \subseteq rows

\* It does so on a day when no trade wrote a row of its own.
UntradedDayRecorded == day.traded \/ DayRecorded

\* A position sold out has no row once its rows are deleted, until the ticker is
\* traded again, however many requests refresh it and whenever the job runs: unless
\* the job, or the refresh of another request, had read the position before and
\* wrote its row after (refresh_after_trade).
ClosedStaysGone == day.gone \cap rows = {}
=============================================================================
