-------------------------- MODULE ClosingPricesProofs --------------------------
(* Theorems about ClosingPrices for every set of tickers and any number of   *)
(* fetches, saves and refreshes under way.                                   *)
EXTENDS ClosingPrices, TLAPS

\* A bot that is down runs no job and remembers no capture.
DownIsIdle == ~up => capture.st = "off" /\ eod.st = "off" /\ day.taken = {}

\* The end-of-day job belongs to the evening.
JobIsOfTheEvening == eod.st # "off" => phase = "evening"

\* A row is owed only to a position that is held.
OwedIsHeld == \A t \in day.owed : held[t]

\* A ticker that is gone is not held, has no row, and nobody has still to write one.
NothingUnderWay == \A t \in day.gone : t \notin rows /\ ~held[t] /\ ~TakenUp(t)

\* A job under way has priced, or has still to price, every position it owes a row.
JobCovers == eod.st = "run" => \A t \in day.owed : t \in eod.left \/ eod.wrote[t] # "none"

\* Without a trade, rows come from a job that left out nobody.
RowsAreOfAJob ==
    rows # {} => day.traded \/ (phase = "evening" /\ day.owed \subseteq rows)

DayInv ==
    /\ DayTypeOK
    /\ DownIsIdle /\ JobIsOfTheEvening
    /\ CloseIsCarried
    /\ OwedIsHeld /\ NothingUnderWay
    /\ JobCovers /\ RowsAreOfAJob /\ UntradedDayRecorded

-----------------------------------------------------------------------------
\* The records and functions that the actions build have their types.
LEMMA DayBuilt ==
    /\ NoQuote \in Quote /\ Earlier \in Quote /\ Closing \in Quote
    /\ NoQuotes \in [Ticker -> Quote] /\ NoPrices \in [Ticker -> Price]
    /\ NoRefresh \in [Ticker -> Refresh]
    /\ NoCapture \in Capture /\ NoJob \in Job
    /\ Held \in SUBSET Ticker
    /\ Now \in Price /\ Label \subseteq Price
  BY DEF NoQuote, Earlier, Closing, NoQuotes, NoPrices, NoRefresh, NoCapture, NoJob, Held, Now,
     Quote, Price, Label, Refresh, Capture, Job

\* What is derived from a quote has its type.
LEMMA Derived ==
    /\ \A q \in Quote : Settled(q) \in Price /\ Aged(q) \in Quote
    /\ \A price \in Price, q \in Quote : Carried(price, q) \in Quote
  BY DayBuilt DEF Settled, Aged, Carried, Quote, Price, Label

\* A capture, a job or a day that is given other fields of the right types keeps
\* its type.
LEMMA Changed ==
    /\ \A c \in Capture, st \in {"off", "due", "retry", "saving", "over"} :
           [c EXCEPT !.st = st] \in Capture
    /\ \A j \in Job, st \in {"off", "check", "due", "run", "over", "skipped", "failed"} :
           [j EXCEPT !.st = st] \in Job
    /\ \A j \in Job, S \in SUBSET Ticker : [j EXCEPT !.st = "run", !.left = S] \in Job
    /\ \A j \in Job, t \in Ticker, price \in Price :
           [j EXCEPT !.left = j.left \ {t}, !.wrote[t] = price] \in Job
    /\ \A d \in Day, S \in SUBSET Ticker :
           /\ [d EXCEPT !.owed = S] \in Day
           /\ [d EXCEPT !.gone = S] \in Day
           /\ [d EXCEPT !.taken = S] \in Day
           /\ [d EXCEPT !.traded = TRUE] \in Day
    /\ \A d \in Day, t \in Ticker :
           [d EXCEPT !.owed = d.owed \ {t}, !.gone = d.gone \ {t}] \in Day
  BY DEF Capture, Job, Day

\* A refresh that begins, goes on or ends keeps the counts natural numbers.
LEMMA Counted ==
    ASSUME refresh \in [Ticker -> Refresh], NEW t \in Ticker
    PROVE  /\ [refresh EXCEPT ![t].sold = @ + 1] \in [Ticker -> Refresh]
           /\ [refresh EXCEPT ![t].changed = @ + 1] \in [Ticker -> Refresh]
           /\ refresh[t].sold > 0 => [refresh EXCEPT ![t].sold = @ - 1] \in [Ticker -> Refresh]
           /\ refresh[t].changed > 0 =>
                  [refresh EXCEPT ![t].changed = @ - 1] \in [Ticker -> Refresh]
           /\ refresh[t].read > 0 => [refresh EXCEPT ![t].read = @ - 1] \in [Ticker -> Refresh]
           /\ refresh[t].changed > 0 =>
                  [refresh EXCEPT ![t].changed = @ - 1, ![t].read = @ + 1]
                      \in [Ticker -> Refresh]
<1> DEFINE r == refresh[t]
<1>1. r \in Refresh /\ r.sold \in Nat /\ r.changed \in Nat /\ r.read \in Nat
  BY DEF Refresh
<1>2. \A n \in Nat : /\ [r EXCEPT !.sold = n] \in Refresh
                      /\ [r EXCEPT !.changed = n] \in Refresh
                      /\ [r EXCEPT !.read = n] \in Refresh
  BY <1>1 DEF Refresh
<1>3. \A n, k \in Nat : [r EXCEPT !.changed = n, !.read = k] \in Refresh
  BY <1>1 DEF Refresh
<1>4. \A n \in Nat : n + 1 \in Nat /\ (n > 0 => n - 1 \in Nat)
  OBVIOUS
<1>5. /\ [r EXCEPT !.sold = r.sold + 1] \in Refresh
      /\ [r EXCEPT !.changed = r.changed + 1] \in Refresh
      /\ r.sold > 0 => [r EXCEPT !.sold = r.sold - 1] \in Refresh
      /\ r.changed > 0 => [r EXCEPT !.changed = r.changed - 1] \in Refresh
      /\ r.read > 0 => [r EXCEPT !.read = r.read - 1] \in Refresh
      /\ r.changed > 0 =>
             [r EXCEPT !.changed = r.changed - 1, !.read = r.read + 1] \in Refresh
  BY <1>1, <1>2, <1>3, <1>4
<1>6. \A new \in Refresh : [refresh EXCEPT ![t] = new] \in [Ticker -> Refresh]
  OBVIOUS
<1> QED
  BY <1>5, <1>6

-----------------------------------------------------------------------------
\* The first state has the types.
LEMMA TypeInit == DayInit => DayTypeOK
<1> SUFFICES ASSUME DayInit PROVE DayTypeOK
  OBVIOUS
<1>1. saved \in [Ticker -> Quote]
  <2>1. {NoQuote, Earlier} \subseteq Quote
    BY DayBuilt
  <2> QED
    BY <2>1 DEF DayInit
<1>2. /\ last \in [Proc -> [Ticker -> Quote]] /\ flight \in [Proc -> [Ticker -> Price]]
      /\ saving \in [Proc -> [Ticker -> Quote]]
  BY <1>1, DayBuilt DEF DayInit
<1>3. capture \in Capture /\ eod \in Job /\ refresh \in [Ticker -> Refresh]
      /\ rows \subseteq Ticker
  BY DayBuilt DEF DayInit
<1>4. phase \in Phase /\ up \in BOOLEAN /\ held \in [Ticker -> BOOLEAN] /\ day \in Day
  BY DEF DayInit, Phase, Day
<1> QED
  BY <1>1, <1>2, <1>3, <1>4 DEF DayTypeOK

\* The steps of the quotes keep the types.
LEMMA TypeQuotes ==
    ASSUME DayTypeOK, NEW p \in Proc, NEW t \in Ticker,
           Ask(p, t) \/ Land(p, t) \/ FetchFails(p, t) \/ Save(p, t)
    PROVE  DayTypeOK'
<1> USE DEF DayTypeOK
<1>1. CASE Ask(p, t)
  BY <1>1, DayBuilt DEF Ask
<1>2. CASE Land(p, t)
  <2>1. PICK price \in {flight[p][t], Now} :
           LET q == Carried(price, last[p][t]) IN
           /\ last' = [last EXCEPT ![p][t] = q]
           /\ saving' = [saving EXCEPT ![p][t] = q]
    BY <1>2 DEF Land
  <2> DEFINE q == Carried(price, last[p][t])
  <2>2. q \in Quote
    BY DayBuilt, Derived
  <2>3. last' = [last EXCEPT ![p][t] = q] /\ saving' = [saving EXCEPT ![p][t] = q]
    BY <2>1
  <2> HIDE DEF q
  <2>4. last' \in [Proc -> [Ticker -> Quote]] /\ saving' \in [Proc -> [Ticker -> Quote]]
    BY <2>2, <2>3
  <2>5. flight' \in [Proc -> [Ticker -> Price]]
    BY <1>2 DEF Land, Price
  <2> QED
    BY <1>2, <2>4, <2>5 DEF Land
<1>3. CASE FetchFails(p, t)
  <2>1. flight' \in [Proc -> [Ticker -> Price]]
    BY <1>3 DEF FetchFails, Price
  <2> QED
    BY <1>3, <2>1 DEF FetchFails
<1>4. CASE Save(p, t)
  <2>1. saving' \in [Proc -> [Ticker -> Quote]]
    BY <1>4, DayBuilt DEF Save
  <2>2. saved' \in [Ticker -> Quote]
    <3>1. saving[p][t] \in Quote
      OBVIOUS
    <3> QED
      BY <1>4, <3>1 DEF Save
  <2> QED
    BY <1>4, <2>1, <2>2 DEF Save
<1> QED
  BY <1>1, <1>2, <1>3, <1>4

\* The steps of the capture keep the types.
LEMMA TypeCapture ==
    ASSUME DayTypeOK,
           (\E S \in SUBSET Ticker : CaptureFetches(S)) \/ CaptureSaves \/ CaptureFails
    PROVE  DayTypeOK'
<1> USE DEF DayTypeOK
<1>1. ASSUME NEW S \in SUBSET Ticker, CaptureFetches(S) PROVE DayTypeOK'
  <2>1. last' \in [Proc -> [Ticker -> Quote]]
    BY <1>1, DayBuilt DEF CaptureFetches, Proc
  <2>2. capture' \in Capture
    BY <1>1 DEF CaptureFetches, Capture
  <2>3. day' \in Day
    BY <1>1 DEF CaptureFetches, Day
  <2> QED
    BY <1>1, <2>1, <2>2, <2>3 DEF CaptureFetches
<1>2. CASE CaptureSaves
  <2>1. saved' \in [Ticker -> Quote]
    BY <1>2, DayBuilt DEF CaptureSaves
  <2>2. capture' \in Capture
    BY <1>2 DEF CaptureSaves, Capture
  <2> QED
    BY <1>2, <2>1, <2>2 DEF CaptureSaves
<1>3. CASE CaptureFails
  <2>1. capture' \in Capture
    BY <1>3 DEF CaptureFails, Capture
  <2> QED
    BY <1>3, <2>1 DEF CaptureFails, prices
<1> QED
  BY <1>1, <1>2, <1>3

\* The steps of the end-of-day job keep the types.
LEMMA TypeEod ==
    ASSUME DayTypeOK,
           EodChecks \/ EodLists \/ (\E t \in Ticker : EodWrites(t)) \/ EodCommits \/ EodFails
    PROVE  DayTypeOK'
<1> USE DEF DayTypeOK, prices
<1>1. CASE EodChecks
  <2>1. eod' \in Job
    BY <1>1 DEF EodChecks, EodDecides, Job
  <2> QED
    BY <1>1, <2>1 DEF EodChecks
<1>2. CASE EodLists
  <2>1. eod' \in Job
    BY <1>2, DayBuilt DEF EodLists, Job
  <2> QED
    BY <1>2, <2>1 DEF EodLists
<1>3. ASSUME NEW t \in Ticker, EodWrites(t) PROVE DayTypeOK'
  <2> DEFINE price == Settled(last["bot"][t])
  <2>1. price \in Price
    BY Derived DEF Proc
  <2>2. eod' = [eod EXCEPT !.left = eod.left \ {t}, !.wrote[t] = price]
        /\ day' = [day EXCEPT !.owed = IF price = "none" THEN day.owed \ {t} ELSE day.owed]
    BY <1>3 DEF EodWrites
  <2> HIDE DEF price
  <2>3. eod' \in Job
    BY <2>1, <2>2 DEF Job
  <2>4. day' \in Day
    BY <2>2 DEF Day
  <2> QED
    BY <1>3, <2>3, <2>4 DEF EodWrites
<1>4. CASE EodCommits
  <2>1. eod' \in Job
    BY <1>4, DayBuilt, Changed DEF EodCommits
  <2>2. rows' \subseteq Ticker
    BY <1>4 DEF EodCommits
  <2> QED
    BY <1>4, <2>1, <2>2 DEF EodCommits
<1>5. CASE EodFails
  <2>1. eod' \in Job
    BY <1>5, DayBuilt, Changed DEF EodFails
  <2> QED
    BY <1>5, <2>1 DEF EodFails
<1> QED
  BY <1>1, <1>2, <1>3, <1>4, <1>5

\* The steps of trades and refreshes keep the types.
LEMMA TypeTrades ==
    ASSUME DayTypeOK, NEW t \in Ticker,
           \/ \E keeps \in BOOLEAN : TradeByApi(t, keeps) \/ TradeByBot(t, keeps)
           \/ RefreshDeletes(t) \/ RefreshReads(t) \/ RefreshWrites(t) \/ RefreshFails(t)
    PROVE  DayTypeOK'
<1> USE DEF DayTypeOK, prices
<1>1. ASSUME NEW keeps \in BOOLEAN, Trade(t, keeps)
      PROVE  held' \in [Ticker -> BOOLEAN] /\ day' \in Day
  BY <1>1 DEF Trade, Day
<1>2. ASSUME NEW keeps \in BOOLEAN, TradeByApi(t, keeps) PROVE DayTypeOK'
  <2>1. refresh' \in [Ticker -> Refresh]
    BY <1>2, Counted DEF TradeByApi
  <2> QED
    BY <1>1, <1>2, <2>1 DEF TradeByApi
<1>3. ASSUME NEW keeps \in BOOLEAN, TradeByBot(t, keeps) PROVE DayTypeOK'
  BY <1>1, <1>3 DEF TradeByBot
<1>4. CASE RefreshDeletes(t)
  <2>1. rows' \subseteq Ticker /\ refresh' \in [Ticker -> Refresh]
    BY <1>4, Counted DEF RefreshDeletes
  <2>2. day' \in Day
    BY <1>4 DEF RefreshDeletes, Day
  <2> QED
    BY <1>4, <2>1, <2>2 DEF RefreshDeletes
<1>5. CASE RefreshReads(t)
  <2>1. refresh' \in [Ticker -> Refresh]
    BY <1>5, Counted DEF RefreshReads, Looks
  <2> QED
    BY <1>5, <2>1 DEF RefreshReads
<1>6. CASE RefreshWrites(t)
  <2>1. rows' \subseteq Ticker /\ refresh' \in [Ticker -> Refresh]
    BY <1>6, Counted DEF RefreshWrites
  <2>2. day' \in Day
    BY <1>6, Changed DEF RefreshWrites
  <2> QED
    BY <1>6, <2>1, <2>2 DEF RefreshWrites
<1>7. CASE RefreshFails(t)
  <2>1. PICK stage \in {"sold", "changed", "read"} :
            refresh[t][stage] > 0 /\ refresh' = [refresh EXCEPT ![t][stage] = @ - 1]
    BY <1>7 DEF RefreshFails
  <2>2. ASSUME stage = "sold" PROVE refresh' \in [Ticker -> Refresh]
    BY <2>1, <2>2, Counted
  <2>3. ASSUME stage = "changed" PROVE refresh' \in [Ticker -> Refresh]
    BY <2>1, <2>3, Counted
  <2>4. ASSUME stage = "read" PROVE refresh' \in [Ticker -> Refresh]
    BY <2>1, <2>4, Counted
  <2>5. refresh' \in [Ticker -> Refresh]
    BY <2>2, <2>3, <2>4
  <2> QED
    BY <1>7, <2>5 DEF RefreshFails
<1> QED
  BY <1>2, <1>3, <1>4, <1>5, <1>6, <1>7

\* The steps of the day and the restarts keep the types.
LEMMA TypeDay ==
    ASSUME DayTypeOK,
           \/ ToAtc \/ ToClosed \/ ToEvening \/ NewDay
           \/ BotStops \/ BotStarts \/ ApiRestarts
    PROVE  DayTypeOK'
<1> USE DEF DayTypeOK, prices
<1>1. CASE ToAtc
  BY <1>1, Changed DEF ToAtc, Phase
<1>2. CASE ToClosed
  BY <1>2 DEF ToClosed, Phase
<1>3. CASE ToEvening
  <2>1. eod' \in Job /\ day' \in Day
    BY <1>3, DayBuilt, Changed DEF ToEvening
  <2> QED
    BY <1>3, <2>1 DEF ToEvening, Phase
<1>4. CASE NewDay
  <2>1. last' \in [Proc -> [Ticker -> Quote]] /\ saved' \in [Ticker -> Quote]
    BY <1>4, Derived DEF NewDay
  <2>2. capture' \in Capture /\ eod' \in Job /\ rows' \subseteq Ticker
    BY <1>4, DayBuilt DEF NewDay
  <2>3. day' \in Day
    BY <1>4 DEF NewDay, Day
  <2> QED
    BY <1>4, <2>1, <2>2, <2>3 DEF NewDay, Phase
<1>5. ASSUME NEW p \in Proc, Forgets(p)
      PROVE  flight' \in [Proc -> [Ticker -> Price]] /\ saving' \in [Proc -> [Ticker -> Quote]]
  BY <1>5, DayBuilt DEF Forgets
<1>6. CASE BotStops
  <2>1. last' \in [Proc -> [Ticker -> Quote]]
    BY <1>6, DayBuilt DEF BotStops
  <2>2. capture' \in Capture /\ eod' \in Job /\ day' \in Day
    BY <1>6, DayBuilt, Changed DEF BotStops
  <2> QED
    BY <1>5, <1>6, <2>1, <2>2 DEF BotStops, Proc
<1>7. CASE BotStarts
  <2>1. last' \in [Proc -> [Ticker -> Quote]]
    BY <1>7 DEF BotStarts
  <2>2. capture' \in Capture /\ eod' \in Job
    BY <1>7, Changed DEF BotStarts
  <2> QED
    BY <1>7, <2>1, <2>2 DEF BotStarts
<1>8. CASE ApiRestarts
  <2>1. last' \in [Proc -> [Ticker -> Quote]] /\ refresh' \in [Ticker -> Refresh]
    BY <1>8, DayBuilt DEF ApiRestarts
  <2> QED
    BY <1>5, <1>8, <2>1 DEF ApiRestarts, Proc
<1> QED
  BY <1>1, <1>2, <1>3, <1>4, <1>6, <1>7, <1>8

-----------------------------------------------------------------------------
\* The first state satisfies the invariant.
LEMMA DayInvInit == DayInit => DayInv
  BY TypeInit DEF DayInit, DayInv, DownIsIdle, JobIsOfTheEvening, CloseIsCarried,
     OwedIsHeld, NothingUnderWay, JobCovers, RowsAreOfAJob, UntradedDayRecorded, DayRecorded,
     NoCapture, NoJob

\* A fetch or a save changes only quotes, and takes no closing price away from the
\* bot.
LEMMA QuoteEffects ==
    ASSUME DayTypeOK, NEW p \in Proc, NEW t \in Ticker,
           Ask(p, t) \/ Land(p, t) \/ FetchFails(p, t) \/ Save(p, t)
    PROVE  /\ UNCHANGED <<phase, up, capture, eod, held, refresh, rows, day>>
           /\ \A u \in Ticker : last["bot"][u].close = "atc" => last'["bot"][u].close = "atc"
<1> USE DEF DayTypeOK
<1>1. CASE Ask(p, t)
  BY <1>1 DEF Ask
<1>2. CASE Land(p, t)
  <2>1. PICK price \in {flight[p][t], Now} :
           last' = [last EXCEPT ![p][t] = Carried(price, last[p][t])]
    BY <1>2 DEF Land
  <2> DEFINE q == Carried(price, last[p][t])
  <2>2. last[p][t].close = "atc" => q.close = "atc"
    BY DEF Carried
  <2>3. last' = [last EXCEPT ![p][t] = q]
    BY <2>1
  <2> HIDE DEF q
  <2>4. \A u \in Ticker : last["bot"][u].close = "atc" => last'["bot"][u].close = "atc"
    BY <2>2, <2>3 DEF Proc
  <2> QED
    BY <1>2, <2>4 DEF Land
<1>3. CASE FetchFails(p, t)
  BY <1>3 DEF FetchFails
<1>4. CASE Save(p, t)
  BY <1>4 DEF Save
<1> QED
  BY <1>1, <1>2, <1>3, <1>4

\* Fetches and saves keep the invariant.
LEMMA InvQuotes ==
    ASSUME DayInv, NEW p \in Proc, NEW t \in Ticker,
           Ask(p, t) \/ Land(p, t) \/ FetchFails(p, t) \/ Save(p, t)
    PROVE  DayInv'
<1>1. DayTypeOK /\ DayTypeOK'
  BY TypeQuotes DEF DayInv
<1>2. /\ UNCHANGED <<phase, up, capture, eod, held, refresh, rows, day>>
      /\ \A u \in Ticker : last["bot"][u].close = "atc" => last'["bot"][u].close = "atc"
  BY <1>1, QuoteEffects
<1>3. day.taken \subseteq Ticker
  BY <1>1 DEF DayTypeOK, Day
<1>4. CloseIsCarried'
  BY <1>2, <1>3 DEF DayInv, CloseIsCarried
<1> QED
  BY <1>1, <1>2, <1>4 DEF DayInv, DownIsIdle, JobIsOfTheEvening, OwedIsHeld,
     NothingUnderWay, TakenUp, JobCovers, RowsAreOfAJob, UntradedDayRecorded, DayRecorded

\* The capture keeps the invariant.
LEMMA InvCapture ==
    ASSUME DayInv,
           (\E S \in SUBSET Ticker : CaptureFetches(S)) \/ CaptureSaves \/ CaptureFails
    PROVE  DayInv'
<1>1. DayTypeOK /\ DayTypeOK'
  BY TypeCapture DEF DayInv
<1>2. UNCHANGED <<phase, up, eod, held, refresh, rows>> /\ capture.st # "off"
  BY DEF CaptureFetches, CaptureSaves, CaptureFails, prices
<1>3. /\ day'.owed = day.owed /\ day'.gone = day.gone /\ day'.traded = day.traded
      /\ \A t \in day'.taken : last'["bot"][t].close = "atc"
  <2>1. ASSUME NEW S \in SUBSET Ticker, CaptureFetches(S)
        PROVE  /\ day'.owed = day.owed /\ day'.gone = day.gone /\ day'.traded = day.traded
               /\ \A t \in day'.taken : last'["bot"][t].close = "atc"
    <3>1. day' = [day EXCEPT !.taken = day.taken \cup S] /\ day.taken \subseteq Ticker
      BY <1>1, <2>1 DEF CaptureFetches, DayTypeOK, Day
    <3>2. /\ day'.owed = day.owed /\ day'.gone = day.gone /\ day'.traded = day.traded
          /\ day'.taken = day.taken \cup S
      BY <1>1, <3>1 DEF DayTypeOK, Day
    <3>3. \A t \in Ticker : last'["bot"][t] = IF t \in S THEN Closing ELSE last["bot"][t]
      BY <1>1, <2>1 DEF CaptureFetches, DayTypeOK, Proc
    <3> QED
      BY <3>1, <3>2, <3>3 DEF DayInv, CloseIsCarried, Closing
  <2>2. CASE CaptureSaves
    BY <2>2 DEF CaptureSaves, DayInv, CloseIsCarried
  <2>3. CASE CaptureFails
    BY <2>3 DEF CaptureFails, prices, DayInv, CloseIsCarried
  <2> QED
    BY <2>1, <2>2, <2>3
<1>4. up
  BY <1>2 DEF DayInv, DownIsIdle
<1> QED
  BY <1>1, <1>2, <1>3, <1>4 DEF DayInv, DownIsIdle, JobIsOfTheEvening, CloseIsCarried,
     OwedIsHeld, NothingUnderWay, TakenUp, JobCovers, RowsAreOfAJob,
     UntradedDayRecorded, DayRecorded

\* The end-of-day job keeps the invariant.
LEMMA InvEod ==
    ASSUME DayInv,
           EodChecks \/ EodLists \/ (\E t \in Ticker : EodWrites(t)) \/ EodCommits \/ EodFails
    PROVE  DayInv'
<1>1. DayTypeOK /\ DayTypeOK'
  BY TypeEod DEF DayInv
<1>2. /\ UNCHANGED <<phase, up, prices, capture, held, refresh>>
      /\ eod.st # "off" /\ phase = "evening" /\ up
  BY DEF EodChecks, EodLists, EodWrites, EodCommits, EodFails, DayInv, JobIsOfTheEvening, DownIsIdle
<1>3. /\ day.owed \subseteq Ticker /\ day.gone \subseteq Ticker
      /\ day'.taken = day.taken /\ day'.gone = day.gone /\ day'.traded = day.traded
      /\ day'.owed \subseteq day.owed
  <2>1. day \in Day
    BY <1>1 DEF DayTypeOK
  <2>2. day' = day \/ \E o \in SUBSET day.owed : day' = [day EXCEPT !.owed = o]
    BY DEF EodChecks, EodLists, EodWrites, EodCommits, EodFails
  <2> QED
    BY <2>1, <2>2 DEF Day
<1>4. DownIsIdle' /\ JobIsOfTheEvening' /\ OwedIsHeld'
  BY <1>2, <1>3 DEF DayInv, DownIsIdle, JobIsOfTheEvening, OwedIsHeld
<1>5. CloseIsCarried'
  BY <1>2, <1>3 DEF DayInv, CloseIsCarried, prices
<1>6. CASE EodChecks
  <2>1. rows' = rows /\ day' = day /\ eod.st = "check" /\ EodDecides
    BY <1>6 DEF EodChecks
  <2>2. /\ eod'.st = IF rows = {} THEN "due" ELSE "skipped"
        /\ eod'.left = eod.left /\ eod'.wrote = eod.wrote
    BY <1>1, <2>1 DEF EodDecides, DayTypeOK, Job
  <2>3. NothingUnderWay' /\ JobCovers' /\ RowsAreOfAJob'
    BY <1>2, <2>1, <2>2 DEF DayInv, NothingUnderWay, TakenUp, JobCovers, RowsAreOfAJob
  <2>4. UntradedDayRecorded'
    BY <2>1, <2>2 DEF DayInv, RowsAreOfAJob, UntradedDayRecorded, DayRecorded
  <2> QED
    BY <1>1, <1>4, <1>5, <2>3, <2>4 DEF DayInv
<1>7. CASE EodLists
  <2>1. rows' = rows /\ day' = day /\ eod.st = "due"
    BY <1>7 DEF EodLists
  <2>2. eod'.st = "run" /\ eod'.left = Held /\ eod'.wrote = eod.wrote
    BY <1>1, <1>7 DEF EodLists, DayTypeOK, Job
  <2>3. NothingUnderWay' /\ JobCovers'
    BY <1>2, <1>3, <2>1, <2>2 DEF DayInv, NothingUnderWay, TakenUp, JobCovers, OwedIsHeld, Held
  <2>4. RowsAreOfAJob' /\ UntradedDayRecorded'
    BY <1>2, <2>1, <2>2 DEF DayInv, RowsAreOfAJob, UntradedDayRecorded, DayRecorded
  <2> QED
    BY <1>1, <1>4, <1>5, <2>3, <2>4 DEF DayInv
<1>8. ASSUME NEW t \in Ticker, EodWrites(t) PROVE DayInv'
  <2> DEFINE price == Settled(last["bot"][t])
  <2>1. price \in Price
    BY <1>1, Derived DEF DayTypeOK, Proc
  <2>2. /\ eod' = [eod EXCEPT !.left = eod.left \ {t}, !.wrote[t] = price]
        /\ day' = [day EXCEPT !.owed = IF price = "none" THEN day.owed \ {t} ELSE day.owed]
        /\ rows' = rows /\ eod.st = "run" /\ t \in eod.left
    BY <1>8 DEF EodWrites
  <2> HIDE DEF price
  <2>3. /\ eod'.st = "run" /\ eod'.left = eod.left \ {t}
        /\ \A u \in Ticker : eod'.wrote[u] = IF u = t THEN price ELSE eod.wrote[u]
    BY <1>1, <2>2 DEF DayTypeOK, Job
  <2>4. day'.owed = IF price = "none" THEN day.owed \ {t} ELSE day.owed
    BY <1>1, <2>2 DEF DayTypeOK, Day
  <2>5. NothingUnderWay'
    BY <1>2, <1>3, <2>2, <2>3 DEF DayInv, NothingUnderWay, TakenUp
  <2>6. JobCovers'
    BY <1>3, <2>2, <2>3, <2>4 DEF DayInv, JobCovers
  <2>7. RowsAreOfAJob' /\ UntradedDayRecorded'
    BY <1>2, <1>3, <2>2, <2>3 DEF DayInv, RowsAreOfAJob, UntradedDayRecorded, DayRecorded
  <2> QED
    BY <1>1, <1>4, <1>5, <2>5, <2>6, <2>7 DEF DayInv
<1>9. CASE EodCommits
  <2>1. /\ rows' = rows \cup {t \in Ticker : eod.wrote[t] # "none"}
        /\ day' = day /\ eod.st = "run" /\ eod.left = {} /\ eod' = [NoJob EXCEPT !.st = "over"]
    BY <1>9 DEF EodCommits
  <2>2. eod'.st = "over" /\ eod'.left = {} /\ eod'.wrote = NoPrices
    BY <2>1 DEF NoJob
  <2>3. NothingUnderWay'
    BY <1>2, <1>3, <2>1, <2>2 DEF DayInv, NothingUnderWay, TakenUp, NoPrices
  <2>4. day.owed \subseteq rows'
    BY <1>3, <2>1 DEF DayInv, JobCovers
  <2>5. JobCovers' /\ RowsAreOfAJob' /\ UntradedDayRecorded'
    BY <1>2, <2>1, <2>2, <2>4 DEF JobCovers, RowsAreOfAJob, UntradedDayRecorded, DayRecorded
  <2> QED
    BY <1>1, <1>4, <1>5, <2>3, <2>5 DEF DayInv
<1>10. CASE EodFails
  <2>1. rows' = rows /\ day' = day /\ eod' = [NoJob EXCEPT !.st = "failed"]
    BY <1>10 DEF EodFails
  <2>2. eod'.st = "failed" /\ eod'.left = {} /\ eod'.wrote = NoPrices
    BY <2>1 DEF NoJob
  <2>3. NothingUnderWay'
    BY <1>2, <1>3, <2>1, <2>2 DEF DayInv, NothingUnderWay, TakenUp, NoPrices
  <2>4. JobCovers' /\ RowsAreOfAJob' /\ UntradedDayRecorded'
    BY <1>2, <2>1, <2>2 DEF DayInv, JobCovers, RowsAreOfAJob, UntradedDayRecorded, DayRecorded
  <2> QED
    BY <1>1, <1>4, <1>5, <2>3, <2>4 DEF DayInv
<1> QED
  BY <1>6, <1>7, <1>8, <1>9, <1>10

\* A trade leaves nobody owed a row, or gone, whom it should not.
LEMMA TradeEffects ==
    ASSUME DayInv, NEW t \in Ticker, NEW keeps \in BOOLEAN, Trade(t, keeps)
    PROVE  /\ day'.owed = day.owed \ {t} /\ day'.gone = day.gone \ {t}
           /\ day'.taken = day.taken /\ day'.traded = day.traded
           /\ \A u \in Ticker : held'[u] = IF u = t THEN keeps ELSE held[u]
           /\ day.owed \subseteq Ticker /\ day.gone \subseteq Ticker
  BY DEF Trade, DayInv, DayTypeOK, Day

\* A trade keeps the invariant.
LEMMA InvTrades ==
    ASSUME DayInv, NEW t \in Ticker, NEW keeps \in BOOLEAN,
           TradeByApi(t, keeps) \/ TradeByBot(t, keeps)
    PROVE  DayInv'
<1>1. DayTypeOK /\ DayTypeOK'
  BY TypeTrades DEF DayInv
<1>2. Trade(t, keeps)
  BY DEF TradeByApi, TradeByBot
<1>3. /\ UNCHANGED <<phase, up, prices, capture, eod, rows>>
      /\ \A u \in Ticker \ {t} : refresh'[u] = refresh[u]
  BY <1>1, <1>2, TradeEffects DEF TradeByApi, TradeByBot, DayTypeOK
<1>4. DownIsIdle' /\ JobIsOfTheEvening' /\ CloseIsCarried'
  BY <1>2, <1>3, TradeEffects DEF DayInv, DownIsIdle, JobIsOfTheEvening, CloseIsCarried, prices
<1>5. OwedIsHeld' /\ NothingUnderWay'
  BY <1>2, <1>3, TradeEffects DEF DayInv, OwedIsHeld, NothingUnderWay, TakenUp
<1>6. JobCovers' /\ RowsAreOfAJob' /\ UntradedDayRecorded'
  BY <1>2, <1>3, TradeEffects DEF DayInv, JobCovers, RowsAreOfAJob, UntradedDayRecorded,
     DayRecorded
<1> QED
  BY <1>1, <1>4, <1>5, <1>6 DEF DayInv

\* The refresh of the day's row after a trade keeps the invariant.
LEMMA InvRefresh ==
    ASSUME DayInv, NEW t \in Ticker,
           RefreshDeletes(t) \/ RefreshReads(t) \/ RefreshWrites(t) \/ RefreshFails(t)
    PROVE  DayInv'
<1>1. DayTypeOK /\ DayTypeOK'
  BY TypeTrades DEF DayInv
<1>2. /\ UNCHANGED <<phase, up, last, capture, eod, held>>
      /\ \A u \in Ticker \ {t} : refresh'[u] = refresh[u] /\ (u \in rows' <=> u \in rows)
      /\ day.owed \subseteq Ticker /\ day.gone \subseteq Ticker
  BY <1>1 DEF RefreshDeletes, RefreshReads, Looks, RefreshWrites, RefreshFails, prices,
     DayTypeOK, Day
<1>3. refresh[t] \in Refresh /\ refresh'[t] \in Refresh
  BY <1>1 DEF DayTypeOK
<1>4. CASE RefreshDeletes(t)
  <2>1. rows' = rows \ {t} /\ refresh'[t].read = refresh[t].read
    BY <1>1, <1>4 DEF RefreshDeletes, DayTypeOK, Refresh
  <2>2. /\ day'.owed = day.owed \ {t} /\ day'.taken = day.taken /\ day'.traded = day.traded
        /\ day'.gone = IF held[t] \/ TakenUp(t) THEN day.gone ELSE day.gone \cup {t}
    BY <1>1, <1>4 DEF RefreshDeletes, DayTypeOK, Day
  <2>3. DownIsIdle' /\ JobIsOfTheEvening' /\ CloseIsCarried'
    BY <1>2, <2>2 DEF DayInv, DownIsIdle, JobIsOfTheEvening, CloseIsCarried
  <2>4. OwedIsHeld' /\ NothingUnderWay'
    BY <1>2, <2>1, <2>2 DEF DayInv, OwedIsHeld, NothingUnderWay, TakenUp
  <2>5. JobCovers' /\ RowsAreOfAJob' /\ UntradedDayRecorded'
    BY <1>2, <2>1, <2>2 DEF DayInv, JobCovers, RowsAreOfAJob, UntradedDayRecorded, DayRecorded
  <2> QED
    BY <1>1, <2>3, <2>4, <2>5 DEF DayInv
<1>5. ASSUME UNCHANGED <<rows, day>>, refresh'[t].read > 0 => held[t] \/ refresh[t].read > 0
      PROVE  DayInv'
  <2>1. NothingUnderWay'
    BY <1>2, <1>5 DEF DayInv, NothingUnderWay, TakenUp
  <2> QED
    BY <1>1, <1>2, <1>5, <2>1 DEF DayInv, DownIsIdle, JobIsOfTheEvening, CloseIsCarried,
       OwedIsHeld, JobCovers, RowsAreOfAJob, UntradedDayRecorded, DayRecorded
<1>6. CASE RefreshReads(t)
  <2>1. refresh'[t].read > 0 => held[t] \/ refresh[t].read > 0
    <3>1. CASE held[t]
      BY <3>1
    <3>2. CASE ~held[t]
      BY <1>1, <1>6, <3>2 DEF RefreshReads, Looks, DayTypeOK, Refresh
    <3> QED
      BY <3>1, <3>2
  <2> QED
    BY <1>5, <1>6, <2>1 DEF RefreshReads
<1>7. CASE RefreshWrites(t)
  <2>1. refresh[t].read > 0 /\ rows' = rows \cup {t}
    BY <1>7 DEF RefreshWrites
  <2>2. /\ day'.owed = day.owed /\ day'.taken = day.taken /\ day'.gone = day.gone
        /\ day'.traded
    BY <1>1, <1>7 DEF RefreshWrites, DayTypeOK, Day
  <2>3. t \notin day.gone
    BY <2>1 DEF DayInv, NothingUnderWay, TakenUp
  <2>4. OwedIsHeld' /\ NothingUnderWay'
    BY <1>2, <2>1, <2>2, <2>3 DEF DayInv, OwedIsHeld, NothingUnderWay, TakenUp
  <2>5. DownIsIdle' /\ JobIsOfTheEvening' /\ CloseIsCarried' /\ JobCovers'
    BY <1>2, <2>2 DEF DayInv, DownIsIdle, JobIsOfTheEvening, CloseIsCarried, JobCovers
  <2> QED
    BY <1>1, <2>2, <2>4, <2>5 DEF DayInv, RowsAreOfAJob, UntradedDayRecorded
<1>8. CASE RefreshFails(t)
  <2>1. PICK stage \in {"sold", "changed", "read"} :
            refresh[t][stage] > 0 /\ refresh' = [refresh EXCEPT ![t][stage] = @ - 1]
    BY <1>8 DEF RefreshFails
  <2>2. refresh'[t].read > 0 => refresh[t].read > 0
    BY <1>1, <1>3, <2>1 DEF DayTypeOK, Refresh
  <2> QED
    BY <1>5, <1>8, <2>2 DEF RefreshFails
<1> QED
  BY <1>4, <1>6, <1>7, <1>8

\* The day and the restarts keep the invariant.
LEMMA InvDay ==
    ASSUME DayInv,
           \/ ToAtc \/ ToClosed \/ ToEvening \/ NewDay
           \/ BotStops \/ BotStarts \/ ApiRestarts
    PROVE  DayInv'
<1>1. DayTypeOK /\ DayTypeOK'
  BY TypeDay DEF DayInv
<1>2. day.owed \subseteq Ticker /\ day.gone \subseteq Ticker
  BY <1>1 DEF DayTypeOK, Day
<1> USE DEF DayInv, DownIsIdle, JobIsOfTheEvening, CloseIsCarried, OwedIsHeld,
        NothingUnderWay, TakenUp, JobCovers, RowsAreOfAJob, UntradedDayRecorded, DayRecorded
<1>3. CASE ToAtc
  <2>1. /\ phase = "session" /\ phase' = "atc"
        /\ UNCHANGED <<up, last, eod, held, refresh, rows, day>>
        /\ (~up => capture' = capture)
    BY <1>3 DEF ToAtc, prices
  <2> QED
    BY <1>1, <2>1
<1>4. CASE ToClosed
  <2>1. /\ phase = "atc" /\ phase' = "closed"
        /\ UNCHANGED <<up, last, capture, eod, held, refresh, rows, day>>
    BY <1>4 DEF ToClosed, prices
  <2> QED
    BY <1>1, <2>1
<1>5. CASE ToEvening
  <2>1. /\ phase = "closed" /\ phase' = "evening"
        /\ UNCHANGED <<up, last, capture, held, refresh, rows>>
        /\ eod.st = "off" /\ eod'.left = eod.left /\ eod'.wrote = eod.wrote
        /\ eod'.st = IF up THEN "due" ELSE "off"
    BY <1>1, <1>5 DEF ToEvening, prices, DayTypeOK, Job
  <2>2. /\ day'.owed = Held /\ day'.taken = day.taken /\ day'.gone = day.gone
        /\ day'.traded = day.traded
    BY <1>1, <1>5 DEF ToEvening, DayTypeOK, Day
  <2> QED
    BY <1>1, <2>1, <2>2 DEF Held
<1>6. CASE NewDay
  <2>1. /\ phase' = "session" /\ UNCHANGED <<up, held, refresh>>
        /\ refresh = NoRefresh /\ capture' = NoCapture /\ eod' = NoJob /\ rows' = {}
        /\ day' = [owed |-> {}, traded |-> FALSE, gone |-> day.gone, taken |-> {}]
    BY <1>6 DEF NewDay
  <2> QED
    BY <1>1, <1>2, <2>1 DEF NoPrices, NoRefresh, NoJob, NoCapture
<1>7. CASE BotStops
  <2>1. /\ UNCHANGED <<phase, held, refresh, rows>>
        /\ capture'.st = "off" /\ eod' = NoJob
    BY <1>7 DEF BotStops, NoCapture
  <2>2. /\ day'.owed = day.owed /\ day'.taken = {} /\ day'.gone = day.gone
        /\ day'.traded = day.traded
    BY <1>1, <1>7 DEF BotStops, DayTypeOK, Day
  <2> QED
    BY <1>1, <1>2, <2>1, <2>2 DEF NoPrices, NoJob
<1>8. CASE BotStarts
  <2>1. /\ UNCHANGED <<phase, held, refresh, rows, day>> /\ ~up /\ up'
        /\ eod'.left = eod.left /\ eod'.wrote = eod.wrote
        /\ eod'.st = IF phase = "evening" THEN "check" ELSE eod.st
    BY <1>1, <1>8 DEF BotStarts, DayTypeOK, Job
  <2> QED
    BY <1>1, <2>1
<1>9. CASE ApiRestarts
  <2>1. /\ UNCHANGED <<phase, up, capture, eod, held, rows, day>> /\ refresh' = NoRefresh
        /\ last'["bot"] = last["bot"]
    BY <1>1, <1>9 DEF ApiRestarts, DayTypeOK, Proc
  <2> QED
    BY <1>1, <1>2, <2>1 DEF NoRefresh
<1> QED
  BY <1>3, <1>4, <1>5, <1>6, <1>7, <1>8, <1>9

\* Every step keeps the invariant.
LEMMA DayInvStep == DayInv /\ [DayNext]_dayVars => DayInv'
<1> SUFFICES ASSUME DayInv, [DayNext]_dayVars PROVE DayInv'
  OBVIOUS
<1>1. CASE DayNext
  BY <1>1, InvQuotes, InvCapture, InvEod, InvTrades, InvRefresh, InvDay DEF DayNext
<1>2. CASE UNCHANGED dayVars
  BY <1>2 DEF dayVars, prices, DayInv, DayTypeOK, DownIsIdle, JobIsOfTheEvening, CloseIsCarried,
     OwedIsHeld, NothingUnderWay, TakenUp, JobCovers, RowsAreOfAJob,
     UntradedDayRecorded, DayRecorded
<1> QED
  BY <1>1, <1>2

\* In every behaviour the invariant holds.
LEMMA DayInvAlways == DaySpec => []DayInv
  BY DayInvInit, DayInvStep, PTL DEF DaySpec

-----------------------------------------------------------------------------
\* Phases, quotes, jobs, refreshes and rows always have their types.
THEOREM DayTypeCorrect == DaySpec => []DayTypeOK
<1>1. DayInv => DayTypeOK
  BY DEF DayInv
<1> QED
  BY <1>1, DayInvAlways, PTL

\* A closing price the bot has captured is not lost to a fetch that started
\* before and lands after, whatever else is under way (_carry_close).
THEOREM CloseIsCarriedAlways == DaySpec => []CloseIsCarried
<1>1. DayInv => CloseIsCarried
  BY DEF DayInv
<1> QED
  BY <1>1, DayInvAlways, PTL

\* The end-of-day job never writes another price for a captured ticker than the
\* auction's (EodSnapshotService._fetch_close_price, Quote.settled_price).
THEOREM EodWritesCloseAlways == DaySpec => EodWritesClose
<1>1. DayInv /\ [DayNext]_dayVars =>
        [\A t \in day.taken : eod'.wrote[t] \in {"none", eod.wrote[t], "atc"}]_dayVars
  <2> SUFFICES ASSUME DayInv, DayNext, NEW t \in day.taken
               PROVE  eod'.wrote[t] \in {"none", eod.wrote[t], "atc"}
    OBVIOUS
  <2>1. t \in Ticker /\ eod \in Job /\ last["bot"][t].close = "atc"
    BY DEF DayInv, DayTypeOK, Day, CloseIsCarried
  <2>2. ASSUME NEW u \in Ticker, EodWrites(u)
        PROVE  eod'.wrote[t] \in {"none", eod.wrote[t], "atc"}
    <3>1. eod' = [eod EXCEPT !.left = eod.left \ {u}, !.wrote[u] = Settled(last["bot"][u])]
      BY <2>2 DEF EodWrites
    <3>2. eod'.wrote[t] = IF t = u THEN Settled(last["bot"][u]) ELSE eod.wrote[t]
      BY <2>1, <3>1 DEF Job
    <3> QED
      BY <2>1, <3>2 DEF Settled
  <2>3. ASSUME eod'.wrote = eod.wrote \/ eod'.wrote = NoPrices
        PROVE  eod'.wrote[t] \in {"none", eod.wrote[t], "atc"}
    BY <2>1, <2>3 DEF NoPrices
  <2>4. ASSUME NEW p \in Proc, NEW u \in Ticker,
               Ask(p, u) \/ Land(p, u) \/ FetchFails(p, u) \/ Save(p, u)
        PROVE  eod'.wrote = eod.wrote
    BY <2>4 DEF Ask, Land, FetchFails, Save
  <2>5. ASSUME (\E S \in SUBSET Ticker : CaptureFetches(S)) \/ CaptureSaves \/ CaptureFails
        PROVE  eod'.wrote = eod.wrote
    BY <2>5 DEF CaptureFetches, CaptureSaves, CaptureFails
  <2>6. ASSUME EodChecks \/ EodLists \/ EodCommits \/ EodFails
        PROVE  eod'.wrote = eod.wrote \/ eod'.wrote = NoPrices
    BY <2>1, <2>6 DEF EodChecks, EodDecides, EodLists, EodCommits, EodFails, NoJob, Job
  <2>7. ASSUME NEW u \in Ticker,
               \/ \E keeps \in BOOLEAN : TradeByApi(u, keeps) \/ TradeByBot(u, keeps)
               \/ RefreshDeletes(u) \/ RefreshReads(u) \/ RefreshWrites(u) \/ RefreshFails(u)
        PROVE  eod'.wrote = eod.wrote
    BY <2>7 DEF TradeByApi, TradeByBot, RefreshDeletes, RefreshReads, RefreshWrites,
       RefreshFails
  <2>8. ASSUME ToAtc \/ ToClosed \/ ToEvening \/ NewDay \/ BotStops \/ BotStarts \/ ApiRestarts
        PROVE  eod'.wrote = eod.wrote \/ eod'.wrote = NoPrices
    BY <2>1, <2>8 DEF ToAtc, ToClosed, ToEvening, NewDay, BotStops, BotStarts, ApiRestarts,
       NoJob, Job
  <2> QED
    BY <2>2, <2>3, <2>4, <2>5, <2>6, <2>7, <2>8 DEF DayNext
<1> QED
  BY <1>1, DayInvAlways, PTL DEF DaySpec, EodWritesClose

\* On a day when no trade wrote a row, no restart and no failure of the bot
\* makes the catch-up skip a position that is owed its row.
THEOREM UntradedDayRecordedAlways == DaySpec => []UntradedDayRecorded
<1>1. DayInv => UntradedDayRecorded
  BY DEF DayInv
<1> QED
  BY <1>1, DayInvAlways, PTL

\* The rows of a position sold out do not come back, whatever requests and the job
\* are under way, unless the job, or the refresh of another request, had read the
\* position before they were deleted (refresh_after_trade).
THEOREM ClosedStaysGoneAlways == DaySpec => []ClosedStaysGone
<1>1. DayInv => ClosedStaysGone
  BY DEF DayInv, NothingUnderWay, ClosedStaysGone
<1> QED
  BY <1>1, DayInvAlways, PTL
=============================================================================
