\* One ticker; two cycles, and lifetimes long enough for an entry to age once;
\* two positions one after the other and three trades; two assumptions, of which
\* both make more than half, two decisions, and two sessions on either.
SPECIFICATION MCSpec
CONSTANTS
    Ticker = {t1}
    Tasks = 1
    Requests = 2
    HotTTL = 2
    PageTTL = 1
    Cycles = 2
    Backlog = 2
    PosId = {p1, p2}
    Prices = {1, 2}
    Qtys = {1, 2}
    Locks = {}
    Ratios = {1}
    FeePct = 10
    TaxPct = 10
    Ops = {"buy", "sell", "correct", "split", "edit"}
    MaxTrades = 3
    Assumption = {a1, a2}
    Editor = {s1, s2}
    Decision = {d1, d2}
    Unpriced = {d2}
    Strangers = {}
    Desk = {s1, s2}
    Called = {"filler", "batch", "evaluate", "replay"}
INVARIANTS
    MCTypeOK
    CloseIsCarried
    UntradedDayRecorded
    ClosedStaysGone
    EngineIsHeard
    FreshIsRecent
    BooksBalance
    RowsAccount
    ThresholdKept
    EditsNeverDeadlock
    VerdictFits
PROPERTIES
    EodWritesClose
    ImplementsFeed
    ClosedIsSettled
    RestoredByHand
    JobsKeepOutcomes
CHECK_DEADLOCK FALSE
