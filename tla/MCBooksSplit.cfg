\* Buys, splits and corrections, without fees.
SPECIFICATION BooksSpec
CONSTANTS
    PosId = {p1, p2}
    Prices = {1, 2}
    Qtys = {1, 2}
    Locks = {0, 2}
    Ratios = {1}
    FeePct = 0
    TaxPct = 10
    Ops = {"buy", "split", "correct"}
    MaxTrades = 3
INVARIANT CorrectedBooksBalance
CHECK_DEADLOCK FALSE
