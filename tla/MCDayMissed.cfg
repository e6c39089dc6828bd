\* Two tickers: a trade in one of them, and the bot down at 15:20.
SPECIFICATION DaySpec
CONSTANTS
    Ticker = {t1, t2}
    Tasks = 1
    Requests = 1
INVARIANTS
    DayRecorded
CHECK_DEADLOCK FALSE
