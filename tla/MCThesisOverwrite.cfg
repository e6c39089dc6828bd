\* A review overlaps another session.
SPECIFICATION MCSpec
CONSTANTS
    t1 = t1
    t2 = t2
    x = x
    Thesis = {t1}
    Ticker = {x}
    TickerOf <- MCTickerOf
    Session = {s1, s2}
    Jobs <- EveryJob
PROPERTIES
    ReactorNeverOverwrites
CHECK_DEADLOCK FALSE
