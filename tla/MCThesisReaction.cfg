\* One review.
SPECIFICATION MCSpec
CONSTANTS
    t1 = t1
    t2 = t2
    x = x
    Thesis = {t1}
    Ticker = {x}
    TickerOf <- MCTickerOf
    Session = {s1}
    Jobs <- EveryJob
PROPERTIES
    ReactionIsKept
CHECK_DEADLOCK FALSE
