\* Two sessions on two theses of one ticker, in any interleaving.
SPECIFICATION MCFairSpec
CONSTANTS
    t1 = t1
    t2 = t2
    x = x
    Thesis = {t1, t2}
    Ticker = {x}
    TickerOf <- MCTickerOf
    Session = {s1, s2}
    Jobs <- EveryJob
INVARIANTS
    TypeOK
    StampAgrees
    ClosingIsAnnounced
    OneOpenUnlessCreated
    NeverAllWait
PROPERTIES
    ImplementsStates
    SessionsEnd
CHECK_DEADLOCK FALSE
