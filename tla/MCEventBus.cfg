\* start() as bootstrap() calls it, stop() once or twice, and a start() after or during it:
\* two workers may share the queue.
SPECIFICATION FairSpec
CONSTANTS
    a1 = a1
    a2 = a2
    b = b
    ka = ka
    NoKey = NoKey
    NoWorker = NoWorker
    NoEvent = NoEvent
    Event = {a1, a2, b}
    Key = {ka}
    KeyOf <- MCKeyOf
    NumHandlers <- MCNumHandlers
    Worker = {w1, w2}
    Window = 1
    MaxTime = 1
    StopAgain = TRUE
INVARIANTS
    TypeOK
    AtMostOnce
    DedupSpacing
    DrainedWhenStopped
    UnfinishedIsExact
PROPERTIES
    ImplementsChannel
    AcceptedIsDispatched
    StopReturns
CHECK_DEADLOCK FALSE
