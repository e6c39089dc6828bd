\* Two requests one after the other with decisions and advices, or two that
\* overlap and a third, which may find two open positions; and the worker.
SPECIFICATION MCFairSpec
CONSTANTS
    Req = {r1, r2, r3}
    Late = {r3}
    None = None
    Qty = {1, 2}
    Advice = {1, 2}
INVARIANTS
    TypeOK
    LoggedIsDurable
    AdviceIsSettled
PROPERTIES
    ImplementsLedger
    FeedbackFollows
CHECK_DEADLOCK FALSE
