\* One request, and the event of a trade that was rolled back.
SPECIFICATION MCSpec
CONSTANTS
    Req = {r1}
    None = None
    Qty = {1}
    Advice = {1}
    Late = {}
INVARIANT FeedbackOfCommitted
CHECK_DEADLOCK FALSE
