\* The filler, then the batch.
SPECIFICATION OutcomeSpec
CONSTANTS
    Decision = {d1}
    Unpriced = {}
    Strangers = {}
    Desk = {s1}
    Called = {"filler", "batch"}
PROPERTY FilledIsReplayed
CHECK_DEADLOCK FALSE
