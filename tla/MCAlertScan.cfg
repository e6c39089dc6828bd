\* A one-shot alert and a re-armed one; two sessions of any kind.
SPECIFICATION MCFairSpec
CONSTANTS
    price = price
    change = change
    Alert = {price, change}
    Repeating = {change}
    Cool <- MCCool
    Cap = 1
    Job = {s1, s2}
INVARIANTS
    TypeOK
PROPERTIES
    ImplementsStates
    OneShotStaysDown
    Rearmed
CHECK_DEADLOCK FALSE
