SPECIFICATION Spec
CONSTANTS
    MaxVlan = 6
    Lists <- MCLists
INVARIANTS LoopInv Maximal PrintsAll
CHECK_DEADLOCK FALSE
