SPECIFICATION Spec
CONSTANTS
    Tasks = {t1, t2}
    Slots = 2
    Depth = 2
    Sizes <- MCSizes
    MaxFirings = 3
INVARIANTS RecordsWhole
PROPERTIES Implements Handled
CHECK_DEADLOCK FALSE
