SPECIFICATION Spec
CONSTANTS
    t1 = t1  t2 = t2  m1 = m1  m2 = m2
    Taps = {t1, t2}
    Mirrors = {m1, m2}
    Commands <- MCCommands6
    Dumps <- MCDumps
    Packets <- MCPackets
    MaxRuns = 1
INVARIANTS FilterDecides
CHECK_DEADLOCK FALSE
