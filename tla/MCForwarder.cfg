SPECIFICATION FairSpec
CONSTANTS
    c1 = c1  c2 = c2
    Conns = {c1, c2}
    Via <- MCUnix
    Steps <- MCSteps
    Total <- MCTotal
    Good <- MCGood
    Big = {c1}
    Hangs = {c2}
    Tcp = TRUE
    AcceptFails = TRUE
INVARIANT WholeBuffers
PROPERTIES StopsDrained ReadEnds WholeIsAnswered Served
CHECK_DEADLOCK FALSE
