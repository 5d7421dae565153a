SPECIFICATION FairCmdSpec
CONSTANTS
    PipeCap = 1
    Inputs = {0, 1, 3}
    Scripts <- MCScripts
INVARIANTS Complete HangsOnlyWhenFull
PROPERTY Returns
