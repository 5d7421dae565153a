SPECIFICATION FairSpec
CONSTANTS
    Payloads <- MCPayloads
    Layouts <- MCLayouts
INVARIANTS TypeOK Tiles Decodes
PROPERTY Terminates
CHECK_DEADLOCK FALSE
