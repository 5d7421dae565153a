SPECIFICATION Spec
CONSTANTS
    Payloads <- MCLong
    Layouts <- MCLayouts
INVARIANT NineBits
CHECK_DEADLOCK FALSE
