SPECIFICATION Spec
CONSTANTS
    Lines <- MCLines
    LongWidths = {8, 16}
    IdBits = 8
INVARIANT
    IdIsHex
CHECK_DEADLOCK FALSE
