SPECIFICATION Spec
CONSTANTS
    Lines <- MCLines
    LongWidths = {8, 16}
    IdBits = 8
INVARIANTS
    TypeOK
    OptionsAsWritten
    PositionalsAsWritten
    DocumentedLinesWork
    IdIsExact
    NoIdNoKey
CHECK_DEADLOCK FALSE
