SPECIFICATION Spec
CONSTANTS
    SpkiLens <- MCSpkiLens
    NameLens <- MCNameLens
    SigLens <- MCSigLens
INVARIANTS
    TypeOK
    OutputInBuffer
    NamesReleased
    SignedIsDelivered
    DeliversWholeCsr
CHECK_DEADLOCK FALSE
