SPECIFICATION Spec
CONSTANTS
    Ids = {k1, k2}
    TransientIds = {peer, shared}
    EccSizes = {256, 521}
    RsaSizes = {2048, 3072}
    MaxKeys = 2
    NoKey = NoKey
SYMMETRY IdSymmetry
INVARIANTS
    TypeOK
    ReleasedAtExit
    OnlyGenkeyChangesKeys
    VerdictIsSound
    FailureKeepsFile
    SuccessDelivers
    DefaultSizesWork
PROPERTY
    ImplementsService
