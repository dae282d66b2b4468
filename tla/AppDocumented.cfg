SPECIFICATION Spec
CONSTANTS
    Ids = {k1, k2}
    TransientIds = {peer, shared}
    EccSizes = {256}
    RsaSizes = {2048, 3072}
    MaxKeys = 1
    NoKey = NoKey
SYMMETRY IdSymmetry
INVARIANTS
    DocumentedCommandsWork
