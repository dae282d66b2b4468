SPECIFICATION Spec
CONSTANTS
    NoKey = NoKey
    MaxRuns = 2
    EcSpkiLens <- MCEcSpkiLens
    EcSigLens <- MCEcSigLens
    RsaSpkiLens <- MCRsaSpkiLens
    RsaSigLens <- MCRsaSigLens
INVARIANTS
    TypeOK
    KeysReplacedInOrder
    PassedRunDelivers
    CsrIsSelfSigned
    NothingLeaks
    UsesOpenObjects
    FaultlessRunPasses
CHECK_DEADLOCK FALSE
