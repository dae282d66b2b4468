SPECIFICATION Spec
CONSTANTS
    NoKey = NoKey
    MaxRuns = 2
    EcSpkiLens <- MCEcSpkiLens
    EcSigLens <- MCEcSigLens
    RsaSpkiLens <- MCRsaSpkiLens
    RsaSigLens <- MCRsaSigLens
INVARIANT
    CsrWrittenWhenPassed
CHECK_DEADLOCK FALSE
