SPECIFICATION FairSpec
CONSTANTS
    NoKey = NoKey
    MaxRuns = 2
    EcSpkiLens <- MCEcSpkiLens
    EcSigLens <- MCEcSigLens
    RsaSpkiLens <- MCRsaSpkiLens
    RsaSigLens <- MCRsaSigLens
PROPERTIES
    ImplementsProvisioning
    EveryRunEnds
CHECK_DEADLOCK FALSE
