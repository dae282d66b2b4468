SPECIFICATION FairSpec
CONSTANTS
    MaxRuns = 2
    MaxFaults = 1
    Leftovers <- MCEmpty
INVARIANT
    LeftoversShow
PROPERTIES
    ImplementsSuite
    EveryRunEnds
CHECK_DEADLOCK FALSE
