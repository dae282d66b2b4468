SPECIFICATION Spec
CONSTANTS
    MaxRuns = 1
    MaxFaults = 2
    Leftovers <- MCLeftovers
INVARIANTS
    TypeOK
    LeavesNothing
    UsesLiveObjects
    IdsAreFresh
    ActiveMeansFailed
    OutputsAreConfirmed
    CleanRunPasses
CHECK_DEADLOCK FALSE
