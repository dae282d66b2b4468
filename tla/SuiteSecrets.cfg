SPECIFICATION Spec
CONSTANTS
    MaxRuns = 1
    MaxFaults = 1
    Leftovers <- MCEmpty
INVARIANT
    SecretsCompared
CHECK_DEADLOCK FALSE
