SPECIFICATION Spec
CONSTANTS
    NumValidators = 4
    MaxGcRounds = 4
    MaxFaults = 0
    MaxRound = 5
    MaxRuns = 2
    CrashAllowed = FALSE
INVARIANTS
    DagCommittedInLedger
CHECK_DEADLOCK FALSE
