SPECIFICATION Spec
CONSTANTS
    NumValidators = 4
    MaxGcRounds = 4
    MaxFaults = 1
    MaxRound = 5
    MaxRuns = 3
    CrashAllowed = TRUE
CONSTRAINT ThirdRunAfterCrash
INVARIANTS
    OneOwnBatchPerRound
    NoEquivocation
    NoDoubleCommit
    AnchorsIncrease
    RoundNotBehind
CHECK_DEADLOCK FALSE
