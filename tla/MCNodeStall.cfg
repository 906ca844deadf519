SPECIFICATION FairSpec
CONSTANTS
    NumValidators = 4
    MaxGcRounds = 4
    MaxFaults = 0
    MaxRound = 4
    MaxRuns = 2
    CrashAllowed = FALSE
PROPERTIES
    RestartContinues
CHECK_DEADLOCK FALSE
