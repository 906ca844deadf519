SPECIFICATION FairSpec
CONSTANTS
    NumValidators = 4
    MaxGcRounds = 4
    MaxFaults = 2
    MaxRound = 7
    MaxRuns = 1
    CrashAllowed = FALSE
INVARIANTS
    TypeOK
    StorageClosed
    LedgerClosed
    NoAnchorSkipped
    NothingLeftBehind
    DagCommittedInLedger
PROPERTY
    ChainGrows
CHECK_DEADLOCK FALSE
