SPECIFICATION Spec
CONSTANTS
    TransmissionID = {t1, t2}
    CacheCapacity = 1
    NumRecentBlocks = 2
    CheckpointInterval = 3
    MaxHeight = 7
    MaxGcRounds = 2
    MaxRound = 5
    MaxRuns = 2
    MaxCleans = 1
SYMMETRY Symmetry
INVARIANTS
    TypeOK
    Retrievable
    StaleIsConfirmed
    RefusedIsHeld
    PendingSurvives
    NothingFromBefore
    LocatorsAccepted
    LocatorsRoundTrip
    AcceptedIsWellFormed
CHECK_DEADLOCK FALSE
