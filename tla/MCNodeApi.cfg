SPECIFICATION FairSpec
CONSTANTS
    Thread = {p1, p2}
    Config = {keep, temporary}
    KeepState = {keep}
    MaxValidators = 3
    MaxBlocks = 2
INVARIANTS
    OneCall
    OneValidator
    ConfigLocked
PROPERTY
    PendingResolves
CHECK_DEADLOCK FALSE
