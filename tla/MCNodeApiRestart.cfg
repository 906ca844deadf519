SPECIFICATION FairSpec
CONSTANTS
    Thread = {p1}
    Config = {keep, temporary}
    KeepState = {keep}
    MaxValidators = 2
    MaxBlocks = 2
PROPERTY
    StartedAddsBlocks
CHECK_DEADLOCK FALSE
