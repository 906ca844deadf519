SPECIFICATION FairSpec
CONSTANTS
    Solution = {s1}
    Deployment = {}
    Execution = {e1, e2}
    Doubtful = {e1}
    Client = {c1}
    NoTask = NoTask
    QueueCapacity = 1
    SeenCapacity = 2
    MaxSolutions = 1
    Tolerance = 1
    BatchLimit = 3
    SpendLimit = 1
    MaxFaults = 1
    MaxEpochs = 1
INVARIANTS TypeOK OwedIsHeld OnePlace
PROPERTY EventuallyConfirmed
