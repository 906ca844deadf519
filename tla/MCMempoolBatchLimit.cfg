SPECIFICATION Spec
CONSTANTS
    Solution = {}
    Deployment = {}
    Execution = {e1, e2}
    Doubtful = {}
    Client = {c1}
    NoTask = NoTask
    QueueCapacity = 2
    SeenCapacity = 3
    MaxSolutions = 1
    Tolerance = 2
    BatchLimit = 1
    SpendLimit = 2
    MaxFaults = 0
    MaxEpochs = 0
INVARIANT OwedIsHeld
