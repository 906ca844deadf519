SPECIFICATION Spec
CONSTANTS
    Solution = {}
    Deployment = {d1}
    Execution = {e1}
    Doubtful = {}
    Client = {c1}
    NoTask = NoTask
    QueueCapacity = 2
    SeenCapacity = 1
    MaxSolutions = 1
    Tolerance = 2
    BatchLimit = 2
    SpendLimit = 2
    MaxFaults = 1
    MaxEpochs = 0
INVARIANT LedgerOnce
