CONSTANTS
    TransmissionID = {a, b, c, d}
    Transmission = {tx, sol}
    Solution = {sol}
    NoTransmission = None
    MaxOffset = 4
SPECIFICATION Spec
INVARIANTS IndexInv GetAnswersQueued
PROPERTY ImplementsQueue
