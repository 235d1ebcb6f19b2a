SPECIFICATION Spec
CONSTANTS
    MaxSockets = 2
    MaxCalls = 2
    MaxPackets = 2
    MaxFaults = 1
    Threads <- OneOrTwo
INVARIANTS
    WatchesFit
    CallbacksInOrder
PROPERTIES
    QueuedIsWritten
CHECK_DEADLOCK FALSE
