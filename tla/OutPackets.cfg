SPECIFICATION FairSpec
CONSTANTS
    w1 = w1
    MaxPub = 2
    Size <- Unequal
    Waiters <- OneWaiter
    PublishFrom <- AppOrCallback
    Transports <- AllTransports
    MaxBreaks = 2
INVARIANTS
    WholePackets
    SuccessIsWritten
    NoneForgotten
PROPERTIES
    CallbackWaitReturns
CHECK_DEADLOCK FALSE
