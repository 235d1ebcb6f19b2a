SPECIFICATION FairSpec
CONSTANTS
    DisconnectIn <- Anywhere
    ReconnectOnFailure = TRUE
    Fallbacks <- OldVersion
    MaxFaults = 2
    MaxLives = 2
    MaxStarts = 2
INVARIANTS
    EndsReported
PROPERTIES
    RunsUntilAsked
    OnConnectDisconnectEnds
    Reconnects
    LoopStopReturns
CHECK_DEADLOCK FALSE
