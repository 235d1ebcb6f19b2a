SPECIFICATION FairSpec
CONSTANTS
    DisconnectIn <- OnDisconnectOnly
    ReconnectOnFailure = TRUE
    Fallbacks <- NoFallback
    MaxFaults = 1
    MaxLives = 1
    MaxStarts = 1
PROPERTIES
    CallbackDisconnectEnds
CHECK_DEADLOCK FALSE
