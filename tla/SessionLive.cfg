SPECIFICATION FairSpec
CONSTANTS
    MaxMid = 3
    MaxPub = 2
    MaxIn = 1
    MaxInflight = 1
    MaxQueued = 0
    CleanModes <- FirstOrAlways
    ManualAck = FALSE
    PublishWhen <- Anytime
    OutQos <- QoS12
    InQos <- QoS2Only
    Faults <- NotRefused
    MaxFaults = 2
    MaxConsumed = 0
    StaleMids <- OneStaleMid
INVARIANTS
    NoStaleSession
    InboundNotLost
PROPERTIES
    EventuallyPublished
    InboundCompletes
CHECK_DEADLOCK FALSE
