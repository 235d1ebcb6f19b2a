SPECIFICATION Spec
CONSTANTS
    MaxMid = 2
    MaxPub = 3
    MaxIn = 1
    MaxInflight = 1
    MaxQueued = 2
    CleanModes <- NeverOrAlways
    ManualAck = TRUE
    PublishWhen <- Anytime
    OutQos <- QoS12
    InQos <- QoS12
    Faults <- AllFaults
    MaxFaults = 2
    MaxConsumed = 0
    StaleMids <- NoMids
INVARIANTS
    TypeOK
    WorkConserving
    ResumeReachesAll
    NoSlotLeak
    OneHolder
    PublishedDelivered
    InboundOnce
CHECK_DEADLOCK FALSE
