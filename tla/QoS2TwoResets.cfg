SPECIFICATION Spec
CONSTANTS
    MaxMid = 2
    MaxPub = 1
    MaxIn = 0
    MaxInflight = 1
    MaxQueued = 0
    CleanModes <- Never
    ManualAck = FALSE
    PublishWhen <- WhenUp
    OutQos <- QoS2Only
    InQos <- AnyQoS
    Faults <- SlowFaults
    MaxFaults = 2
    MaxConsumed = 0
    StaleMids <- NoMids
INVARIANTS
    ExactlyOnce
CHECK_DEADLOCK FALSE
