SPECIFICATION Spec
CONSTANTS
    MaxMid = 3
    MaxPub = 3
    MaxIn = 1
    MaxInflight = 1
    MaxQueued = 0
    CleanModes <- Never
    ManualAck = FALSE
    PublishWhen <- NotDuringConnect
    OutQos <- QoS12
    InQos <- QoS1Only
    Faults <- FaultsWhenUp
    MaxFaults = 3
    MaxConsumed = 1
    StaleMids <- NoMids
INVARIANTS
    RetransmissionsMarked
    FirstDeliveriesInOrder
PROPERTIES
    ImplementsDelivery
CHECK_DEADLOCK FALSE
