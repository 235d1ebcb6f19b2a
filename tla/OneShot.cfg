SPECIFICATION Spec
CONSTANTS
    QosLists <- Lists
    SubTopics <- TwoTopics
    MsgCount = 2
    Retained <- Either
    LiveTopic = "live"
    RetainedTopic = "old"
    MaxFaults = 2
INVARIANTS
    EndsAsPromised
    GathersExactly
PROPERTIES
    PublisherReturns
    HandedOver
CHECK_DEADLOCK FALSE
