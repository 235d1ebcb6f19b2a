SPECIFICATION Spec
CONSTANTS
    Keepalives <- OffOrSome
    AnswerWithin = 2
    MaxAge = 9
INVARIANTS
    NeverTooSilent
    DeadBrokerNoticed
    LiveBrokerKept
