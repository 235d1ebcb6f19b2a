SPECIFICATION FairSpec
CONSTANTS
    Base = 2
    MaxDigits = 2
    LongFrame = 3
    MaxReads = 2
    Transports <- BothTransports
    Bodies <- BodyLens
    FrameSizes <- Sizes
    Extras <- ExtraFrames
    MaxAt = 2
    MaxRaises = 1
    MaxLives = 2
INVARIANTS
    HandledAsSent
    PingsAnsweredOnce
    NothingHidden
PROPERTIES
    EventuallyHandled
CHECK_DEADLOCK FALSE
