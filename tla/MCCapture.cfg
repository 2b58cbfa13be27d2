CONSTANTS
    FrameSamples = 2
    BlockFrames = 2
    RingCapacity = 5
    PopMax = 4
    HoldFrames = 1
    CallbackSize = 3
    MaxSamples = 12
    MaxClicks = 3
SPECIFICATION Spec
CHECK_DEADLOCK FALSE
INVARIANTS
    TypeOK
    Accounted
    InOrder
PROPERTY GateFollowsControls
