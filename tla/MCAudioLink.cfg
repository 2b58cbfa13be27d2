CONSTANTS
    WindowSize = 4
    MaxFrames = 4
    MaxOther = 1
    MaxKxLost = 1
    MaxKxDups = 1
    MaxRelists = 1
SPECIFICATION Spec
CHECK_DEADLOCK FALSE
INVARIANTS
    TypeOK
    PushedOnce
    UpgradeSafe
PROPERTY FreshHeard
