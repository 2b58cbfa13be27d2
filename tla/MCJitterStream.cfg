CONSTANTS
    SeqCount = 12
    MaxDepth = 2
    MinPackets = 2
    Increase = 333
    Decrease = 250
    Holdoff = 1
    ReplayWindow = 4
    MaxSent = 14
    MaxFlight = 2
SPECIFICATION Spec
INVARIANTS
    TypeOK
    SortedFresh
PROPERTIES
    PlayedInOrder
    NoFrameSkipped
