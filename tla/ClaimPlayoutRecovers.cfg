CONSTANTS
    SeqCount = 24
    MaxDepth = 2
    MinPackets = 2
    Increase = 333
    Decrease = 250
    Holdoff = 1
    MaxLost = 4
SPECIFICATION FairSpec
PROPERTY PlayoutRecovers
