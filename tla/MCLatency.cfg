CONSTANTS
    MaxPendingPings = 2
    MaxU64 = 1000
    MaxId = 2
    TickLength = 9
    MaxTime = 9
    MaxPings = 3
    MaxPackets = 7
SPECIFICATION Spec
INVARIANTS
    TypeOK
    StatsConsistent
    EachPingOnce
    NewestCounts
    RoundTripIsTrue
