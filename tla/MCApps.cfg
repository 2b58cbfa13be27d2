CONSTANT MaxSessions = 3
SPECIFICATION FairSpec
CHECK_DEADLOCK FALSE
INVARIANTS
    TypeOK
    ListenerStops
    OrphansWereLeftEarly
PROPERTIES
    ToldToStopEnds
    EndIsNoticed
    CtrlCEndsLoopback
