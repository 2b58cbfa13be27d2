CONSTANTS
    Host = Host
    Joiners = {j1, j2}
    HostLan = HostLan
    NoKey = NoKey
    MaxPeers = 3
    CounterMax = 0
    MaxRestarts = 0
    MaxLost = 0
    MaxDups = 0
    MaxFaults = 0
    Timeouts = {}
SPECIFICATION FairSpec
PROPERTIES
    HostReached
    GreetingConnects
