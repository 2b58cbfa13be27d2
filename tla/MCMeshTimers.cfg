CONSTANTS
    Host = Host
    Joiners = {j1}
    HostLan = HostLan
    NoKey = NoKey
    MaxPeers = 3
    CounterMax = 1
    MaxRestarts = 1
    MaxLost = 1
    MaxDups = 0
    MaxFaults = 2
    Timeouts = {Host}
SPECIFICATION Spec
INVARIANT TypeOK
 
