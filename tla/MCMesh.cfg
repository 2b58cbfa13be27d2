CONSTANTS
    Host = Host
    Joiners = {j1, j2}
    HostLan = HostLan
    NoKey = NoKey
    MaxPeers = 3
    CounterMax = 0
    MaxRestarts = 1
    MaxLost = 2
    MaxDups = 1
    MaxFaults = 2
    Timeouts = {}
SPECIFICATION Spec
SYMMETRY JoinerSymmetry
INVARIANTS
    UniqueIdentity
    AddressBook
    ConnectedMeansKnown
    KeyAgreement
