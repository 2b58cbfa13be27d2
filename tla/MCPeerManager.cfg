\* Four ids and room for three peers: the table gets full, and two peers can
\* share one of the two addresses.
CONSTANTS
    MaxPeers = 4
    NoKey = NoKey
    Addrs = {a1, a2}
    IsHost = TRUE
SPECIFICATION Spec
SYMMETRY AddrSymmetry
INVARIANTS
    MapsAgree
    TableFits
    FreshIds
