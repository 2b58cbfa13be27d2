--------------------------- MODULE MCPeerManager ----------------------------
(* PeerManagerSpec for TLC: addresses are interchangeable. *)
EXTENDS PeerManagerSpec, TLC

AddrSymmetry == Permutations(Addrs)
=============================================================================
