---------------------------- MODULE PeerManager -----------------------------
(***************************************************************************)
(* The peer table of one node, vc-core/src/peer.rs.  A PeerManager is a    *)
(* record; the HashMaps are functions whose domain is the set of keys.     *)
(*                                                                         *)
(* Of a RemotePeer the record keeps what the handshake decides on: the     *)
(* address, the connection state, whether nothing was heard for            *)
(* PEER_TIMEOUT_SECS ("stale", which stands for last_seen), whether our    *)
(* KEY_EXCHANGE went out, and the key derived from theirs.  The code sets  *)
(* peer_crypto and kx_received together, so one field stands for both.     *)
(* Jitter buffer, replay filters and latency tracker have modules of their *)
(* own.                                                                    *)
(***************************************************************************)
EXTENDS Integers, FiniteSets

CONSTANTS
    MaxPeers,   \* MAX_PEERS, participants including ourselves
    NoKey       \* peer_crypto = None

ASSUME MaxPeersAssumption == MaxPeers \in Nat \ {0}

Ids == 0 .. MaxPeers - 1

States == {"Discovered", "HelloSent", "Connected", "Disconnected"}

\* The HashMaps from K to V.
Maps(K, V) == UNION {[S -> V] : S \in SUBSET K}

\* HashMap::insert and HashMap::remove.
Insert(f, k, v) == [x \in DOMAIN f \cup {k} |-> IF x = k THEN v ELSE f[x]]
Remove(f, k) == [x \in DOMAIN f \ {k} |-> f[x]]

EmptyMap == [x \in {} |-> x]

\* RemotePeer::new
RemotePeer(addr) ==
    [addr |-> addr, state |-> "Discovered", stale |-> FALSE,
     kx_sent |-> FALSE, key |-> NoKey]

\* PeerManager::new_host and PeerManager::new_joiner.  Session 0 is the
\* all-zero session id a joiner starts with.
NewHost(session) ==
    [local_id |-> 0, session_id |-> session, peers |-> EmptyMap,
     addr_to_id |-> EmptyMap, is_host |-> TRUE, next_peer_id |-> 1]

NewJoiner ==
    [local_id |-> 0, session_id |-> 0, peers |-> EmptyMap,
     addr_to_id |-> EmptyMap, is_host |-> FALSE, next_peer_id |-> 0]

SetIdentity(pm, id, session) ==
    [pm EXCEPT !.local_id = id, !.session_id = session]

\* A plausible mistake: the table has no room set aside for ourselves.
MutantCanAddPeer(pm, id) ==
    \/ id = pm.local_id
    \/ Cardinality(DOMAIN pm.peers) < MaxPeers

\* add_peer returns Ok.  A full table refuses known peers too.
CanAddPeer(pm, id) ==
    \/ id = pm.local_id
    \/ Cardinality(DOMAIN pm.peers) < MaxPeers - 1

\* A plausible mistake: the address of a known peer changes and the entry of
\* its old address is forgotten in addr_to_id.
MutantAddPeerLeak(pm, id, addr) ==
    IF id = pm.local_id \/ ~ CanAddPeer(pm, id) THEN pm
    ELSE [pm EXCEPT !.peers = IF id \in DOMAIN @
                              THEN [@ EXCEPT ![id].addr = addr]
                              ELSE Insert(@, id, RemotePeer(addr)),
                    !.addr_to_id = Insert(@, addr, id)]

\* add_peer: a new peer is entered under its id and its address; the address
\* of a known one is replaced in both maps.
AddPeer(pm, id, addr) ==
    IF id = pm.local_id \/ ~ CanAddPeer(pm, id) THEN pm
    ELSE IF id \notin DOMAIN pm.peers
         THEN [pm EXCEPT !.peers = Insert(@, id, RemotePeer(addr)),
                         !.addr_to_id = Insert(@, addr, id)]
    ELSE IF pm.peers[id].addr # addr
         THEN [pm EXCEPT !.peers[id].addr = addr,
                         !.addr_to_id =
                            Insert(Remove(@, pm.peers[id].addr), addr, id)]
    ELSE pm

\* allocate_peer_id succeeds, and hands out next_peer_id.
CanAllocate(pm) == pm.is_host /\ pm.next_peer_id < MaxPeers

\* get_peer_mut followed by an assignment to state, with or without touch.
SetState(pm, id, state) ==
    IF id \in DOMAIN pm.peers THEN [pm EXCEPT !.peers[id].state = state] ELSE pm

Connect(pm, id) ==
    IF id \in DOMAIN pm.peers
    THEN [pm EXCEPT !.peers[id].state = "Connected", !.peers[id].stale = FALSE]
    ELSE pm

Touch(pm, id) ==
    IF id \in DOMAIN pm.peers THEN [pm EXCEPT !.peers[id].stale = FALSE] ELSE pm

\* A plausible mistake: every peer at the address is touched.
MutantTouchAddr(pm, addr) ==
    [pm EXCEPT !.peers =
        [id \in DOMAIN @ |-> [@[id] EXCEPT !.stale = @ /\ pm.peers[id].addr # addr]]]

\* peer_by_addr, then get_peer_mut and touch.
TouchAddr(pm, addr) ==
    IF addr \in DOMAIN pm.addr_to_id THEN Touch(pm, pm.addr_to_id[addr]) ELSE pm

ConnectedPeers(pm) == {id \in DOMAIN pm.peers : pm.peers[id].state = "Connected"}

\* build_peer_list: ourselves under the address given, then every known peer.
BuildPeerList(pm, local_addr) ==
    {<<pm.local_id, local_addr>>}
        \cup {<<id, pm.peers[id].addr>> : id \in DOMAIN pm.peers}

CheckTimeouts(pm) ==
    [pm EXCEPT !.peers =
        [id \in DOMAIN @ |->
            IF @[id].state = "Connected" /\ @[id].stale
            THEN [@[id] EXCEPT !.state = "Disconnected"]
            ELSE @[id]]]

-----------------------------------------------------------------------------
\* The two maps agree: every address leads to a peer that has this address.
AddrMapSound(pm) ==
    \A a \in DOMAIN pm.addr_to_id :
        /\ pm.addr_to_id[a] \in DOMAIN pm.peers
        /\ pm.peers[pm.addr_to_id[a]].addr = a
=============================================================================
