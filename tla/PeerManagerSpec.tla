-------------------------- MODULE PeerManagerSpec ---------------------------
(***************************************************************************)
(* One PeerManager under any sequence of calls of its public operations:   *)
(* what holds here holds for every caller, whatever packets it was led by. *)
(***************************************************************************)
EXTENDS PeerManager

CONSTANTS
    Addrs,      \* socket addresses
    IsHost      \* created by new_host or by new_joiner

ASSUME IsHostAssumption == IsHost \in BOOLEAN

VARIABLES
    pm,         \* the PeerManager
    given       \* given[id]: how often allocate_peer_id returned id

vars == <<pm, given>>

\* The fields of a RemotePeer that the table operations look at.
Entries == [addr : Addrs, state : States, stale : BOOLEAN,
            kx_sent : BOOLEAN, key : {NoKey}]

TypeOK ==
    /\ pm \in [local_id : Ids, session_id : {0, 1},
               peers : Maps(Ids, Entries),
               addr_to_id : Maps(Addrs, Ids),
               is_host : BOOLEAN, next_peer_id : 0 .. MaxPeers]
    /\ given \in [Ids -> Nat]

Init ==
    /\ pm = IF IsHost THEN NewHost(1) ELSE NewJoiner
    /\ given = [id \in Ids |-> 0]

CallAddPeer(id, addr) ==
    /\ pm' = AddPeer(pm, id, addr)
    /\ UNCHANGED given

CallSetIdentity(id) ==
    /\ pm' = SetIdentity(pm, id, 1)
    /\ UNCHANGED given

\* A plausible mistake: the bound of allocate_peer_id is checked, but the id
\* is not counted.
MutantCallAllocate ==
    /\ CanAllocate(pm)
    /\ given' = [given EXCEPT ![pm.next_peer_id] = @ + 1]
    /\ UNCHANGED pm

\* allocate_peer_id; without an id left it returns an error.
CallAllocate ==
    /\ CanAllocate(pm)
    /\ given' = [given EXCEPT ![pm.next_peer_id] = @ + 1]
    /\ pm' = [pm EXCEPT !.next_peer_id = @ + 1]

CallConnect(id) ==
    /\ pm' = Connect(pm, id)
    /\ UNCHANGED given

CallTouch(addr) ==
    /\ pm' = TouchAddr(pm, addr)
    /\ UNCHANGED given

CallCheckTimeouts ==
    /\ pm' = CheckTimeouts(pm)
    /\ UNCHANGED given

\* Nothing was heard from the peer for PEER_TIMEOUT_SECS.
TimePasses(id) ==
    /\ id \in DOMAIN pm.peers
    /\ pm' = [pm EXCEPT !.peers[id].stale = TRUE]
    /\ UNCHANGED given

Next ==
    \/ \E id \in Ids, addr \in Addrs : CallAddPeer(id, addr)
    \/ \E id \in Ids : \/ CallSetIdentity(id)
                       \/ CallConnect(id)
                       \/ TimePasses(id)
    \/ \E addr \in Addrs : CallTouch(addr)
    \/ CallAllocate
    \/ CallCheckTimeouts

Spec == Init /\ [][Next]_vars

-----------------------------------------------------------------------------
\* The two maps agree, also after peers moved to other addresses and after two
\* peers had the same one: an address always leads to a peer that is at this
\* address, so a KEEPALIVE or PING never renews a peer that is elsewhere.
MapsAgree == AddrMapSound(pm)

\* The table never outgrows the session: ourselves and MaxPeers - 1 others.
TableFits == Cardinality(DOMAIN pm.peers) <= MaxPeers - 1

\* No id is handed out twice, and never that of the host.
FreshIds ==
    /\ \A id \in Ids : given[id] <= 1
    /\ given[0] = 0
=============================================================================
