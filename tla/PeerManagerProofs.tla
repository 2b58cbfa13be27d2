------------------------- MODULE PeerManagerProofs --------------------------
(***************************************************************************)
(* For every number of peers and every set of addresses: the two maps of   *)
(* a PeerManager agree, its table never outgrows the session, and no id is *)
(* handed out twice.                                                       *)
(***************************************************************************)
EXTENDS PeerManagerSpec, FiniteSetTheorems, TLAPS

USE MaxPeersAssumption, IsHostAssumption

Tables == [local_id : Ids, session_id : {0, 1},
           peers : Maps(Ids, Entries),
           addr_to_id : Maps(Addrs, Ids),
           is_host : BOOLEAN, next_peer_id : 0 .. MaxPeers]

\* Membership in a set of maps, by the domain and the values.
LEMMA MapsByDomain ==
    ASSUME NEW K, NEW V, NEW f
    PROVE  f \in Maps(K, V)
             <=> DOMAIN f \subseteq K /\ f \in [DOMAIN f -> V]
BY DEF Maps

LEMMA InsertMap ==
    ASSUME NEW K, NEW V, NEW f \in Maps(K, V),
           NEW k \in K, NEW v \in V
    PROVE  Insert(f, k, v) \in Maps(K, V)
<1>1. DOMAIN f \subseteq K /\ f \in [DOMAIN f -> V]
  BY MapsByDomain
<1>2. Insert(f, k, v) \in [DOMAIN f \cup {k} -> V]
  BY <1>1 DEF Insert
<1>3. QED
  BY <1>1, <1>2, MapsByDomain DEF Insert

LEMMA RemoveMap ==
    ASSUME NEW K, NEW V, NEW f \in Maps(K, V), NEW k
    PROVE  Remove(f, k) \in Maps(K, V)
<1>1. DOMAIN f \subseteq K /\ f \in [DOMAIN f -> V]
  BY MapsByDomain
<1>2. Remove(f, k) \in [DOMAIN f \ {k} -> V]
  BY <1>1 DEF Remove
<1>3. QED
  BY <1>1, <1>2, MapsByDomain DEF Remove

\* What add_peer does in its three effective cases, and that it is a no-op in
\* the others.
LEMMA AddPeerCases ==
    ASSUME NEW t \in Tables, NEW id \in Ids, NEW addr \in Addrs
    PROVE  LET r == AddPeer(t, id, addr) IN
           \/ r = t
           \/ /\ id \notin DOMAIN t.peers
              /\ Cardinality(DOMAIN t.peers) < MaxPeers - 1
              /\ r = [t EXCEPT !.peers = Insert(t.peers, id, RemotePeer(addr)),
                               !.addr_to_id = Insert(t.addr_to_id, addr, id)]
           \/ /\ id \in DOMAIN t.peers
              /\ r = [t EXCEPT
                        !.peers = [t.peers EXCEPT ![id] =
                                        [t.peers[id] EXCEPT !.addr = addr]],
                        !.addr_to_id = Insert(Remove(t.addr_to_id,
                                                     t.peers[id].addr), addr, id)]
BY DEF AddPeer, CanAddPeer

LEMMA RemotePeerType ==
    ASSUME NEW addr \in Addrs
    PROVE  RemotePeer(addr) \in Entries /\ RemotePeer(addr).addr = addr
BY DEF RemotePeer, Entries, States

\* add_peer keeps the types, the agreement of the maps and the size of the
\* table.
LEMMA AddPeerSafe ==
    ASSUME NEW t \in Tables, NEW id \in Ids, NEW addr \in Addrs
    PROVE  LET r == AddPeer(t, id, addr) IN
           /\ r \in Tables
           /\ r.next_peer_id = t.next_peer_id
           /\ AddrMapSound(t) => AddrMapSound(r)
           /\ Cardinality(DOMAIN t.peers) <= MaxPeers - 1
                => Cardinality(DOMAIN r.peers) <= MaxPeers - 1
<1> DEFINE r == AddPeer(t, id, addr)
<1>0. /\ t.peers \in Maps(Ids, Entries)
      /\ t.addr_to_id \in Maps(Addrs, Ids)
  BY DEF Tables
<1>1. CASE r = t
  BY <1>1
<1>2. CASE /\ id \notin DOMAIN t.peers
           /\ Cardinality(DOMAIN t.peers) < MaxPeers - 1
           /\ r = [t EXCEPT !.peers = Insert(t.peers, id, RemotePeer(addr)),
                            !.addr_to_id = Insert(t.addr_to_id, addr, id)]
  <2> DEFINE ps == Insert(t.peers, id, RemotePeer(addr))
             as == Insert(t.addr_to_id, addr, id)
  <2>1. /\ ps \in Maps(Ids, Entries)
        /\ DOMAIN ps = DOMAIN t.peers \cup {id}
        /\ ps[id] = RemotePeer(addr)
        /\ \A x \in DOMAIN t.peers \ {id} : ps[x] = t.peers[x]
    <3>1. RemotePeer(addr) \in Entries
      BY RemotePeerType
    <3>2. ps \in Maps(Ids, Entries)
      BY <1>0, <3>1, InsertMap
    <3>3. QED
      BY <3>2 DEF Insert
  <2>2. /\ as \in Maps(Addrs, Ids)
        /\ DOMAIN as = DOMAIN t.addr_to_id \cup {addr}
        /\ as[addr] = id
        /\ \A x \in DOMAIN t.addr_to_id \ {addr} : as[x] = t.addr_to_id[x]
    <3>1. as \in Maps(Addrs, Ids)
      BY <1>0, InsertMap
    <3>2. QED
      BY <3>1 DEF Insert
  <2> HIDE DEF ps, as
  <2>3. r.peers = ps /\ r.addr_to_id = as /\ r.next_peer_id = t.next_peer_id
    BY <1>2 DEF ps, as, Tables
  <2>4. r \in Tables
    BY <1>2, <2>1, <2>2 DEF ps, as, Tables
  <2>5. AddrMapSound(t) => AddrMapSound(r)
    <3> SUFFICES ASSUME AddrMapSound(t), NEW a \in DOMAIN as
                 PROVE  as[a] \in DOMAIN ps /\ ps[as[a]].addr = a
      BY <2>3 DEF AddrMapSound
    <3>1. CASE a = addr
      <4>1. RemotePeer(addr).addr = addr
        BY RemotePeerType
      <4>2. as[a] = id /\ id \in DOMAIN ps
        BY <3>1, <2>1, <2>2
      <4>3. ps[as[a]] = RemotePeer(addr)
        BY <4>2, <2>1
      <4>4. QED
        BY <3>1, <4>1, <4>2, <4>3
    <3>2. CASE a # addr
      <4>1. a \in DOMAIN t.addr_to_id /\ as[a] = t.addr_to_id[a]
        BY <3>2, <2>2
      <4>2. as[a] \in DOMAIN t.peers /\ t.peers[as[a]].addr = a
        BY <4>1 DEF AddrMapSound
      <4>3. as[a] # id
        BY <4>2, <1>2
      <4>4. ps[as[a]] = t.peers[as[a]] /\ as[a] \in DOMAIN ps
        BY <4>2, <4>3, <2>1
      <4>5. QED
        BY <4>2, <4>4
    <3>3. QED
      BY <3>1, <3>2
  <2>6. Cardinality(DOMAIN r.peers) <= MaxPeers - 1
    <3>1. IsFiniteSet(DOMAIN t.peers)
      <4>1. DOMAIN t.peers \subseteq Ids
        BY <1>0, MapsByDomain
      <4>2. IsFiniteSet(Ids)
        BY FS_Interval DEF Ids
      <4>3. QED
        BY <4>1, <4>2, FS_Subset
    <3>2. Cardinality(DOMAIN t.peers \cup {id}) = Cardinality(DOMAIN t.peers) + 1
      BY <1>2, <3>1, FS_AddElement
    <3>3. Cardinality(DOMAIN t.peers) \in Nat
      BY <3>1, FS_CardinalityType
    <3>4. QED
      BY <1>2, <2>1, <2>3, <3>2, <3>3
  <2>7. QED
    BY <2>3, <2>4, <2>5, <2>6
<1>3. CASE /\ id \in DOMAIN t.peers
           /\ r = [t EXCEPT
                     !.peers = [t.peers EXCEPT ![id] =
                                    [t.peers[id] EXCEPT !.addr = addr]],
                     !.addr_to_id = Insert(Remove(t.addr_to_id,
                                                  t.peers[id].addr), addr, id)]
  <2> DEFINE ps == [t.peers EXCEPT ![id] = [t.peers[id] EXCEPT !.addr = addr]]
             rest == Remove(t.addr_to_id, t.peers[id].addr)
             as == Insert(rest, addr, id)
  <2>1. /\ ps \in Maps(Ids, Entries)
        /\ DOMAIN ps = DOMAIN t.peers
        /\ ps[id].addr = addr
        /\ \A x \in DOMAIN t.peers \ {id} : ps[x] = t.peers[x]
    <3>1. DOMAIN t.peers \subseteq Ids /\ t.peers \in [DOMAIN t.peers -> Entries]
      BY <1>0, MapsByDomain
    <3>2. /\ [t.peers[id] EXCEPT !.addr = addr] \in Entries
          /\ [t.peers[id] EXCEPT !.addr = addr].addr = addr
      BY <1>3, <3>1 DEF Entries
    <3>3. ps \in [DOMAIN t.peers -> Entries]
      BY <1>3, <3>1, <3>2
    <3>4. QED
      BY <1>3, <3>1, <3>2, <3>3, MapsByDomain
  <2>2. /\ rest \in Maps(Addrs, Ids)
        /\ DOMAIN rest = DOMAIN t.addr_to_id \ {t.peers[id].addr}
        /\ \A x \in DOMAIN rest : rest[x] = t.addr_to_id[x]
    <3>1. rest \in Maps(Addrs, Ids)
      BY <1>0, RemoveMap
    <3>2. QED
      BY <3>1 DEF Remove
  <2> HIDE DEF rest
  <2>3. /\ as \in Maps(Addrs, Ids)
        /\ DOMAIN as = DOMAIN rest \cup {addr}
        /\ as[addr] = id
        /\ \A x \in DOMAIN rest \ {addr} : as[x] = rest[x]
    <3>1. as \in Maps(Addrs, Ids)
      BY <2>2, InsertMap
    <3>2. QED
      BY <3>1 DEF Insert
  <2> HIDE DEF ps, as
  <2>4. r.peers = ps /\ r.addr_to_id = as /\ r.next_peer_id = t.next_peer_id
    BY <1>3 DEF ps, as, rest, Tables
  <2>5. r \in Tables
    BY <1>3, <2>1, <2>3 DEF ps, as, rest, Tables
  <2>6. AddrMapSound(t) => AddrMapSound(r)
    <3> SUFFICES ASSUME AddrMapSound(t), NEW a \in DOMAIN as
                 PROVE  as[a] \in DOMAIN ps /\ ps[as[a]].addr = a
      BY <2>4 DEF AddrMapSound
    <3>1. CASE a = addr
      <4>1. as[a] = id /\ id \in DOMAIN ps
        BY <1>3, <3>1, <2>1, <2>3
      <4>2. QED
        BY <3>1, <4>1, <2>1
    <3>2. CASE a # addr
      <4>1. a \in DOMAIN rest /\ as[a] = rest[a]
        BY <3>2, <2>3
      <4>2. /\ a \in DOMAIN t.addr_to_id /\ a # t.peers[id].addr
            /\ as[a] = t.addr_to_id[a]
        BY <4>1, <2>2
      <4>3. as[a] \in DOMAIN t.peers /\ t.peers[as[a]].addr = a
        BY <4>2 DEF AddrMapSound
      <4>4. as[a] # id
        BY <4>2, <4>3
      <4>5. ps[as[a]] = t.peers[as[a]] /\ as[a] \in DOMAIN ps
        BY <4>3, <4>4, <2>1
      <4>6. QED
        BY <4>3, <4>5
    <3>3. QED
      BY <3>1, <3>2
  <2>7. DOMAIN r.peers = DOMAIN t.peers
    BY <2>1, <2>4
  <2>8. QED
    BY <2>4, <2>5, <2>6, <2>7
<1>4. QED
  BY <1>1, <1>2, <1>3, AddPeerCases

\* A table that differs from t only in the states and flags of its peers.
SameShape(t, r) ==
    /\ r \in Tables
    /\ r.next_peer_id = t.next_peer_id
    /\ r.addr_to_id = t.addr_to_id
    /\ DOMAIN r.peers = DOMAIN t.peers
    /\ \A id \in DOMAIN t.peers : r.peers[id].addr = t.peers[id].addr

\* Replacing the entries by others at the same addresses gives such a table.
LEMMA NewEntries ==
    ASSUME NEW t \in Tables, NEW ps,
           DOMAIN ps = DOMAIN t.peers, ps \in [DOMAIN ps -> Entries],
           \A id \in DOMAIN t.peers : ps[id].addr = t.peers[id].addr
    PROVE  SameShape(t, [t EXCEPT !.peers = ps])
<1>1. ps \in Maps(Ids, Entries)
  BY MapsByDomain DEF Tables
<1>2. [t EXCEPT !.peers = ps] \in Tables
  BY <1>1 DEF Tables
<1>3. QED
  BY <1>2 DEF SameShape, Tables

LEMMA PeersTyped ==
    ASSUME NEW t \in Tables
    PROVE  /\ t.peers \in [DOMAIN t.peers -> Entries]
           /\ \A a \in DOMAIN t.addr_to_id : t.addr_to_id[a] \in Ids
BY MapsByDomain DEF Tables

LEMMA ConnectShape ==
    ASSUME NEW t \in Tables, NEW id \in Ids
    PROVE  SameShape(t, Connect(t, id))
<1>1. CASE id \in DOMAIN t.peers
  <2> DEFINE e  == [[t.peers[id] EXCEPT !.state = "Connected"] EXCEPT !.stale = FALSE]
             ps == [t.peers EXCEPT ![id] = e]
  <2>1. t.peers \in [DOMAIN t.peers -> Entries]
    BY PeersTyped
  <2>2. e \in Entries /\ e.addr = t.peers[id].addr
    BY <1>1, <2>1 DEF Entries, States
  <2>3. Connect(t, id) = [t EXCEPT !.peers = ps]
    BY <1>1, <2>1 DEF Connect, Tables
  <2> HIDE DEF e
  <2>4. /\ DOMAIN ps = DOMAIN t.peers /\ ps \in [DOMAIN ps -> Entries]
        /\ \A x \in DOMAIN t.peers : ps[x].addr = t.peers[x].addr
    BY <1>1, <2>1, <2>2
  <2> HIDE DEF ps
  <2>5. SameShape(t, [t EXCEPT !.peers = ps])
    BY <2>4, NewEntries
  <2>6. QED
    BY <2>3, <2>5
<1>2. CASE id \notin DOMAIN t.peers
  BY <1>2 DEF Connect, SameShape
<1>3. QED
  BY <1>1, <1>2

LEMMA SetStaleShape ==
    ASSUME NEW t \in Tables, NEW id \in DOMAIN t.peers, NEW b \in BOOLEAN
    PROVE  SameShape(t, [t EXCEPT !.peers[id].stale = b])
<1> DEFINE e  == [t.peers[id] EXCEPT !.stale = b]
           ps == [t.peers EXCEPT ![id] = e]
<1>1. t.peers \in [DOMAIN t.peers -> Entries]
  BY PeersTyped
<1>2. e \in Entries /\ e.addr = t.peers[id].addr
  BY <1>1 DEF Entries
<1>3. [t EXCEPT !.peers[id].stale = b] = [t EXCEPT !.peers = ps]
  BY DEF Tables
<1> HIDE DEF e
<1>4. /\ DOMAIN ps = DOMAIN t.peers /\ ps \in [DOMAIN ps -> Entries]
      /\ \A x \in DOMAIN t.peers : ps[x].addr = t.peers[x].addr
  BY <1>1, <1>2
<1>5. QED
  BY <1>3, <1>4, NewEntries

LEMMA TouchShape ==
    ASSUME NEW t \in Tables, NEW a \in Addrs
    PROVE  SameShape(t, TouchAddr(t, a))
<1>1. SameShape(t, t)
  BY DEF SameShape
<1>2. QED
  BY <1>1, SetStaleShape DEF TouchAddr, Touch

LEMMA CheckTimeoutsShape ==
    ASSUME NEW t \in Tables
    PROVE  SameShape(t, CheckTimeouts(t))
<1> DEFINE ps == [id \in DOMAIN t.peers |->
                    IF t.peers[id].state = "Connected" /\ t.peers[id].stale
                    THEN [t.peers[id] EXCEPT !.state = "Disconnected"]
                    ELSE t.peers[id]]
<1>1. t.peers \in [DOMAIN t.peers -> Entries]
  BY PeersTyped
<1>2. \A id \in DOMAIN t.peers :
        ps[id] \in Entries /\ ps[id].addr = t.peers[id].addr
  BY <1>1 DEF Entries, States
<1>3. CheckTimeouts(t) = [t EXCEPT !.peers = ps]
  BY DEF CheckTimeouts
<1>4. DOMAIN ps = DOMAIN t.peers /\ ps \in [DOMAIN ps -> Entries]
  BY <1>2
<1>5. QED
  BY <1>2, <1>3, <1>4, NewEntries, ZenonT(60)

-----------------------------------------------------------------------------
\* Type correctness of the table and of the ids handed out.
THEOREM TypeCorrect == Spec => []TypeOK
<1>0. TypeOK <=> pm \in Tables /\ given \in [Ids -> Nat]
  BY DEF TypeOK, Tables
<1>1. Init => TypeOK
  <2> SUFFICES ASSUME Init PROVE pm \in Tables /\ given \in [Ids -> Nat]
    BY <1>0
  <2>1. EmptyMap \in Maps(Ids, Entries) /\ EmptyMap \in Maps(Addrs, Ids)
    <3>1. EmptyMap \in [{} -> Entries] /\ EmptyMap \in [{} -> Ids]
      BY DEF EmptyMap
    <3>2. {} \in SUBSET Ids /\ {} \in SUBSET Addrs
      OBVIOUS
    <3> QED
      BY <3>1, <3>2 DEF Maps
  <2>2. 0 \in Ids
    BY DEF Ids
  <2>3. NewHost(1) \in Tables /\ NewJoiner \in Tables
    BY <2>1, <2>2 DEF NewHost, NewJoiner, Tables
  <2>4. QED
    BY <2>3 DEF Init
<1>2. TypeOK /\ [Next]_vars => TypeOK'
  <2> SUFFICES ASSUME pm \in Tables, given \in [Ids -> Nat], [Next]_vars
               PROVE  pm' \in Tables /\ given' \in [Ids -> Nat]
    BY <1>0 DEF TypeOK, Tables
  <2>1. ASSUME NEW id \in Ids, NEW addr \in Addrs, CallAddPeer(id, addr)
        PROVE  pm' \in Tables /\ given' = given
    BY <2>1, AddPeerSafe DEF CallAddPeer
  <2>2. ASSUME NEW id \in Ids, CallSetIdentity(id)
        PROVE  pm' \in Tables /\ given' = given
    BY <2>2 DEF CallSetIdentity, SetIdentity, Tables
  <2>3. ASSUME NEW id \in Ids, CallConnect(id)
        PROVE  pm' \in Tables /\ given' = given
    BY <2>3, ConnectShape DEF CallConnect, SameShape
  <2>4. ASSUME NEW id \in Ids, TimePasses(id)
        PROVE  pm' \in Tables /\ given' = given
    BY <2>4, SetStaleShape DEF TimePasses, SameShape
  <2>5. ASSUME NEW addr \in Addrs, CallTouch(addr)
        PROVE  pm' \in Tables /\ given' = given
    BY <2>5, TouchShape DEF CallTouch, SameShape
  <2>6. ASSUME CallAllocate
        PROVE  pm' \in Tables /\ given' \in [Ids -> Nat]
    <3>1. pm.next_peer_id \in 0 .. MaxPeers /\ pm.next_peer_id < MaxPeers
      BY <2>6 DEF CallAllocate, CanAllocate, Tables
    <3>2. pm.next_peer_id + 1 \in 0 .. MaxPeers /\ pm.next_peer_id \in Ids
      BY <3>1 DEF Ids
    <3>3. pm' = [pm EXCEPT !.next_peer_id = pm.next_peer_id + 1]
      BY <2>6 DEF CallAllocate
    <3>4. pm' \in Tables
      BY <3>2, <3>3 DEF Tables
    <3>5. given' \in [Ids -> Nat]
      BY <2>6, <3>2 DEF CallAllocate
    <3>6. QED
      BY <3>4, <3>5
  <2>7. ASSUME CallCheckTimeouts
        PROVE  pm' \in Tables /\ given' = given
    BY <2>7, CheckTimeoutsShape DEF CallCheckTimeouts, SameShape
  <2>8. CASE UNCHANGED vars
    BY <2>8 DEF vars
  <2>9. QED
    BY <2>1, <2>2, <2>3, <2>4, <2>5, <2>6, <2>7, <2>8 DEF Next
<1>3. QED
  BY <1>1, <1>2, PTL DEF Spec

\* A table of the same shape keeps the agreement of the maps and the size.
LEMMA ShapeKeeps ==
    ASSUME NEW t, NEW r, SameShape(t, r)
    PROVE  /\ AddrMapSound(t) => AddrMapSound(r)
           /\ Cardinality(DOMAIN r.peers) = Cardinality(DOMAIN t.peers)
<1>1. ASSUME AddrMapSound(t), NEW a \in DOMAIN r.addr_to_id
      PROVE  /\ r.addr_to_id[a] \in DOMAIN r.peers
             /\ r.peers[r.addr_to_id[a]].addr = a
  <2>1. a \in DOMAIN t.addr_to_id /\ r.addr_to_id[a] = t.addr_to_id[a]
    BY <1>1 DEF SameShape
  <2>2. t.addr_to_id[a] \in DOMAIN t.peers /\ t.peers[t.addr_to_id[a]].addr = a
    BY <1>1, <2>1 DEF AddrMapSound
  <2>3. QED
    BY <2>1, <2>2 DEF SameShape
<1>2. QED
  BY <1>1 DEF AddrMapSound, SameShape

\* An address always leads to a peer that is at this address, and the table
\* never has more than MaxPeers - 1 entries.
THEOREM TableCorrect == Spec => [](MapsAgree /\ TableFits)
<1>0. TypeOK => pm \in Tables
  BY DEF TypeOK, Tables
<1>1. Init => MapsAgree /\ TableFits
  <2> SUFFICES ASSUME Init PROVE MapsAgree /\ TableFits
    OBVIOUS
  <2>1. pm.peers = EmptyMap /\ pm.addr_to_id = EmptyMap
    BY DEF Init, NewHost, NewJoiner
  <2>2. DOMAIN EmptyMap = {}
    BY DEF EmptyMap
  <2>3. Cardinality({}) = 0
    BY FS_EmptySet
  <2>4. QED
    BY <2>1, <2>2, <2>3 DEF MapsAgree, AddrMapSound, TableFits
<1>2. TypeOK /\ MapsAgree /\ TableFits /\ [Next]_vars => MapsAgree' /\ TableFits'
  <2> SUFFICES ASSUME pm \in Tables, AddrMapSound(pm),
                      Cardinality(DOMAIN pm.peers) <= MaxPeers - 1,
                      [Next]_vars
               PROVE  AddrMapSound(pm') /\ Cardinality(DOMAIN pm'.peers) <= MaxPeers - 1
    BY <1>0 DEF MapsAgree, AddrMapSound, TableFits
  <2>1. ASSUME NEW id \in Ids, NEW addr \in Addrs, CallAddPeer(id, addr)
        PROVE  AddrMapSound(pm') /\ Cardinality(DOMAIN pm'.peers) <= MaxPeers - 1
    BY <2>1, AddPeerSafe DEF CallAddPeer
  <2>2. ASSUME NEW id \in Ids, CallSetIdentity(id)
        PROVE  AddrMapSound(pm') /\ Cardinality(DOMAIN pm'.peers) <= MaxPeers - 1
    <3>1. pm'.peers = pm.peers /\ pm'.addr_to_id = pm.addr_to_id
      BY <2>2 DEF CallSetIdentity, SetIdentity, Tables
    <3>2. QED
      BY <3>1 DEF AddrMapSound
  <2>3. ASSUME NEW id \in Ids, CallConnect(id) PROVE SameShape(pm, pm')
    BY <2>3, ConnectShape DEF CallConnect
  <2>4. ASSUME NEW id \in Ids, TimePasses(id) PROVE SameShape(pm, pm')
    BY <2>4, SetStaleShape DEF TimePasses
  <2>5. ASSUME NEW addr \in Addrs, CallTouch(addr) PROVE SameShape(pm, pm')
    BY <2>5, TouchShape DEF CallTouch
  <2>6. ASSUME CallAllocate
        PROVE  AddrMapSound(pm') /\ Cardinality(DOMAIN pm'.peers) <= MaxPeers - 1
    <3>1. pm'.peers = pm.peers /\ pm'.addr_to_id = pm.addr_to_id
      BY <2>6 DEF CallAllocate, Tables
    <3>2. QED
      BY <3>1 DEF AddrMapSound
  <2>7. ASSUME CallCheckTimeouts PROVE SameShape(pm, pm')
    BY <2>7, CheckTimeoutsShape DEF CallCheckTimeouts
  <2>8. CASE UNCHANGED vars
    BY <2>8 DEF vars
  <2>9. ASSUME SameShape(pm, pm')
        PROVE  AddrMapSound(pm') /\ Cardinality(DOMAIN pm'.peers) <= MaxPeers - 1
    BY <2>9, ShapeKeeps
  <2>10. QED
    BY <2>1, <2>2, <2>3, <2>4, <2>5, <2>6, <2>7, <2>8, <2>9 DEF Next
<1>3. QED
  BY <1>1, <1>2, TypeCorrect, PTL DEF Spec

\* The table of a session never outgrows it: joins that repeat, fail or come at
\* once leave at most MaxPeers - 1 entries.
THEOREM TableFitsCorrect == Spec => []TableFits
  BY TableCorrect, PTL

\* The ids handed out are the ones below next_peer_id.
IdsInv ==
    /\ \A id \in Ids : given[id] <= 1
    /\ \A id \in Ids : id >= pm.next_peer_id => given[id] = 0
    /\ given[0] = 0
    /\ pm.is_host => pm.next_peer_id >= 1

\* allocate_peer_id never returns the same id twice, nor the host's.
THEOREM IdsCorrect == Spec => []FreshIds
<1>0. TypeOK <=> pm \in Tables /\ given \in [Ids -> Nat]
  BY DEF TypeOK, Tables
<1>1. Init => IdsInv
  BY DEF Init, IdsInv, NewHost, NewJoiner, Ids
<1>2. TypeOK /\ IdsInv /\ [Next]_vars => IdsInv'
  <2> SUFFICES ASSUME pm \in Tables, given \in [Ids -> Nat], IdsInv, [Next]_vars
               PROVE  IdsInv'
    BY <1>0
  <2>1. CASE CallAllocate
    <3>1. /\ pm.next_peer_id \in Ids /\ pm.next_peer_id >= 1
          /\ pm'.next_peer_id = pm.next_peer_id + 1
          /\ pm'.is_host = pm.is_host
          /\ given' = [given EXCEPT ![pm.next_peer_id] = @ + 1]
      <4>1. pm.next_peer_id \in 0 .. MaxPeers /\ pm.next_peer_id < MaxPeers
        BY <2>1 DEF CallAllocate, CanAllocate, Tables
      <4>2. pm.next_peer_id >= 1
        BY <2>1 DEF CallAllocate, CanAllocate, IdsInv
      <4>3. /\ pm'.next_peer_id = pm.next_peer_id + 1
            /\ pm'.is_host = pm.is_host
        BY <2>1 DEF CallAllocate, Tables
      <4>4. pm.next_peer_id \in Ids
        BY <4>1 DEF Ids
      <4>5. QED
        BY <2>1, <4>2, <4>3, <4>4 DEF CallAllocate
    <3>2. QED
      BY <3>1 DEF IdsInv, Ids
  <2>2. CASE /\ given' = given
             /\ pm'.next_peer_id = pm.next_peer_id
             /\ pm'.is_host = pm.is_host
    BY <2>2 DEF IdsInv
  <2>3. ASSUME NEW id \in Ids, NEW addr \in Addrs, CallAddPeer(id, addr)
        PROVE  /\ given' = given
               /\ pm'.next_peer_id = pm.next_peer_id
               /\ pm'.is_host = pm.is_host
    BY <2>3 DEF CallAddPeer, AddPeer, Tables
  <2>4. ASSUME NEW id \in Ids,
               CallSetIdentity(id) \/ CallConnect(id) \/ TimePasses(id)
        PROVE  /\ given' = given
               /\ pm'.next_peer_id = pm.next_peer_id
               /\ pm'.is_host = pm.is_host
    BY <2>4 DEF CallSetIdentity, SetIdentity, CallConnect, Connect, TimePasses,
                Tables
  <2>5. ASSUME NEW addr \in Addrs, CallTouch(addr)
        PROVE  /\ given' = given
               /\ pm'.next_peer_id = pm.next_peer_id
               /\ pm'.is_host = pm.is_host
    BY <2>5 DEF CallTouch, TouchAddr, Touch, Tables
  <2>6. ASSUME CallCheckTimeouts \/ UNCHANGED vars
        PROVE  /\ given' = given
               /\ pm'.next_peer_id = pm.next_peer_id
               /\ pm'.is_host = pm.is_host
    BY <2>6 DEF CallCheckTimeouts, CheckTimeouts, vars, Tables
  <2>7. QED
    BY <2>1, <2>2, <2>3, <2>4, <2>5, <2>6 DEF Next
<1>3. IdsInv => FreshIds
  BY DEF IdsInv, FreshIds
<1>4. QED
  BY <1>1, <1>2, <1>3, TypeCorrect, PTL DEF Spec
=============================================================================
