----------------------------- MODULE MeshProofs -----------------------------
(***************************************************************************)
(* Proofs about the control plane, for every set of joiners, every size of *)
(* the session and any number of losses, repeats and restarts.             *)
(*                                                                         *)
(* The argument for ids and addresses (CoreInv) is about ownership: the    *)
(* host's table only grows, and its entry for an id is never moved, so the *)
(* node behind an id is settled when the host hands it out.  Whatever a    *)
(* packet or a table says about an id agrees with that.                    *)
(***************************************************************************)
EXTENDS Mesh, FiniteSetTheorems, TLAPS

USE MaxPeersAssumption, MeshAssumption

Entries == [addr : Addrs, state : States, stale : BOOLEAN, kx_sent : BOOLEAN,
            key : Keys \cup {NoKey}]

Tables == [local_id : Ids, session_id : {0, 1},
           peers : Maps(Ids, Entries), addr_to_id : Maps(Addrs, Ids),
           is_host : BOOLEAN, next_peer_id : 0 .. MaxPeers]

-----------------------------------------------------------------------------
(* The operations of the peer table *)

LEMMA MapsByDomain ==
    ASSUME NEW K, NEW V, NEW f
    PROVE  f \in Maps(K, V)
             <=> DOMAIN f \subseteq K /\ f \in [DOMAIN f -> V]
BY DEF Maps

LEMMA TableTyped ==
    ASSUME NEW t \in Tables
    PROVE  /\ t.peers \in [DOMAIN t.peers -> Entries]
           /\ DOMAIN t.peers \subseteq Ids
           /\ DOMAIN t.addr_to_id \subseteq Addrs
           /\ \A a \in DOMAIN t.addr_to_id : t.addr_to_id[a] \in Ids
           /\ \A id \in DOMAIN t.peers : t.peers[id].addr \in Addrs
<1>1. t.peers \in Maps(Ids, Entries) /\ t.addr_to_id \in Maps(Addrs, Ids)
  BY DEF Tables
<1>2. /\ DOMAIN t.peers \subseteq Ids /\ t.peers \in [DOMAIN t.peers -> Entries]
      /\ DOMAIN t.addr_to_id \subseteq Addrs
      /\ t.addr_to_id \in [DOMAIN t.addr_to_id -> Ids]
  BY <1>1, MapsByDomain
<1> QED
  BY <1>2 DEF Entries

\* t and u have the same peers at the same addresses.
SameBook(t, u) ==
    /\ u \in Tables
    /\ u.local_id = t.local_id /\ u.session_id = t.session_id
    /\ u.is_host = t.is_host /\ u.next_peer_id = t.next_peer_id
    /\ u.addr_to_id = t.addr_to_id
    /\ DOMAIN u.peers = DOMAIN t.peers
    /\ \A id \in DOMAIN t.peers : u.peers[id].addr = t.peers[id].addr

LEMMA NewEntries ==
    ASSUME NEW t \in Tables, NEW ps,
           DOMAIN ps = DOMAIN t.peers, ps \in [DOMAIN ps -> Entries],
           \A id \in DOMAIN t.peers : ps[id].addr = t.peers[id].addr
    PROVE  SameBook(t, [t EXCEPT !.peers = ps]) /\ [t EXCEPT !.peers = ps].peers = ps
<1>1. ps \in Maps(Ids, Entries)
  BY MapsByDomain, TableTyped
<1>2. [t EXCEPT !.peers = ps] \in Tables
  BY <1>1 DEF Tables
<1> QED
  BY <1>2 DEF SameBook, Tables

\* One entry is replaced by another at the same address.
LEMMA NewEntry ==
    ASSUME NEW t \in Tables, NEW id \in DOMAIN t.peers, NEW e \in Entries,
           e.addr = t.peers[id].addr
    PROVE  LET u == [t EXCEPT !.peers = [t.peers EXCEPT ![id] = e]]
           IN  /\ SameBook(t, u) /\ u.peers[id] = e
               /\ \A x \in DOMAIN t.peers \ {id} : u.peers[x] = t.peers[x]
<1> DEFINE ps == [t.peers EXCEPT ![id] = e]
<1>1. t.peers \in [DOMAIN t.peers -> Entries]
  BY TableTyped
<1>2. /\ DOMAIN ps = DOMAIN t.peers /\ ps \in [DOMAIN ps -> Entries]
      /\ ps[id] = e /\ \A x \in DOMAIN t.peers \ {id} : ps[x] = t.peers[x]
  BY <1>1
<1> HIDE DEF ps
<1>3. \A x \in DOMAIN t.peers : ps[x].addr = t.peers[x].addr
  BY <1>2
<1>4. SameBook(t, [t EXCEPT !.peers = ps]) /\ [t EXCEPT !.peers = ps].peers = ps
  BY <1>2, <1>3, NewEntries
<1> QED
  BY <1>2, <1>4 DEF ps

LEMMA ConnectEffect ==
    ASSUME NEW t \in Tables, NEW id
    PROVE  LET u == Connect(t, id)
           IN  /\ SameBook(t, u)
               /\ \A x \in DOMAIN t.peers :
                    /\ u.peers[x].key = t.peers[x].key
                    /\ u.peers[x].state = IF x = id THEN "Connected"
                                          ELSE t.peers[x].state
                    /\ x # id => u.peers[x].stale = t.peers[x].stale
<1>1. CASE id \in DOMAIN t.peers
  <2> DEFINE e == [t.peers[id] EXCEPT !.state = "Connected", !.stale = FALSE]
  <2>1. t.peers \in [DOMAIN t.peers -> Entries]
    BY TableTyped
  <2>2. /\ e \in Entries /\ e.addr = t.peers[id].addr
        /\ e.key = t.peers[id].key /\ e.state = "Connected"
    BY <1>1, <2>1 DEF Entries, States
  <2>3. Connect(t, id) = [t EXCEPT !.peers = [t.peers EXCEPT ![id] = e]]
    BY <1>1, <2>1 DEF Connect, Tables
  <2> HIDE DEF e
  <2> QED
    BY <1>1, <2>2, <2>3, NewEntry
<1>2. CASE id \notin DOMAIN t.peers
  BY <1>2 DEF Connect, SameBook
<1> QED
  BY <1>1, <1>2

LEMMA SetStateEffect ==
    ASSUME NEW t \in Tables, NEW id, NEW s \in States
    PROVE  LET u == SetState(t, id, s)
           IN  /\ SameBook(t, u)
               /\ \A x \in DOMAIN t.peers :
                    /\ u.peers[x].key = t.peers[x].key
                    /\ u.peers[x].state = IF x = id THEN s ELSE t.peers[x].state
                    /\ u.peers[x].stale = t.peers[x].stale
<1>1. CASE id \in DOMAIN t.peers
  <2> DEFINE e == [t.peers[id] EXCEPT !.state = s]
  <2>1. t.peers \in [DOMAIN t.peers -> Entries]
    BY TableTyped
  <2>2. /\ e \in Entries /\ e.addr = t.peers[id].addr /\ e.stale = t.peers[id].stale
        /\ e.key = t.peers[id].key /\ e.state = s
    BY <1>1, <2>1 DEF Entries, States
  <2>3. SetState(t, id, s) = [t EXCEPT !.peers = [t.peers EXCEPT ![id] = e]]
    BY <1>1, <2>1 DEF SetState, Tables
  <2> HIDE DEF e
  <2> QED
    BY <1>1, <2>2, <2>3, NewEntry
<1>2. CASE id \notin DOMAIN t.peers
  BY <1>2 DEF SetState, SameBook
<1> QED
  BY <1>1, <1>2

\* A peer has not been heard of for a while.
LEMMA StaleEffect ==
    ASSUME NEW t \in Tables, NEW id \in DOMAIN t.peers
    PROVE  LET u == [t EXCEPT !.peers[id].stale = TRUE]
           IN  /\ SameBook(t, u)
               /\ \A x \in DOMAIN t.peers :
                    /\ u.peers[x].key = t.peers[x].key
                    /\ u.peers[x].state = t.peers[x].state
                    /\ t.peers[x].stale => u.peers[x].stale
<1> DEFINE e == [t.peers[id] EXCEPT !.stale = TRUE]
<1>1. t.peers \in [DOMAIN t.peers -> Entries]
  BY TableTyped
<1>2. /\ e \in Entries /\ e.addr = t.peers[id].addr /\ e.stale = TRUE
      /\ e.key = t.peers[id].key /\ e.state = t.peers[id].state
  BY <1>1 DEF Entries
<1>3. [t EXCEPT !.peers[id].stale = TRUE]
        = [t EXCEPT !.peers = [t.peers EXCEPT ![id] = e]]
  BY DEF Tables
<1> HIDE DEF e
<1> QED
  BY <1>2, <1>3, NewEntry

LEMMA TouchEffect ==
    ASSUME NEW t \in Tables, NEW id
    PROVE  LET u == Touch(t, id)
           IN  /\ SameBook(t, u)
               /\ \A x \in DOMAIN t.peers :
                    /\ u.peers[x].key = t.peers[x].key
                    /\ u.peers[x].state = t.peers[x].state
                    /\ x # id => u.peers[x].stale = t.peers[x].stale
<1>1. CASE id \in DOMAIN t.peers
  <2> DEFINE e == [t.peers[id] EXCEPT !.stale = FALSE]
  <2>1. t.peers \in [DOMAIN t.peers -> Entries]
    BY TableTyped
  <2>2. /\ e \in Entries /\ e.addr = t.peers[id].addr
        /\ e.key = t.peers[id].key /\ e.state = t.peers[id].state
    BY <1>1, <2>1 DEF Entries
  <2>3. Touch(t, id) = [t EXCEPT !.peers = [t.peers EXCEPT ![id] = e]]
    BY <1>1 DEF Touch, Tables
  <2> HIDE DEF e
  <2> QED
    BY <1>1, <2>2, <2>3, NewEntry
<1>2. CASE id \notin DOMAIN t.peers
  BY <1>2 DEF Touch, SameBook
<1> QED
  BY <1>1, <1>2

LEMMA TouchAddrEffect ==
    ASSUME NEW t \in Tables, NEW a
    PROVE  LET u == TouchAddr(t, a)
           IN  /\ SameBook(t, u)
               /\ \A x \in DOMAIN t.peers :
                    /\ u.peers[x].key = t.peers[x].key
                    /\ u.peers[x].state = t.peers[x].state
                    /\ ~ (a \in DOMAIN t.addr_to_id /\ x = t.addr_to_id[a])
                        => u.peers[x].stale = t.peers[x].stale
<1>1. SameBook(t, t)
  BY DEF SameBook
<1>2. CASE a \in DOMAIN t.addr_to_id
  <2>1. TouchAddr(t, a) = Touch(t, t.addr_to_id[a])
    BY <1>2 DEF TouchAddr
  <2> QED
    BY <1>2, <2>1, TouchEffect
<1>3. CASE a \notin DOMAIN t.addr_to_id
  BY <1>1, <1>3 DEF TouchAddr
<1> QED
  BY <1>2, <1>3

LEMMA CheckTimeoutsEffect ==
    ASSUME NEW t \in Tables
    PROVE  LET u == CheckTimeouts(t)
           IN  /\ SameBook(t, u)
               /\ \A x \in DOMAIN t.peers :
                    /\ u.peers[x].key = t.peers[x].key
                    /\ u.peers[x].state = "Connected" => t.peers[x].state = "Connected"
                    /\ u.peers[x].stale = t.peers[x].stale
<1> DEFINE ps == [id \in DOMAIN t.peers |->
                    IF t.peers[id].state = "Connected" /\ t.peers[id].stale
                    THEN [t.peers[id] EXCEPT !.state = "Disconnected"]
                    ELSE t.peers[id]]
<1>1. t.peers \in [DOMAIN t.peers -> Entries]
  BY TableTyped
<1>2. \A id \in DOMAIN t.peers :
        /\ ps[id] \in Entries /\ ps[id].addr = t.peers[id].addr
        /\ ps[id].key = t.peers[id].key /\ ps[id].stale = t.peers[id].stale
        /\ ps[id].state = "Connected" => t.peers[id].state = "Connected"
  BY <1>1 DEF Entries, States
<1>3. CheckTimeouts(t) = [t EXCEPT !.peers = ps]
  BY DEF CheckTimeouts
<1>4. DOMAIN ps = DOMAIN t.peers /\ ps \in [DOMAIN ps -> Entries]
  BY <1>2
<1> HIDE DEF ps
<1> QED
  BY <1>2, <1>3, <1>4, NewEntries

LEMMA RemotePeerType ==
    ASSUME NEW addr \in Addrs
    PROVE  /\ RemotePeer(addr) \in Entries /\ RemotePeer(addr).addr = addr
           /\ RemotePeer(addr).key = NoKey
           /\ RemotePeer(addr).state = "Discovered"
BY DEF RemotePeer, Entries, States

\* add_peer with an address that a known peer has already.
LEMMA AddPeerEffect ==
    ASSUME NEW t \in Tables, NEW id \in Ids, NEW addr \in Addrs,
           id \in DOMAIN t.peers => t.peers[id].addr = addr
    PROVE  LET u == AddPeer(t, id, addr)
           IN  \/ u = t /\ (id = t.local_id \/ ~ CanAddPeer(t, id) \/ id \in DOMAIN t.peers)
               \/ /\ id \notin DOMAIN t.peers /\ id # t.local_id
                  /\ u \in Tables
                  /\ u.local_id = t.local_id /\ u.session_id = t.session_id
                  /\ u.is_host = t.is_host /\ u.next_peer_id = t.next_peer_id
                  /\ DOMAIN u.addr_to_id = DOMAIN t.addr_to_id \cup {addr}
                  /\ u.addr_to_id[addr] = id
                  /\ \A a \in DOMAIN t.addr_to_id \ {addr} :
                        u.addr_to_id[a] = t.addr_to_id[a]
                  /\ DOMAIN u.peers = DOMAIN t.peers \cup {id}
                  /\ u.peers[id] = RemotePeer(addr)
                  /\ \A x \in DOMAIN t.peers : u.peers[x] = t.peers[x]
<1> DEFINE ps == Insert(t.peers, id, RemotePeer(addr))
           as == Insert(t.addr_to_id, addr, id)
           u == AddPeer(t, id, addr)
<1>1. CASE id = t.local_id \/ ~ CanAddPeer(t, id) \/ id \in DOMAIN t.peers
  BY <1>1 DEF AddPeer
<1>2. CASE ~ (id = t.local_id \/ ~ CanAddPeer(t, id) \/ id \in DOMAIN t.peers)
  <2>1. u = [t EXCEPT !.peers = ps, !.addr_to_id = as]
    BY <1>2 DEF AddPeer
  <2>3. /\ ps \in Maps(Ids, Entries)
        /\ DOMAIN ps = DOMAIN t.peers \cup {id} /\ ps[id] = RemotePeer(addr)
        /\ \A x \in DOMAIN t.peers \ {id} : ps[x] = t.peers[x]
    <3>1. RemotePeer(addr) \in Entries
      BY RemotePeerType
    <3>2. t.peers \in [DOMAIN t.peers -> Entries] /\ DOMAIN t.peers \subseteq Ids
      BY TableTyped
    <3>3. ps \in [DOMAIN t.peers \cup {id} -> Entries]
      BY <3>1, <3>2 DEF Insert
    <3> QED
      BY <3>2, <3>3, MapsByDomain DEF Insert
  <2>4. /\ as \in Maps(Addrs, Ids)
        /\ DOMAIN as = DOMAIN t.addr_to_id \cup {addr} /\ as[addr] = id
        /\ \A x \in DOMAIN t.addr_to_id \ {addr} : as[x] = t.addr_to_id[x]
    <3>1. /\ DOMAIN t.addr_to_id \subseteq Addrs
          /\ \A a \in DOMAIN t.addr_to_id : t.addr_to_id[a] \in Ids
      BY TableTyped
    <3>2. as \in [DOMAIN t.addr_to_id \cup {addr} -> Ids]
      BY <3>1 DEF Insert
    <3> QED
      BY <3>1, <3>2, MapsByDomain DEF Insert
  <2> HIDE DEF ps, as
  <2>5. u \in Tables /\ u.peers = ps /\ u.addr_to_id = as
        /\ u.local_id = t.local_id /\ u.session_id = t.session_id
        /\ u.is_host = t.is_host /\ u.next_peer_id = t.next_peer_id
    BY <2>1, <2>3, <2>4 DEF Tables
  <2> QED
    BY <1>2, <2>3, <2>4, <2>5
<1> QED
  BY <1>1, <1>2

-----------------------------------------------------------------------------
(* The inductive invariant *)

\* id stands for the node at address a: the host has 0, and its table says who
\* got the others.
Owns(id, a) ==
    IF id = 0 THEN a = Host
    ELSE id \in DOMAIN pm[Host].peers /\ pm[Host].peers[id].addr = a

Types ==
    /\ up \in [Nodes -> BOOLEAN]
    /\ restarts \in 0 .. MaxRestarts /\ runs \in [Nodes -> 1 .. restarts + 1]
    /\ pm \in [Nodes -> Tables]
    /\ send_counter \in [Nodes -> 0 .. CounterMax]
    /\ todo \in [Nodes -> SUBSET (Ids \X Addrs)]
    /\ lost \in 0 .. MaxLost /\ dups \in 0 .. MaxDups

\* The host's ids go up, and the newest entry of an address is the one its
\* address map leads to.
HostInv ==
    LET t == pm[Host]
    IN  /\ up[Host] /\ todo[Host] = {}
        /\ t.local_id = 0 /\ t.session_id = 1 /\ t.is_host = TRUE
        /\ t.next_peer_id >= 1
        /\ \A id \in DOMAIN t.peers :
            /\ 1 <= id /\ id < t.next_peer_id /\ t.peers[id].addr \in Joiners
            /\ t.peers[id].addr \in DOMAIN t.addr_to_id
            /\ t.addr_to_id[t.peers[id].addr] >= id
        /\ AddrMapSound(t)

\* A joiner that is not yet a member has nothing, and a member has an id that
\* the host gave it.
JoinerInv(n) ==
    /\ pm[n].is_host = FALSE
    /\ \/ /\ pm[n].session_id = 0 /\ pm[n].local_id = 0
          /\ DOMAIN pm[n].peers = {} /\ todo[n] = {}
       \/ /\ pm[n].session_id = 1 /\ pm[n].local_id # 0
          /\ Owns(pm[n].local_id, n)
    /\ ~ up[n] => pm[n] = NewJoiner
    /\ \A e \in todo[n] : Owns(e[1], e[2]) /\ e[1] # pm[n].local_id

TableInv(n) ==
    \A id \in DOMAIN pm[n].peers : Owns(id, pm[n].peers[id].addr)

SessionTypes == {"HELLO", "HELLO_ACK", "KEEPALIVE", "PING", "PONG", "KEY_EXCHANGE"}

\* The list is for the node that got the greatest id in it.
ListInv(m) ==
    /\ m.list.session_id = 1 /\ m.list.peers \subseteq Ids \X Addrs
    /\ \A e \in m.list.peers : e = <<0, HostLan>> \/ Owns(e[1], e[2])
    /\ \E x \in m.list.peers :
        /\ x[1] # 0 /\ Owns(x[1], m.dst)
        /\ \A e \in m.list.peers : e[1] <= x[1]

PacketInv(m) ==
    \/ m.src \in Joiners /\ m = JoinPacket(m.src)
    \/ /\ m.type = "PEER_LIST" /\ m.from = 0 /\ m.src = Host /\ m.sess = 0
       /\ m.dst \in Joiners /\ ListInv(m)
    \/ /\ m.type \in SessionTypes /\ m.sess = 1
       /\ m.from \in Ids /\ m.src \in Nodes /\ m.dst \in Addrs
       /\ Owns(m.from, m.src)
       /\ m.type = "KEY_EXCHANGE" => \E r \in 1 .. restarts + 1 : m.pub = <<m.src, r>>

CoreInv ==
    /\ Types /\ HostInv
    /\ \A n \in Joiners : JoinerInv(n)
    /\ \A n \in Nodes : TableInv(n)
    /\ \A m \in net : PacketInv(m)

\* p has entered n.
Known(p, n) == \E id \in DOMAIN pm[p].peers : pm[p].peers[id].addr = n

\* A joiner sends one JOIN and gets one list, and has no id before.
JoinsOnce(n) ==
    /\ JoinPacket(n) \in net \/ ~ up[n] =>
        /\ ~ Known(Host, n)
        /\ \A m \in net : ~ (m.type = "PEER_LIST" /\ m.dst = n)
    /\ ~ up[n] => JoinPacket(n) \notin net
    /\ \A m \in net : m.type = "PEER_LIST" /\ m.dst = n =>
        /\ pm[n].session_id = 0
        /\ \A l \in net : l.type = "PEER_LIST" /\ l.dst = n => l = m

\* What an entry e of n's table, with the given id, says of the peer.
EntryInv(n, id, e) ==
    /\ e.addr # n
    /\ n # Host /\ e.state = "Connected" => Known(e.addr, n)
    /\ e.key # NoKey =>
        e.key = [pubs |-> {<<n, 1>>, <<e.addr, 1>>},
                 ids |-> {pm[n].local_id, id}, sess |-> 1]

\* What holds, besides, as long as no joiner restarted and no packet was
\* delivered twice.
Clean == restarts = 0 /\ dups = 0

CleanInv ==
    Clean =>
    /\ \A x, y \in DOMAIN pm[Host].peers :
        pm[Host].peers[x].addr = pm[Host].peers[y].addr => x = y
    /\ \A n \in Joiners : JoinsOnce(n)
    /\ \A m \in net : m.type \in {"HELLO", "HELLO_ACK"} => Known(m.src, m.dst)
    /\ \A n \in Nodes : \A id \in DOMAIN pm[n].peers : EntryInv(n, id, pm[n].peers[id])

Inv == CoreInv /\ CleanInv

-----------------------------------------------------------------------------
(* The steps *)

\* u is n's table with some entries rewritten or added, at addresses of their
\* owners; the host enters nobody in this way.
Extends(n, u) ==
    /\ u \in Tables
    /\ u.local_id = pm[n].local_id /\ u.session_id = pm[n].session_id
    /\ u.is_host = pm[n].is_host /\ u.next_peer_id = pm[n].next_peer_id
    /\ DOMAIN pm[n].peers \subseteq DOMAIN u.peers
    /\ \A id \in DOMAIN pm[n].peers : u.peers[id].addr = pm[n].peers[id].addr
    /\ \A id \in DOMAIN u.peers : Owns(id, u.peers[id].addr)
    /\ n = Host \/ pm[n].session_id = 0 =>
        DOMAIN u.peers = DOMAIN pm[n].peers /\ u.addr_to_id = pm[n].addr_to_id

\* What the packets n sends, and the entries of its new table, are like in a
\* clean run.
CleanStep(n, u) ==
    /\ \A m \in net' \ net :
        /\ m.type \notin {"JOIN", "PEER_LIST"}
        /\ m.type \in {"HELLO", "HELLO_ACK"} =>
            m.src = n /\ \E id \in DOMAIN u.peers : u.peers[id].addr = m.dst
    /\ \A id \in DOMAIN u.peers : EntryInv(n, id, u.peers[id])

\* A step of n after which its table is u, and which hands out no ids: every
\* step but those of RecvJoin, RecvPeerList, Start and Stop.
Ordinary(n, u) ==
    /\ up[n] /\ Extends(n, u) /\ pm' = [pm EXCEPT ![n] = u]
    /\ UNCHANGED <<up, runs, restarts>>
    /\ send_counter' \in [Nodes -> 0 .. CounterMax]
    /\ todo' \in [Nodes -> SUBSET (Ids \X Addrs)]
    /\ \A k \in Nodes : todo'[k] \subseteq todo[k]
    /\ lost' \in 0 .. MaxLost /\ dups' \in 0 .. MaxDups
    /\ \A m \in net' : m \in net \/ PacketInv(m)
    /\ Clean' => Clean /\ CleanStep(n, u)

LEMMA LongerInterval ==
    ASSUME NEW a \in Nat, NEW b \in Nat, a <= b
    PROVE  \A r \in 1 .. a + 1 : r \in 1 .. b + 1
OBVIOUS

\* The host never forgets whom it gave an id.
LEMMA OwnersStay ==
    ASSUME DOMAIN pm[Host].peers \subseteq DOMAIN pm'[Host].peers,
           \A id \in DOMAIN pm[Host].peers :
                pm'[Host].peers[id].addr = pm[Host].peers[id].addr,
           restarts \in Nat, restarts' \in Nat, restarts <= restarts'
    PROVE  /\ \A id, a : Owns(id, a) => Owns(id, a)'
           /\ \A m : PacketInv(m) => PacketInv(m)'
<1>1. \A id, a : Owns(id, a) => Owns(id, a)'
  BY DEF Owns
<1>2. ASSUME NEW m, ListInv(m) PROVE ListInv(m)'
  BY <1>1, <1>2 DEF ListInv
<1>3. \A r \in 1 .. restarts + 1 : r \in 1 .. restarts' + 1
  BY LongerInterval
<1>4. ASSUME NEW m, PacketInv(m) PROVE PacketInv(m)'
  BY <1>1, <1>2, <1>3, <1>4 DEF PacketInv, JoinPacket
<1> QED
  BY <1>1, <1>4

LEMMA OrdinaryCore ==
    ASSUME Inv, NEW n \in Nodes, NEW u, Ordinary(n, u)
    PROVE  CoreInv'
<1>1. /\ pm \in [Nodes -> Tables] /\ u \in Tables /\ Host \in Nodes
      /\ pm' = [pm EXCEPT ![n] = u] /\ Joiners \subseteq Nodes
  BY DEF Inv, CoreInv, Types, Ordinary, Extends, Nodes
<1>2. /\ pm' \in [Nodes -> Tables] /\ pm'[n] = u
      /\ \A k \in Nodes \ {n} : pm'[k] = pm[k]
  BY <1>1
<1>3. /\ \A id, a : Owns(id, a) => Owns(id, a)'
      /\ \A m : PacketInv(m) => PacketInv(m)'
  <2>1. /\ DOMAIN pm[Host].peers \subseteq DOMAIN pm'[Host].peers
        /\ \A id \in DOMAIN pm[Host].peers :
                pm'[Host].peers[id].addr = pm[Host].peers[id].addr
    BY <1>1, <1>2 DEF Ordinary, Extends
  <2>2. restarts \in Nat /\ restarts' = restarts
    BY DEF Inv, CoreInv, Types, Ordinary
  <2> QED
    BY <2>1, <2>2, OwnersStay
<1>4. Types'
  BY <1>2 DEF Inv, CoreInv, Types, Ordinary
<1>5. HostInv'
  <2>1. /\ up'[Host] /\ todo'[Host] = {} 
    BY <1>1 DEF Inv, CoreInv, HostInv, Ordinary
  <2>2. /\ pm'[Host].local_id = pm[Host].local_id
        /\ pm'[Host].session_id = pm[Host].session_id
        /\ pm'[Host].is_host = pm[Host].is_host
        /\ pm'[Host].next_peer_id = pm[Host].next_peer_id
        /\ pm'[Host].addr_to_id = pm[Host].addr_to_id
        /\ DOMAIN pm'[Host].peers = DOMAIN pm[Host].peers
        /\ \A id \in DOMAIN pm[Host].peers :
                pm'[Host].peers[id].addr = pm[Host].peers[id].addr
    BY <1>1, <1>2 DEF Ordinary, Extends
  <2> QED
    BY <2>1, <2>2 DEF Inv, CoreInv, HostInv, AddrMapSound
<1>6. ASSUME NEW k \in Joiners PROVE JoinerInv(k)'
  <2>1. JoinerInv(k) /\ k \in Nodes
    BY <1>1 DEF Inv, CoreInv
  <2>2. /\ pm'[k].local_id = pm[k].local_id /\ pm'[k].session_id = pm[k].session_id
        /\ pm'[k].is_host = pm[k].is_host /\ todo'[k] \subseteq todo[k]
        /\ pm[k].session_id = 0 => DOMAIN pm'[k].peers = DOMAIN pm[k].peers
        /\ up'[k] = up[k] /\ (~ up[k] => pm'[k] = pm[k])
    BY <1>2, <2>1 DEF Ordinary, Extends
  <2> QED
    BY <1>3, <2>1, <2>2 DEF JoinerInv
<1>7. ASSUME NEW k \in Nodes PROVE TableInv(k)'
  BY <1>2, <1>3 DEF Inv, CoreInv, TableInv, Ordinary, Extends
<1>8. ASSUME NEW m \in net' PROVE PacketInv(m)'
  BY <1>3 DEF Inv, CoreInv, Ordinary
<1> QED
  BY <1>4, <1>5, <1>6, <1>7, <1>8 DEF CoreInv

LEMMA OrdinaryClean ==
    ASSUME Inv, NEW n \in Nodes, NEW u, Ordinary(n, u)
    PROVE  CleanInv'
<1> SUFFICES ASSUME Clean' PROVE
        /\ \A x, y \in DOMAIN pm'[Host].peers :
            pm'[Host].peers[x].addr = pm'[Host].peers[y].addr => x = y
        /\ \A k \in Joiners : JoinsOnce(k)'
        /\ \A m \in net' : m.type \in {"HELLO", "HELLO_ACK"} => Known(m.src, m.dst)'
        /\ \A k \in Nodes : \A id \in DOMAIN pm'[k].peers :
                EntryInv(k, id, pm[k].peers[id])'
  BY DEF CleanInv
<1>1. /\ pm \in [Nodes -> Tables] /\ u \in Tables /\ Host \in Nodes
      /\ pm' = [pm EXCEPT ![n] = u] /\ Joiners \subseteq Nodes
  BY DEF Inv, CoreInv, Types, Ordinary, Extends, Nodes
<1>2. /\ pm'[n] = u /\ \A k \in Nodes \ {n} : pm'[k] = pm[k]
      /\ pm'[n].local_id = pm[n].local_id /\ pm'[n].session_id = pm[n].session_id
  BY <1>1 DEF Ordinary, Extends
<1>3. \A p \in Nodes : \A a : Known(p, a) => Known(p, a)'
  BY <1>2 DEF Ordinary, Extends, Known
<1>4. /\ DOMAIN pm'[Host].peers = DOMAIN pm[Host].peers
      /\ \A id \in DOMAIN pm[Host].peers :
            pm'[Host].peers[id].addr = pm[Host].peers[id].addr
  BY <1>1, <1>2 DEF Ordinary, Extends
<1>5. CleanStep(n, u) /\ Clean
  BY DEF Ordinary
<1>6. \A x, y \in DOMAIN pm'[Host].peers :
            pm'[Host].peers[x].addr = pm'[Host].peers[y].addr => x = y
  BY <1>4, <1>5 DEF Inv, CleanInv
<1>7. ASSUME NEW k \in Joiners PROVE JoinsOnce(k)'
  <2>1. JoinsOnce(k) /\ k \in Nodes
    BY <1>1, <1>5 DEF Inv, CleanInv
  <2>2. up' = up /\ pm'[k].session_id = pm[k].session_id
    BY <1>2, <2>1 DEF Ordinary
  <2>3. Known(Host, k)' <=> Known(Host, k)
    BY <1>4 DEF Known
  <2>4. \A m \in net' : m.type \in {"JOIN", "PEER_LIST"} => m \in net
    BY <1>5 DEF CleanStep
  <2>5. JoinPacket(k)' = JoinPacket(k) /\ JoinPacket(k).type = "JOIN"
    BY DEF JoinPacket
  <2> QED
    BY <2>1, <2>2, <2>3, <2>4, <2>5 DEF JoinsOnce
<1>8. ASSUME NEW m \in net', m.type \in {"HELLO", "HELLO_ACK"}
      PROVE  Known(m.src, m.dst)'
  <2>1. CASE m \in net
    <3>1. PacketInv(m) /\ Known(m.src, m.dst)
      BY <1>5, <1>8, <2>1 DEF Inv, CoreInv, CleanInv
    <3>2. m.src \in Nodes
      BY <1>1, <3>1 DEF PacketInv
    <3> QED
      BY <1>3, <3>1, <3>2
  <2>2. CASE m \notin net
    BY <1>2, <1>5, <1>8, <2>2 DEF CleanStep, Known
  <2> QED
    BY <2>1, <2>2
<1>9. ASSUME NEW k \in Nodes, NEW id \in DOMAIN pm'[k].peers
      PROVE  EntryInv(k, id, pm[k].peers[id])'
  <2>1. EntryInv(k, id, pm'[k].peers[id]) /\ Owns(id, pm'[k].peers[id].addr)
    <3>1. CASE k = n
      BY <1>2, <1>5, <3>1 DEF CleanStep, Ordinary, Extends
    <3>2. CASE k # n
      BY <1>2, <1>5, <3>2 DEF Inv, CleanInv, CoreInv, TableInv
    <3> QED
      BY <3>1, <3>2
  <2>2. pm'[k].peers[id].addr \in Nodes
    BY <1>1, <2>1 DEF Owns, Inv, CoreInv, HostInv
  <2>3. pm'[k].local_id = pm[k].local_id
    BY <1>2
  <2> QED
    BY <1>3, <2>1, <2>2, <2>3 DEF EntryInv
<1> QED
  BY <1>6, <1>7, <1>8, <1>9

-----------------------------------------------------------------------------
(* What the handlers have in common *)

LEMMA Setting ==
    ASSUME Inv
    PROVE  /\ Host \in Nodes /\ Joiners \subseteq Nodes /\ Nodes \subseteq Addrs
           /\ Types /\ HostInv /\ pm \in [Nodes -> Tables]
           /\ \A k \in Nodes : pm[k] \in Tables /\ TableInv(k)
           /\ \A k \in Nodes \ {Host} : k \in Joiners /\ JoinerInv(k)
           /\ \A m \in net : PacketInv(m)
BY DEF Inv, CoreInv, Types, Nodes, Addrs

LEMMA OwnId ==
    ASSUME Inv, NEW n \in Nodes, pm[n].session_id = 1
    PROVE  Owns(pm[n].local_id, n) /\ pm[n].local_id \in Ids
<1>1. pm[n] \in Tables
  BY Setting
<1>2. Owns(pm[n].local_id, n)
  <2>1. CASE n = Host
    BY <2>1, Setting DEF HostInv, Owns
  <2>2. CASE n # Host
    <3>1. JoinerInv(n)
      BY <2>2, Setting
    <3> QED
      BY <3>1 DEF JoinerInv
  <2> QED
    BY <2>1, <2>2
<1> QED
  BY <1>1, <1>2 DEF Tables

\* What a member seals is in order.
LEMMA Sealed ==
    ASSUME Inv, NEW n \in Nodes, pm[n].session_id = 1, NEW dst \in Addrs
    PROVE  /\ \A type \in SessionTypes \ {"KEY_EXCHANGE"} :
                PacketInv(Packet(type, n, dst))
           /\ PacketInv(KxPacket(n, dst))
<1>1. Owns(pm[n].local_id, n) /\ pm[n].local_id \in Ids
  BY OwnId
<1>2. ASSUME NEW type \in SessionTypes \ {"KEY_EXCHANGE"}
      PROVE  PacketInv(Packet(type, n, dst))
  <2> DEFINE m == Packet(type, n, dst)
  <2>1. /\ m.type = type /\ m.from = pm[n].local_id /\ m.src = n /\ m.dst = dst
        /\ m.sess = 1
    BY DEF Packet
  <2> HIDE DEF m
  <2>2. PacketInv(m)
    BY <1>1, <2>1 DEF PacketInv
  <2> QED
    BY <2>2 DEF m
<1>3. PacketInv(KxPacket(n, dst))
  <2> DEFINE m == KxPacket(n, dst)
  <2>1. /\ m.type = "KEY_EXCHANGE" /\ m.from = pm[n].local_id /\ m.src = n
        /\ m.dst = dst /\ m.sess = 1 /\ m.pub = <<n, runs[n]>>
    BY DEF KxPacket, Pub
  <2>2. runs[n] \in 1 .. restarts + 1
    BY Setting DEF Types
  <2> HIDE DEF m
  <2>3. PacketInv(m)
    BY <1>1, <2>1, <2>2 DEF PacketInv, SessionTypes
  <2> QED
    BY <2>3 DEF m
<1> QED
  BY <1>2, <1>3

\* n takes m from the socket.
LEMMA Handled ==
    ASSUME Inv, NEW n \in Nodes, NEW m, NEW out, Handle(n, m, out)
    PROVE  /\ up[n] /\ todo[n] = {} /\ m \in net /\ m.dst = n /\ PacketInv(m)
           /\ net' \subseteq net \cup out /\ dups' \in 0 .. MaxDups
           /\ up' = up /\ runs' = runs /\ restarts' = restarts /\ lost' = lost
           /\ Clean' => Clean /\ net' = (net \ {m}) \cup out
<1>1. dups \in 0 .. MaxDups
  BY Setting DEF Types
<1> QED
  BY <1>1, Setting DEF Handle, Idle, Clean

\* A packet of the session, past the checks of its handler.
LEMMA Accepted ==
    ASSUME Inv, NEW n \in Nodes, NEW m, NEW type \in SessionTypes, NEW out,
           Accept(n, m, type, out)
    PROVE  /\ Handle(n, m, out)
           /\ m.type = type /\ m.sess = 1 /\ m.from \in Ids /\ m.src \in Nodes
           /\ Owns(m.from, m.src)
           /\ type = "KEY_EXCHANGE" => \E r \in 1 .. restarts + 1 : m.pub = <<m.src, r>>
           /\ type # "KEEPALIVE" => pm[n].session_id = 1
           /\ type = "PING" => send_counter[n] < CounterMax
           /\ type = "HELLO" => m.from \in DOMAIN pm[n].peers \/ CanAddPeer(pm[n], m.from)
<1>1. Handle(n, m, out) /\ m.type = type /\ Accepts(n, m)
  BY DEF Accept
<1>2. PacketInv(m)
  BY <1>1, Handled
<1>3. /\ m.sess = 1 /\ m.from \in Ids /\ m.src \in Nodes /\ Owns(m.from, m.src)
      /\ type = "KEY_EXCHANGE" => \E r \in 1 .. restarts + 1 : m.pub = <<m.src, r>>
  BY <1>1, <1>2 DEF PacketInv, JoinPacket, SessionTypes
<1>4. send_counter[n] \in 0 .. CounterMax
  BY Setting DEF Types
<1>5. type # "KEEPALIVE" => m.sess = pm[n].session_id
  BY <1>1 DEF Accepts, Opens, SessionTypes
<1>6. type = "PING" => CounterMax - send_counter[n] > 0
  BY <1>1 DEF Accepts, CountersLeft
<1>7. type = "HELLO" => m.from \in DOMAIN pm[n].peers \/ CanAddPeer(pm[n], m.from)
  BY <1>1 DEF Accepts
<1> QED
  BY <1>1, <1>3, <1>4, <1>5, <1>6, <1>7

\* A table whose entries keep address and key, and of which none is newly
\* connected.
LEMMA Rewritten ==
    ASSUME Inv, NEW n \in Nodes, NEW u, SameBook(pm[n], u),
           \A x \in DOMAIN pm[n].peers :
                /\ u.peers[x].key = pm[n].peers[x].key
                /\ u.peers[x].state = "Connected" => pm[n].peers[x].state = "Connected"
    PROVE  /\ Extends(n, u)
           /\ Clean => \A id \in DOMAIN u.peers : EntryInv(n, id, u.peers[id])
<1>1. Extends(n, u)
  BY Setting DEF SameBook, Extends, TableInv
<1>2. ASSUME Clean, NEW id \in DOMAIN u.peers PROVE EntryInv(n, id, u.peers[id])
  <2>1. id \in DOMAIN pm[n].peers /\ u.peers[id].addr = pm[n].peers[id].addr
    BY DEF SameBook
  <2>2. EntryInv(n, id, pm[n].peers[id])
    BY <1>2, <2>1 DEF Inv, CleanInv
  <2> QED
    BY <2>1, <2>2 DEF EntryInv
<1> QED
  BY <1>1, <1>2

-----------------------------------------------------------------------------
(* The steps that only rewrite entries *)

\* The host handles a packet that renews the entry of the id in its header.
Renews(id) ==
    \E m \in net : /\ m.from = id
                   /\ m.type \in {"HELLO", "HELLO_ACK", "PONG"}
                   /\ Receive(Host, m)

\* A superseded entry of the host that is stale stays so, but for such a
\* packet with its id.
Fades(n, u) ==
    n = Host => \A id \in DOMAIN pm[Host].peers :
        Superseded(id) /\ pm[Host].peers[id].stale
            => u.peers[id].stale \/ Renews(id)

QuietTypes == {"KEEPALIVE", "PING", "PONG", "KEY_EXCHANGE"}

LEMMA QuietStep ==
    ASSUME Inv, NEW n \in Nodes, up[n], NEW u, SameBook(pm[n], u),
           \A x \in DOMAIN pm[n].peers :
                /\ u.peers[x].key = pm[n].peers[x].key
                /\ u.peers[x].state = "Connected" => pm[n].peers[x].state = "Connected",
           pm' = [pm EXCEPT ![n] = u],
           up' = up, runs' = runs, restarts' = restarts, todo' = todo,
           send_counter' \in [Nodes -> 0 .. CounterMax],
           lost' \in 0 .. MaxLost, dups' \in 0 .. MaxDups, Clean' => Clean,
           \A m \in net' : m \in net \/ (PacketInv(m) /\ m.type \in QuietTypes)
    PROVE  Ordinary(n, u)
<1>1. /\ Extends(n, u)
      /\ Clean => \A id \in DOMAIN u.peers : EntryInv(n, id, u.peers[id])
  BY Rewritten
<1>2. Clean' => CleanStep(n, u)
  BY <1>1 DEF CleanStep, QuietTypes
<1>3. todo' \in [Nodes -> SUBSET (Ids \X Addrs)] /\ todo' = todo
  BY Setting DEF Types
<1> QED
  BY <1>1, <1>2, <1>3 DEF Ordinary

LEMMA QuietReceive ==
    ASSUME Inv, NEW n \in Nodes, NEW m, NEW out, Handle(n, m, out),
           NEW u, SameBook(pm[n], u),
           \A x \in DOMAIN pm[n].peers :
                /\ u.peers[x].key = pm[n].peers[x].key
                /\ u.peers[x].state = "Connected" => pm[n].peers[x].state = "Connected",
           pm' = [pm EXCEPT ![n] = u], todo' = todo,
           send_counter' \in [Nodes -> 0 .. CounterMax],
           \A p \in out : PacketInv(p) /\ p.type \in QuietTypes
    PROVE  Ordinary(n, u)
<1>1. /\ up[n] /\ net' \subseteq net \cup out /\ dups' \in 0 .. MaxDups
      /\ up' = up /\ runs' = runs /\ restarts' = restarts /\ lost' = lost
      /\ Clean' => Clean
  BY Handled
<1>2. lost' \in 0 .. MaxLost
  BY <1>1, Setting DEF Types
<1>3. \A p \in net' : p \in net \/ (PacketInv(p) /\ p.type \in QuietTypes)
  BY <1>1
<1> QED
  BY <1>1, <1>2, <1>3, QuietStep

LEMMA QuietNoReply ==
    ASSUME Inv, NEW n \in Nodes, NEW m, Handle(n, m, {}),
           NEW u, SameBook(pm[n], u),
           \A x \in DOMAIN pm[n].peers :
                /\ u.peers[x].key = pm[n].peers[x].key
                /\ u.peers[x].state = "Connected" => pm[n].peers[x].state = "Connected",
           pm' = [pm EXCEPT ![n] = u], UNCHANGED <<send_counter, todo>>
    PROVE  Ordinary(n, u)
<1> DEFINE out == {}
<1>1. /\ \A p \in out : PacketInv(p) /\ p.type \in QuietTypes
      /\ Handle(n, m, out) /\ todo' = todo
  OBVIOUS
<1>2. send_counter' \in [Nodes -> 0 .. CounterMax]
  BY Setting DEF Types
<1> HIDE DEF out
<1> QED
  BY <1>1, <1>2, QuietReceive

\* The address map leads to no superseded entry.
LEMMA TouchesNewest ==
    ASSUME Inv, NEW a \in DOMAIN pm[Host].addr_to_id,
           NEW id \in DOMAIN pm[Host].peers, id = pm[Host].addr_to_id[a]
    PROVE  ~ Superseded(id)
<1>1. pm[Host].peers[id].addr = a
  BY Setting DEF HostInv, AddrMapSound
<1>2. \A x \in DOMAIN pm[Host].peers :
        pm[Host].peers[x].addr = a => pm[Host].addr_to_id[a] >= x
  BY Setting DEF HostInv
<1>3. DOMAIN pm[Host].peers \subseteq Ids
  BY Setting, TableTyped
<1> QED
  BY <1>1, <1>2, <1>3 DEF Superseded, Ids

LEMMA RecvKeepaliveStep ==
    ASSUME Inv, NEW n \in Nodes, NEW m, RecvKeepalive(n, m)
    PROVE  \E u : Ordinary(n, u) /\ Fades(n, u)
<1> DEFINE u == TouchAddr(pm[n], m.src)
<1>1. Handle(n, m, {}) /\ pm' = [pm EXCEPT ![n] = u] /\ UNCHANGED <<send_counter, todo>>
  BY DEF RecvKeepalive, Accept
<1>2. pm[n] \in Tables
  BY Setting
<1>3. /\ SameBook(pm[n], u)
      /\ \A x \in DOMAIN pm[n].peers :
            /\ u.peers[x].key = pm[n].peers[x].key
            /\ u.peers[x].state = pm[n].peers[x].state
            /\ ~ (m.src \in DOMAIN pm[n].addr_to_id /\ x = pm[n].addr_to_id[m.src])
                => u.peers[x].stale = pm[n].peers[x].stale
  BY <1>2, TouchAddrEffect
<1> HIDE DEF u
<1>4. Ordinary(n, u)
  BY <1>1, <1>3, QuietNoReply
<1>5. Fades(n, u)
  BY <1>3, Setting, TouchesNewest DEF Fades
<1> QED
  BY <1>4, <1>5

LEMMA RecvPingStep ==
    ASSUME Inv, NEW n \in Nodes, NEW m, RecvPing(n, m)
    PROVE  \E u : Ordinary(n, u) /\ Fades(n, u)
<1> DEFINE u == TouchAddr(pm[n], m.src)
           out == {Packet("PONG", n, m.src)}
<1>1. /\ Accept(n, m, "PING", out) /\ pm' = [pm EXCEPT ![n] = u] /\ UNCHANGED todo
      /\ send_counter' = [send_counter EXCEPT ![n] = @ + 1]
  BY DEF RecvPing
<1>2. pm[n] \in Tables
  BY Setting
<1>3. /\ SameBook(pm[n], u)
      /\ \A x \in DOMAIN pm[n].peers :
            /\ u.peers[x].key = pm[n].peers[x].key
            /\ u.peers[x].state = pm[n].peers[x].state
            /\ ~ (m.src \in DOMAIN pm[n].addr_to_id /\ x = pm[n].addr_to_id[m.src])
                => u.peers[x].stale = pm[n].peers[x].stale
  BY <1>2, TouchAddrEffect
<1>4. \A p \in out : PacketInv(p) /\ p.type \in QuietTypes
  <2>1. pm[n].session_id = 1 /\ m.src \in Addrs
    BY <1>1, Accepted, Setting DEF SessionTypes
  <2>2. PacketInv(Packet("PONG", n, m.src))
    BY <2>1, Sealed DEF SessionTypes
  <2> QED
    BY <2>2 DEF Packet, QuietTypes
<1>5. send_counter' \in [Nodes -> 0 .. CounterMax] /\ Handle(n, m, out)
  <2>1. send_counter[n] < CounterMax /\ Handle(n, m, out)
    BY <1>1, Accepted DEF SessionTypes
  <2>2. send_counter \in [Nodes -> 0 .. CounterMax]
    BY Setting DEF Types
  <2> QED
    BY <1>1, <2>1, <2>2
<1> HIDE DEF u, out
<1>6. Ordinary(n, u)
  BY <1>1, <1>3, <1>4, <1>5, QuietReceive
<1>7. Fades(n, u)
  BY <1>3, Setting, TouchesNewest DEF Fades
<1> QED
  BY <1>6, <1>7

LEMMA RecvPongStep ==
    ASSUME Inv, NEW n \in Nodes, NEW m, RecvPong(n, m)
    PROVE  \E u : Ordinary(n, u) /\ Fades(n, u)
<1> DEFINE u == Touch(pm[n], m.from)
<1>1. Handle(n, m, {}) /\ pm' = [pm EXCEPT ![n] = u] /\ UNCHANGED <<send_counter, todo>>
  BY DEF RecvPong, Accept
<1>2. pm[n] \in Tables
  BY Setting
<1>3. /\ SameBook(pm[n], u)
      /\ \A x \in DOMAIN pm[n].peers :
            /\ u.peers[x].key = pm[n].peers[x].key
            /\ u.peers[x].state = pm[n].peers[x].state
            /\ x # m.from => u.peers[x].stale = pm[n].peers[x].stale
  BY <1>2, TouchEffect
<1>4. m \in net /\ m.type = "PONG" /\ Receive(n, m)
  BY DEF RecvPong, Accept, Handle, Receive
<1> HIDE DEF u
<1>5. Ordinary(n, u)
  BY <1>1, <1>3, QuietNoReply
<1>6. n = Host => Renews(m.from)
  BY <1>4 DEF Renews
<1>7. Fades(n, u)
  BY <1>3, <1>6 DEF Fades
<1> QED
  BY <1>5, <1>7

LEMMA RecvRejectedStep ==
    ASSUME Inv, NEW n \in Nodes, NEW m, RecvRejected(n, m)
    PROVE  \E u : Ordinary(n, u) /\ Fades(n, u)
<1> DEFINE u == pm[n]
<1>1. Handle(n, m, {}) /\ UNCHANGED <<pm, send_counter, todo>>
  BY DEF RecvRejected
<1>2. SameBook(pm[n], u) /\ pm' = [pm EXCEPT ![n] = u]
  BY <1>1, Setting DEF SameBook
<1>3. Ordinary(n, u)
  BY <1>1, <1>2, QuietNoReply
<1>4. Fades(n, u)
  BY DEF Fades
<1> QED
  BY <1>3, <1>4

LEMMA TimePassesStep ==
    ASSUME Inv, NEW n \in Nodes, NEW id, TimePasses(n, id)
    PROVE  \E u : Ordinary(n, u) /\ Fades(n, u)
<1> DEFINE u == [pm[n] EXCEPT !.peers[id].stale = TRUE]
<1>1. /\ up[n] /\ id \in DOMAIN pm[n].peers
      /\ pm' = [pm EXCEPT ![n].peers[id].stale = TRUE]
      /\ UNCHANGED <<up, runs, restarts, send_counter, todo, net, lost, dups>>
  BY DEF TimePasses
<1>2. pm[n] \in Tables /\ pm \in [Nodes -> Tables]
  BY Setting
<1>3. /\ SameBook(pm[n], u)
      /\ \A x \in DOMAIN pm[n].peers :
            /\ u.peers[x].key = pm[n].peers[x].key
            /\ u.peers[x].state = pm[n].peers[x].state
            /\ pm[n].peers[x].stale => u.peers[x].stale
  BY <1>1, <1>2, StaleEffect
<1>4. pm' = [pm EXCEPT ![n] = u]
  BY <1>1, <1>2
<1>5. /\ send_counter' \in [Nodes -> 0 .. CounterMax] /\ lost' \in 0 .. MaxLost
      /\ dups' \in 0 .. MaxDups /\ (Clean' => Clean)
  BY <1>1, Setting DEF Types, Clean
<1> HIDE DEF u
<1>6. Ordinary(n, u)
  BY <1>1, <1>3, <1>4, <1>5, QuietStep
<1>7. Fades(n, u)
  BY <1>3 DEF Fades
<1> QED
  BY <1>6, <1>7

LEMMA NetworkStep ==
    ASSUME Inv, NEW m, Lose(m) \/ Vanish(m) \/ UNCHANGED vars
    PROVE  \E u : Ordinary(Host, u) /\ Fades(Host, u)
<1> DEFINE u == pm[Host]
<1>1. /\ up' = up /\ runs' = runs /\ restarts' = restarts /\ pm' = pm /\ todo' = todo
      /\ send_counter' = send_counter /\ net' \subseteq net /\ dups' = dups
      /\ lost' = lost \/ (lost < MaxLost /\ lost' = lost + 1)
  BY DEF Lose, Vanish, vars
<1>2. SameBook(pm[Host], u) /\ pm' = [pm EXCEPT ![Host] = u] /\ up[Host]
  BY <1>1, Setting DEF SameBook, HostInv
<1>3. /\ send_counter' \in [Nodes -> 0 .. CounterMax] /\ lost' \in 0 .. MaxLost
      /\ dups' \in 0 .. MaxDups /\ (Clean' => Clean)
  BY <1>1, Setting DEF Types, Clean
<1>4. Ordinary(Host, u)
  BY <1>1, <1>2, <1>3, QuietStep, Setting
<1>5. Fades(Host, u)
  BY DEF Fades
<1> QED
  BY <1>4, <1>5

LEMMA MinOfTwo ==
    ASSUME NEW a \in Int, NEW b \in Int
    PROVE  Min({a, b}) \in {a, b} /\ Min({a, b}) <= a
<1>1. \E x \in {a, b} : \A y \in {a, b} : x <= y
  <2>1. CASE a <= b
    BY <2>1
  <2>2. CASE ~ (a <= b)
    BY <2>2
  <2> QED
    BY <2>1, <2>2
<1> QED
  BY <1>1 DEF Min

\* A timer section sends to connected peers, and as many packets as there are
\* counters left.
LEMMA ReachedPeers ==
    ASSUME Inv, NEW n \in Nodes, NEW S \in Reached(n)
    PROVE  /\ S \subseteq ConnectedPeers(pm[n])
           /\ [send_counter EXCEPT ![n] = @ + Cardinality(S)] \in [Nodes -> 0 .. CounterMax]
<1> DEFINE C == ConnectedPeers(pm[n])
<1>1. pm[n] \in Tables /\ send_counter \in [Nodes -> 0 .. CounterMax]
  BY Setting DEF Types
<1>2. IsFiniteSet(C) /\ Cardinality(C) \in Nat
  <2>1. C \subseteq 0 .. MaxPeers - 1
    BY <1>1, TableTyped DEF ConnectedPeers, Ids
  <2>2. IsFiniteSet(0 .. MaxPeers - 1)
    BY FS_Interval
  <2>3. IsFiniteSet(C)
    BY <2>1, <2>2, FS_Subset
  <2> QED
    BY <2>3, FS_CardinalityType
<1>3. S \subseteq C /\ Cardinality(S) = Min({CountersLeft(n), Cardinality(C)})
  BY DEF Reached, kSubset
<1>4. Cardinality(S) \in Nat
  BY <1>2, <1>3, FS_Subset, FS_CardinalityType
<1>5. CountersLeft(n) \in Int /\ CountersLeft(n) = CounterMax - send_counter[n]
  BY <1>1 DEF CountersLeft
<1>6. Cardinality(S) <= CounterMax - send_counter[n]
  BY <1>2, <1>3, <1>5, MinOfTwo
<1> QED
  BY <1>1, <1>3, <1>4, <1>6

\* What goes out to peers of a table is in order.
LEMMA SentToPeers ==
    ASSUME Inv, NEW n \in Nodes, NEW S, S \subseteq DOMAIN pm[n].peers,
           NEW a \in AddrsOf(n, S)
    PROVE  /\ \A type \in SessionTypes \ {"KEY_EXCHANGE"} :
                PacketInv(Packet(type, n, a))
           /\ PacketInv(KxPacket(n, a))
<1>1. pm[n] \in Tables
  BY Setting
<1>2. a \in Addrs /\ DOMAIN pm[n].peers # {}
  BY <1>1, TableTyped DEF AddrsOf
<1>3. pm[n].session_id = 1
  <2>1. CASE n = Host
    BY <2>1, Setting DEF HostInv
  <2>2. CASE n # Host
    <3>1. JoinerInv(n)
      BY <2>2, Setting
    <3> QED
      BY <1>2, <3>1 DEF JoinerInv
  <2> QED
    BY <2>1, <2>2
<1> QED
  BY <1>2, <1>3, Sealed

LEMMA KeepaliveTickStep ==
    ASSUME Inv, NEW n \in Nodes, KeepaliveTick(n)
    PROVE  \E u : Ordinary(n, u) /\ Fades(n, u)
<1> DEFINE u == CheckTimeouts(pm[n])
<1> PICK S \in Reached(n) :
        /\ net' = net \cup {Packet("KEEPALIVE", n, a) : a \in AddrsOf(n, S)}
        /\ send_counter' = [send_counter EXCEPT ![n] = @ + Cardinality(S)]
  BY DEF KeepaliveTick
<1>1. /\ up[n] /\ pm' = [pm EXCEPT ![n] = u]
      /\ UNCHANGED <<up, runs, restarts, todo, lost, dups>>
  BY DEF KeepaliveTick, Idle
<1>2. pm[n] \in Tables
  BY Setting
<1>3. /\ SameBook(pm[n], u)
      /\ \A x \in DOMAIN pm[n].peers :
            /\ u.peers[x].key = pm[n].peers[x].key
            /\ u.peers[x].state = "Connected" => pm[n].peers[x].state = "Connected"
            /\ u.peers[x].stale = pm[n].peers[x].stale
  BY <1>2, CheckTimeoutsEffect
<1>4. /\ lost' \in 0 .. MaxLost /\ dups' \in 0 .. MaxDups /\ (Clean' => Clean)
  BY <1>1, Setting DEF Types, Clean
<1>5. S \subseteq DOMAIN pm[n].peers /\ send_counter' \in [Nodes -> 0 .. CounterMax]
  BY ReachedPeers DEF ConnectedPeers
<1>6. \A m \in net' : m \in net \/ (PacketInv(m) /\ m.type \in QuietTypes)
  <2> SUFFICES ASSUME NEW a \in AddrsOf(n, S)
               PROVE  /\ PacketInv(Packet("KEEPALIVE", n, a))
                      /\ Packet("KEEPALIVE", n, a).type \in QuietTypes
    OBVIOUS
  <2>1. PacketInv(Packet("KEEPALIVE", n, a))
    BY <1>5, SentToPeers DEF SessionTypes
  <2> QED
    BY <2>1 DEF Packet, QuietTypes
<1> HIDE DEF u
<1>7. Ordinary(n, u)
  BY <1>1, <1>3, <1>4, <1>5, <1>6, QuietStep
<1>8. Fades(n, u)
  BY <1>3 DEF Fades
<1> QED
  BY <1>7, <1>8

LEMMA PingTickStep ==
    ASSUME Inv, NEW n \in Nodes, PingTick(n)
    PROVE  \E u : Ordinary(n, u) /\ Fades(n, u)
<1> DEFINE ps == [id \in DOMAIN pm[n].peers |->
                    IF id \in NeedKx(n) THEN [pm[n].peers[id] EXCEPT !.kx_sent = TRUE]
                    ELSE pm[n].peers[id]]
           u == [pm[n] EXCEPT !.peers = ps]
<1> PICK S \in Reached(n) :
        /\ net' = net \cup {Packet("PING", n, a) : a \in AddrsOf(n, S)}
                      \cup {KxPacket(n, a) : a \in AddrsOf(n, NeedKx(n))}
        /\ send_counter' = [send_counter EXCEPT ![n] = @ + Cardinality(S)]
  BY DEF PingTick
<1>1. /\ up[n] /\ pm' = [pm EXCEPT ![n] = u]
      /\ UNCHANGED <<up, runs, restarts, todo, lost, dups>>
  BY Setting DEF PingTick, Idle
<1>2. pm[n] \in Tables
  BY Setting
<1>3. \A x \in DOMAIN pm[n].peers :
        /\ ps[x] \in Entries /\ ps[x].addr = pm[n].peers[x].addr
        /\ ps[x].key = pm[n].peers[x].key /\ ps[x].state = pm[n].peers[x].state
        /\ ps[x].stale = pm[n].peers[x].stale
  <2>1. pm[n].peers \in [DOMAIN pm[n].peers -> Entries]
    BY <1>2, TableTyped
  <2> QED
    BY <2>1 DEF Entries
<1>4. SameBook(pm[n], u) /\ u.peers = ps
  <2>1. DOMAIN ps = DOMAIN pm[n].peers /\ ps \in [DOMAIN ps -> Entries]
    BY <1>3
  <2> HIDE DEF ps
  <2> QED
    BY <1>2, <1>3, <2>1, NewEntries
<1>5. /\ lost' \in 0 .. MaxLost /\ dups' \in 0 .. MaxDups /\ (Clean' => Clean)
  BY <1>1, Setting DEF Types, Clean
<1>6. /\ S \subseteq DOMAIN pm[n].peers /\ NeedKx(n) \subseteq DOMAIN pm[n].peers
      /\ send_counter' \in [Nodes -> 0 .. CounterMax]
  BY ReachedPeers DEF ConnectedPeers, NeedKx
<1>7. \A m \in net' : m \in net \/ (PacketInv(m) /\ m.type \in QuietTypes)
  <2>1. ASSUME NEW a \in AddrsOf(n, S)
        PROVE  /\ PacketInv(Packet("PING", n, a))
               /\ Packet("PING", n, a).type \in QuietTypes
    <3>1. PacketInv(Packet("PING", n, a))
      BY <1>6, SentToPeers DEF SessionTypes
    <3> QED
      BY <3>1 DEF Packet, QuietTypes
  <2>2. ASSUME NEW a \in AddrsOf(n, NeedKx(n))
        PROVE  PacketInv(KxPacket(n, a)) /\ KxPacket(n, a).type \in QuietTypes
    <3>1. PacketInv(KxPacket(n, a))
      BY <1>6, SentToPeers
    <3> QED
      BY <3>1 DEF KxPacket, QuietTypes
  <2> QED
    BY <2>1, <2>2
<1> HIDE DEF u, ps
<1>8. Ordinary(n, u)
  BY <1>1, <1>3, <1>4, <1>5, <1>6, <1>7, QuietStep
<1>9. Fades(n, u)
  BY <1>3, <1>4 DEF Fades
<1> QED
  BY <1>8, <1>9

-----------------------------------------------------------------------------
(* The steps that enter or connect a peer, or give it a key *)

LEMMA OneOwner ==
    ASSUME NEW id, NEW a, NEW b, Owns(id, a), Owns(id, b)
    PROVE  a = b
BY DEF Owns

\* Entries of t, of which some are connected in u.
LEMMA ConnectedEntries ==
    ASSUME Inv, NEW n \in Nodes, NEW t, Extends(n, t), NEW u, SameBook(t, u),
           \A x \in DOMAIN t.peers :
                /\ u.peers[x].key = t.peers[x].key
                /\ \/ u.peers[x].state = "Connected" => t.peers[x].state = "Connected"
                   \/ Clean => Known(t.peers[x].addr, n)
    PROVE  /\ Extends(n, u)
           /\ Clean /\ (\A x \in DOMAIN t.peers : EntryInv(n, x, t.peers[x]))
                => \A x \in DOMAIN u.peers : EntryInv(n, x, u.peers[x])
BY DEF SameBook, Extends, EntryInv

LEMMA OldEntries ==
    ASSUME Inv, NEW n \in Nodes
    PROVE  /\ Extends(n, pm[n])
           /\ Clean => \A x \in DOMAIN pm[n].peers : EntryInv(n, x, pm[n].peers[x])
BY Setting DEF Extends, TableInv, Inv, CleanInv

\* add_peer for the owner of id.
LEMMA EnterPeer ==
    ASSUME Inv, NEW n \in Nodes, pm[n].session_id = 1,
           NEW id \in Ids, NEW a \in Addrs, Owns(id, a)
    PROVE  LET t == AddPeer(pm[n], id, a)
           IN  /\ Extends(n, t)
               /\ CanAddPeer(pm[n], id) /\ id # pm[n].local_id => id \in DOMAIN t.peers
               /\ Clean /\ a # n =>
                    \A x \in DOMAIN t.peers : EntryInv(n, x, t.peers[x])
               /\ \A x \in DOMAIN pm[n].peers : t.peers[x] = pm[n].peers[x]
<1> DEFINE t == AddPeer(pm[n], id, a)
<1>1. pm[n] \in Tables /\ TableInv(n)
  BY Setting
<1>2. id \in DOMAIN pm[n].peers => pm[n].peers[id].addr = a
  BY <1>1, OneOwner DEF TableInv
<1>3. CASE t = pm[n] /\ (id = pm[n].local_id \/ ~ CanAddPeer(pm[n], id)
                            \/ id \in DOMAIN pm[n].peers)
  BY <1>3, OldEntries
<1>4. CASE /\ id \notin DOMAIN pm[n].peers /\ id # pm[n].local_id
           /\ t \in Tables
           /\ t.local_id = pm[n].local_id /\ t.session_id = pm[n].session_id
           /\ t.is_host = pm[n].is_host /\ t.next_peer_id = pm[n].next_peer_id
           /\ DOMAIN t.peers = DOMAIN pm[n].peers \cup {id}
           /\ t.peers[id] = RemotePeer(a)
           /\ \A x \in DOMAIN pm[n].peers : t.peers[x] = pm[n].peers[x]
  <2> HIDE DEF t
  <2>1. n # Host
    BY <1>4, Setting DEF Owns, HostInv
  <2>2. /\ RemotePeer(a).addr = a /\ RemotePeer(a).key = NoKey
        /\ RemotePeer(a).state = "Discovered"
    BY RemotePeerType
  <2>3. Extends(n, t)
    BY <1>1, <1>4, <2>1, <2>2 DEF Extends, TableInv
  <2>4. Clean /\ a # n => \A x \in DOMAIN t.peers : EntryInv(n, x, t.peers[x])
    BY <1>4, <2>2, OldEntries DEF EntryInv
  <2> QED
    BY <1>4, <2>3, <2>4 DEF t
<1> QED
  BY <1>1, <1>2, <1>3, <1>4, AddPeerEffect

LEMMA ReceiveStep ==
    ASSUME Inv, NEW n \in Nodes, NEW m, NEW out, Handle(n, m, out),
           NEW u, Extends(n, u), pm' = [pm EXCEPT ![n] = u],
           UNCHANGED <<send_counter, todo>>,
           \A p \in out : PacketInv(p) /\ p.type \in SessionTypes /\ p.src = n,
           Clean => /\ \A id \in DOMAIN u.peers : EntryInv(n, id, u.peers[id])
                    /\ \A p \in out : p.type \in {"HELLO", "HELLO_ACK"} =>
                            \E id \in DOMAIN u.peers : u.peers[id].addr = p.dst
    PROVE  Ordinary(n, u)
<1>1. /\ up[n] /\ net' \subseteq net \cup out /\ dups' \in 0 .. MaxDups
      /\ up' = up /\ runs' = runs /\ restarts' = restarts /\ lost' = lost
      /\ Clean' => Clean
  BY Handled
<1>2. /\ lost' \in 0 .. MaxLost /\ send_counter' \in [Nodes -> 0 .. CounterMax]
      /\ todo' \in [Nodes -> SUBSET (Ids \X Addrs)]
  BY <1>1, Setting DEF Types
<1>3. Clean' => CleanStep(n, u)
  BY <1>1 DEF CleanStep, SessionTypes
<1> QED
  BY <1>1, <1>2, <1>3 DEF Ordinary

\* In a clean run nobody greets itself.
LEMMA NoSelfGreeting ==
    ASSUME Inv, Clean, NEW n \in Nodes, pm[n].session_id = 1, NEW m \in net, m.dst = n,
           m.type \in {"HELLO", "HELLO_ACK"}, m.src \in Nodes, Owns(m.from, m.src)
    PROVE  /\ Known(m.src, n) /\ m.src # n
           /\ m.from # pm[n].local_id
<1>1. Known(m.src, n)
  BY DEF Inv, CleanInv
<1>2. ~ Known(n, n)
  BY OldEntries DEF Known, EntryInv
<1>3. Owns(pm[n].local_id, n)
  BY OwnId
<1> QED
  BY <1>1, <1>2, <1>3, OneOwner

LEMMA RecvHelloStep ==
    ASSUME Inv, NEW n \in Nodes, NEW m, RecvHello(n, m)
    PROVE  \E u : Ordinary(n, u) /\ Fades(n, u)
<1> DEFINE out == {Packet("HELLO_ACK", n, m.src)}
           t == IF m.from \in DOMAIN pm[n].peers THEN pm[n]
                ELSE AddPeer(pm[n], m.from, m.src)
           u == Connect(t, m.from)
<1>1. /\ Accept(n, m, "HELLO", out) /\ pm' = [pm EXCEPT ![n] = u]
      /\ UNCHANGED <<send_counter, todo>>
  BY Setting DEF RecvHello
<1>2. /\ Handle(n, m, out) /\ m.type = "HELLO" /\ pm[n].session_id = 1
      /\ m.from \in Ids /\ m.src \in Nodes /\ m.src \in Addrs /\ Owns(m.from, m.src)
      /\ m.from \in DOMAIN pm[n].peers \/ CanAddPeer(pm[n], m.from)
  BY <1>1, Accepted, Setting DEF SessionTypes
<1>3. m \in net /\ m.dst = n
  BY <1>2, Handled
<1>4. Clean => Known(m.src, n) /\ m.src # n /\ m.from # pm[n].local_id
  BY <1>2, <1>3, NoSelfGreeting
<1>5. /\ Extends(n, t)
      /\ Clean => /\ m.from \in DOMAIN t.peers
                  /\ \A x \in DOMAIN t.peers : EntryInv(n, x, t.peers[x])
      /\ \A x \in DOMAIN pm[n].peers : x \in DOMAIN t.peers /\ t.peers[x] = pm[n].peers[x]
  <2>1. CASE m.from \in DOMAIN pm[n].peers
    BY <2>1, OldEntries
  <2>2. CASE m.from \notin DOMAIN pm[n].peers
    <3> DEFINE v == AddPeer(pm[n], m.from, m.src)
    <3>1. /\ Extends(n, v)
          /\ CanAddPeer(pm[n], m.from) /\ m.from # pm[n].local_id => m.from \in DOMAIN v.peers
          /\ Clean /\ m.src # n => \A x \in DOMAIN v.peers : EntryInv(n, x, v.peers[x])
          /\ \A x \in DOMAIN pm[n].peers : v.peers[x] = pm[n].peers[x]
      BY <1>2, EnterPeer
    <3>2. t = v
      BY <2>2
    <3> HIDE DEF t, v
    <3> QED
      BY <1>2, <1>4, <2>2, <3>1, <3>2 DEF Extends
  <2> QED
    BY <2>1, <2>2
<1>6. /\ SameBook(t, u)
      /\ \A x \in DOMAIN t.peers :
            /\ u.peers[x].key = t.peers[x].key
            /\ u.peers[x].state = IF x = m.from THEN "Connected" ELSE t.peers[x].state
            /\ x # m.from => u.peers[x].stale = t.peers[x].stale
  <2>1. t \in Tables
    BY <1>5 DEF Extends
  <2> HIDE DEF t
  <2> QED
    BY <2>1, ConnectEffect
<1>7. \A p \in out : /\ PacketInv(p) /\ p.type \in SessionTypes
                     /\ p.src = n /\ p.dst = m.src
  <2>1. PacketInv(Packet("HELLO_ACK", n, m.src))
    BY <1>2, Sealed DEF SessionTypes
  <2> QED
    BY <2>1 DEF Packet, SessionTypes
<1> HIDE DEF out, u, t
<1>8. m.from \in DOMAIN t.peers => t.peers[m.from].addr = m.src
  BY <1>2, <1>5, OneOwner DEF Extends
<1>9. /\ Extends(n, u)
      /\ Clean => \A x \in DOMAIN u.peers : EntryInv(n, x, u.peers[x])
  BY <1>4, <1>5, <1>6, <1>8, ConnectedEntries
<1>10. Clean => m.from \in DOMAIN u.peers /\ u.peers[m.from].addr = m.src
  BY <1>5, <1>6, <1>8 DEF SameBook
<1>11. Ordinary(n, u)
  BY <1>1, <1>2, <1>7, <1>9, <1>10, ReceiveStep
<1>12. n = Host => Renews(m.from)
  BY <1>2, <1>3 DEF Renews, Receive
<1>13. Fades(n, u)
  BY <1>5, <1>6, <1>12 DEF Fades
<1> QED
  BY <1>11, <1>13

LEMMA RecvHelloAckStep ==
    ASSUME Inv, NEW n \in Nodes, NEW m, RecvHelloAck(n, m)
    PROVE  \E u : Ordinary(n, u) /\ Fades(n, u)
<1> DEFINE out == {}
           u == Connect(pm[n], m.from)
<1>1. /\ Accept(n, m, "HELLO_ACK", out) /\ pm' = [pm EXCEPT ![n] = u]
      /\ UNCHANGED <<send_counter, todo>>
  BY DEF RecvHelloAck
<1>2. /\ Handle(n, m, out) /\ m.type = "HELLO_ACK" /\ pm[n].session_id = 1
      /\ m.src \in Nodes /\ Owns(m.from, m.src)
  BY <1>1, Accepted DEF SessionTypes
<1>3. m \in net /\ m.dst = n
  BY <1>2, Handled
<1>4. Clean => Known(m.src, n)
  BY <1>2, <1>3, NoSelfGreeting
<1>5. pm[n] \in Tables /\ TableInv(n)
  BY Setting
<1>6. /\ SameBook(pm[n], u)
      /\ \A x \in DOMAIN pm[n].peers :
            /\ u.peers[x].key = pm[n].peers[x].key
            /\ u.peers[x].state = IF x = m.from THEN "Connected" ELSE pm[n].peers[x].state
            /\ x # m.from => u.peers[x].stale = pm[n].peers[x].stale
  BY <1>5, ConnectEffect
<1>7. m.from \in DOMAIN pm[n].peers => pm[n].peers[m.from].addr = m.src
  BY <1>2, <1>5, OneOwner DEF TableInv
<1>8. \A p \in out : FALSE
  OBVIOUS
<1> HIDE DEF u, out
<1>9. /\ Extends(n, u)
      /\ Clean => \A x \in DOMAIN u.peers : EntryInv(n, x, u.peers[x])
  BY <1>4, <1>6, <1>7, OldEntries, ConnectedEntries
<1>10. Ordinary(n, u)
  BY <1>1, <1>2, <1>8, <1>9, ReceiveStep
<1>11. n = Host => Renews(m.from)
  BY <1>2, <1>3 DEF Renews, Receive
<1>12. Fades(n, u)
  BY <1>6, <1>11 DEF Fades
<1> QED
  BY <1>10, <1>12

LEMMA RecvKeyExchangeStep ==
    ASSUME Inv, NEW n \in Nodes, NEW m, RecvKeyExchange(n, m)
    PROVE  \E u : Ordinary(n, u) /\ Fades(n, u)
<1> DEFINE out == IF m.from \in DOMAIN pm[n].peers /\ ~ pm[n].peers[m.from].kx_sent
                  THEN {KxPacket(n, m.src)} ELSE {}
           k == DerivePeerKey(n, m.pub, m.from)
           ps == [id \in DOMAIN pm[n].peers |->
                    IF id = m.from
                    THEN [pm[n].peers[id] EXCEPT !.key = k, !.kx_sent = TRUE]
                    ELSE pm[n].peers[id]]
           u == [pm[n] EXCEPT !.peers = ps]
<1>1. /\ Accept(n, m, "KEY_EXCHANGE", out) /\ pm' = [pm EXCEPT ![n] = u]
      /\ UNCHANGED <<send_counter, todo>>
  BY Setting DEF RecvKeyExchange
<1>2. /\ Handle(n, m, out) /\ m.type = "KEY_EXCHANGE" /\ pm[n].session_id = 1
      /\ m.from \in Ids /\ m.src \in Nodes /\ m.src \in Addrs /\ Owns(m.from, m.src)
  BY <1>1, Accepted, Setting DEF SessionTypes
<1> PICK r \in 1 .. restarts + 1 : m.pub = <<m.src, r>>
  BY <1>1, Accepted DEF SessionTypes
<1>3. m \in net /\ m.dst = n
  BY <1>2, Handled
<1>4. pm[n] \in Tables /\ TableInv(n) /\ pm[n].peers \in [DOMAIN pm[n].peers -> Entries]
  BY Setting, TableTyped
<1>5. /\ runs[n] \in 1 .. restarts + 1 /\ restarts \in 0 .. MaxRestarts
      /\ pm[n].local_id \in Ids
  BY <1>4, Setting DEF Types, Tables
<1>6. /\ k = [pubs |-> {<<n, runs[n]>>, <<m.src, r>>},
              ids |-> {pm[n].local_id, m.from}, sess |-> 1]
      /\ k \in Keys
  <2>1. r \in 1 .. MaxRestarts + 1 /\ runs[n] \in 1 .. MaxRestarts + 1
    BY <1>5
  <2> QED
    BY <1>2, <1>5, <2>1 DEF DerivePeerKey, Pub, Keys
<1>7. \A p \in out : /\ PacketInv(p) /\ p.type = "KEY_EXCHANGE" /\ p.src = n
  <2>1. PacketInv(KxPacket(n, m.src))
    BY <1>2, Sealed
  <2> QED
    BY <2>1 DEF KxPacket
<1> HIDE DEF k, out
<1>8. \A x \in DOMAIN pm[n].peers :
        /\ ps[x] \in Entries /\ ps[x].addr = pm[n].peers[x].addr
        /\ ps[x].key = IF x = m.from THEN k ELSE pm[n].peers[x].key
        /\ ps[x].state = pm[n].peers[x].state
        /\ ps[x].stale = pm[n].peers[x].stale
  BY <1>4, <1>6, ZenonT(60) DEF Entries
<1>9. SameBook(pm[n], u) /\ u.peers = ps
  <2>1. DOMAIN ps = DOMAIN pm[n].peers /\ ps \in [DOMAIN ps -> Entries]
    BY <1>8
  <2> HIDE DEF ps
  <2> QED
    BY <1>4, <1>8, <2>1, NewEntries
<1> HIDE DEF u, ps
<1>10. Extends(n, u)
  BY <1>4, <1>9 DEF SameBook, Extends, TableInv
<1>11. ASSUME Clean, NEW x \in DOMAIN u.peers PROVE EntryInv(n, x, u.peers[x])
  <2>1. x \in DOMAIN pm[n].peers /\ EntryInv(n, x, pm[n].peers[x])
    BY <1>9, <1>11, OldEntries DEF SameBook
  <2>2. runs[n] = 1 /\ r = 1
    BY <1>5, <1>11 DEF Clean
  <2>3. CASE x = m.from
    <3>1. pm[n].peers[x].addr = m.src
      BY <1>2, <1>4, <2>1, <2>3, OneOwner DEF TableInv
    <3>2. /\ u.peers[x].addr = m.src /\ u.peers[x].key = k
          /\ u.peers[x].state = pm[n].peers[x].state
      BY <1>8, <1>9, <2>1, <2>3, <3>1
    <3>3. k = [pubs |-> {<<n, 1>>, <<m.src, 1>>}, ids |-> {pm[n].local_id, x},
               sess |-> 1]
      BY <1>6, <2>2, <2>3
    <3> QED
      BY <2>1, <3>1, <3>2, <3>3 DEF EntryInv
  <2>4. CASE x # m.from
    BY <1>8, <1>9, <2>1, <2>4 DEF EntryInv
  <2> QED
    BY <2>3, <2>4
<1>12. Ordinary(n, u)
  <2>1. \A p \in out : /\ PacketInv(p) /\ p.type \in SessionTypes /\ p.src = n
                       /\ p.type \notin {"HELLO", "HELLO_ACK"}
    BY <1>7 DEF SessionTypes
  <2> QED
    BY <1>1, <1>2, <1>10, <1>11, <2>1, ReceiveStep
<1>13. Fades(n, u)
  BY <1>8, <1>9 DEF Fades
<1> QED
  BY <1>12, <1>13

\* What n is about to greet.
LEMMA ToBeGreeted ==
    ASSUME Inv, NEW n \in Nodes, NEW e \in todo[n]
    PROVE  /\ n # Host /\ pm[n].session_id = 1 /\ e[1] \in Ids /\ e[2] \in Addrs
           /\ Owns(e[1], e[2]) /\ e[1] # pm[n].local_id
           /\ Clean => e[2] # n
<1>1. n # Host
  BY Setting DEF HostInv
<1>2. JoinerInv(n) /\ n \in Joiners
  BY <1>1, Setting
<1>3. /\ Owns(e[1], e[2]) /\ e[1] # pm[n].local_id /\ pm[n].session_id = 1
      /\ Owns(pm[n].local_id, n) /\ pm[n].local_id # 0
  BY <1>2 DEF JoinerInv
<1>4. e[1] \in Ids /\ e[2] \in Addrs
  BY Setting DEF Types
<1>5. Clean => e[2] # n
  BY <1>1, <1>3 DEF Inv, CleanInv, Owns
<1> QED
  BY <1>1, <1>3, <1>4, <1>5

LEMMA GreetPeerStep ==
    ASSUME Inv, NEW n \in Nodes, NEW e \in todo[n], GreetPeer(n, e)
    PROVE  \E u : Ordinary(n, u) /\ Fades(n, u)
<1> DEFINE t == AddPeer(pm[n], e[1], e[2])
           u == SetState(t, e[1], "HelloSent")
           hello == Packet("HELLO", n, e[2])
<1>1. /\ up[n] /\ CanAddPeer(pm[n], e[1]) /\ pm' = [pm EXCEPT ![n] = u]
      /\ todo' = [todo EXCEPT ![n] = @ \ {e}] /\ net' = net \cup {hello}
      /\ UNCHANGED <<up, runs, restarts, send_counter, lost, dups>>
  BY Setting DEF GreetPeer, NextToGreet
<1>2. /\ n # Host /\ pm[n].session_id = 1 /\ e[1] \in Ids /\ e[2] \in Addrs
      /\ Owns(e[1], e[2]) /\ e[1] # pm[n].local_id /\ (Clean => e[2] # n)
  BY ToBeGreeted
<1>3. /\ Extends(n, t) /\ e[1] \in DOMAIN t.peers
      /\ Clean => \A x \in DOMAIN t.peers : EntryInv(n, x, t.peers[x])
  BY <1>1, <1>2, EnterPeer
<1>4. /\ SameBook(t, u)
      /\ \A x \in DOMAIN t.peers :
            /\ u.peers[x].key = t.peers[x].key
            /\ u.peers[x].state = IF x = e[1] THEN "HelloSent" ELSE t.peers[x].state
  BY <1>3, SetStateEffect DEF Extends, States
<1>5. PacketInv(hello) /\ hello.type = "HELLO" /\ hello.src = n /\ hello.dst = e[2]
  <2>1. PacketInv(hello)
    BY <1>2, Sealed DEF SessionTypes
  <2> QED
    BY <2>1 DEF Packet
<1> HIDE DEF t, u, hello
<1>6. /\ Extends(n, u)
      /\ Clean => \A x \in DOMAIN u.peers : EntryInv(n, x, u.peers[x])
  BY <1>3, <1>4, ConnectedEntries
<1>7. e[1] \in DOMAIN u.peers /\ u.peers[e[1]].addr = e[2]
  BY <1>2, <1>3, <1>4, <1>6, OneOwner DEF SameBook, Extends
<1>8. Clean' => Clean /\ CleanStep(n, u)
  BY <1>1, <1>5, <1>6, <1>7 DEF CleanStep, Clean
<1>9. /\ todo' \in [Nodes -> SUBSET (Ids \X Addrs)]
      /\ \A k \in Nodes : todo'[k] \subseteq todo[k]
      /\ send_counter' \in [Nodes -> 0 .. CounterMax]
      /\ lost' \in 0 .. MaxLost /\ dups' \in 0 .. MaxDups
  BY <1>1, Setting DEF Types
<1>10. Ordinary(n, u)
  BY <1>1, <1>5, <1>6, <1>8, <1>9 DEF Ordinary
<1>11. Fades(n, u)
  BY <1>2 DEF Fades
<1> QED
  BY <1>10, <1>11

LEMMA GreetFailsStep ==
    ASSUME Inv, NEW n \in Nodes, NEW e \in todo[n], GreetFails(n, e)
    PROVE  \E u : Ordinary(n, u) /\ Fades(n, u)
<1>1. /\ n # Host /\ pm[n].session_id = 1 /\ e[1] \in Ids /\ e[2] \in Addrs
      /\ Owns(e[1], e[2]) /\ (Clean => e[2] # n)
  BY ToBeGreeted
<1>2. /\ up[n] /\ todo' = [todo EXCEPT ![n] = {}]
      /\ UNCHANGED <<up, runs, restarts, send_counter, net, dups>>
  BY DEF GreetFails, NextToGreet
<1>3. PICK u : /\ u = pm[n] \/ u = AddPeer(pm[n], e[1], e[2])
               /\ pm' = [pm EXCEPT ![n] = u]
               /\ lost' = lost \/ (lost < MaxLost /\ lost' = lost + 1)
  BY Setting DEF GreetFails
<1>4. /\ Extends(n, u)
      /\ Clean => \A x \in DOMAIN u.peers : EntryInv(n, x, u.peers[x])
  BY <1>1, <1>3, OldEntries, EnterPeer
<1>5. Clean' => Clean /\ CleanStep(n, u)
  BY <1>2, <1>4 DEF CleanStep, Clean
<1>6. /\ todo' \in [Nodes -> SUBSET (Ids \X Addrs)]
      /\ \A k \in Nodes : todo'[k] \subseteq todo[k]
      /\ send_counter' \in [Nodes -> 0 .. CounterMax]
      /\ lost' \in 0 .. MaxLost /\ dups' \in 0 .. MaxDups
  BY <1>2, <1>3, Setting DEF Types
<1>7. Ordinary(n, u)
  BY <1>2, <1>3, <1>4, <1>5, <1>6 DEF Ordinary
<1> QED
  BY <1>1, <1>7 DEF Fades

-----------------------------------------------------------------------------
(* The steps that hand out and take ids *)

\* The host's table after a JOIN from a: id is new, and it may find no room.
LEMMA JoinTable ==
    ASSUME Inv, CanAllocate(pm[Host]), NEW a \in Joiners
    PROVE  LET id    == pm[Host].next_peer_id
               named == [pm[Host] EXCEPT !.next_peer_id = id + 1]
               u     == Connect(AddPeer(named, id, a), id)
           IN  /\ named \in Tables
               /\ CanAddPeer(named, id) =>
                    /\ u \in Tables /\ u.local_id = 0 /\ u.session_id = 1
                    /\ u.is_host = TRUE /\ u.next_peer_id = id + 1
                    /\ DOMAIN u.peers = DOMAIN pm[Host].peers \cup {id}
                    /\ u.peers[id].addr = a /\ u.peers[id].key = NoKey
                    /\ \A x \in DOMAIN pm[Host].peers :
                        /\ u.peers[x].addr = pm[Host].peers[x].addr
                        /\ u.peers[x].key = pm[Host].peers[x].key
                        /\ u.peers[x].stale = pm[Host].peers[x].stale
                    /\ DOMAIN u.addr_to_id = DOMAIN pm[Host].addr_to_id \cup {a}
                    /\ u.addr_to_id[a] = id
                    /\ \A b \in DOMAIN pm[Host].addr_to_id \ {a} :
                            u.addr_to_id[b] = pm[Host].addr_to_id[b]
<1> DEFINE id    == pm[Host].next_peer_id
           named == [pm[Host] EXCEPT !.next_peer_id = id + 1]
           t     == AddPeer(named, id, a)
           u     == Connect(t, id)
<1>1. /\ pm[Host] \in Tables /\ a \in Addrs /\ id \in 1 .. MaxPeers - 1
      /\ id \notin DOMAIN pm[Host].peers /\ pm[Host].local_id = 0
      /\ pm[Host].session_id = 1 /\ pm[Host].is_host = TRUE
  BY Setting DEF HostInv, CanAllocate, Tables
<1>2. /\ named \in Tables /\ named.next_peer_id = id + 1
      /\ named.local_id = 0 /\ named.session_id = 1 /\ named.is_host = TRUE
      /\ named.peers = pm[Host].peers /\ named.addr_to_id = pm[Host].addr_to_id
  BY <1>1 DEF Tables
<1>3. id \in Ids /\ id # 0
  BY <1>1 DEF Ids
<1> HIDE DEF id, named
<1>4. ASSUME CanAddPeer(named, id)
      PROVE  /\ t \in Tables /\ t.local_id = 0 /\ t.session_id = 1
             /\ t.is_host = TRUE /\ t.next_peer_id = id + 1
             /\ DOMAIN t.peers = DOMAIN pm[Host].peers \cup {id}
             /\ t.peers[id] = RemotePeer(a)
             /\ \A x \in DOMAIN pm[Host].peers : t.peers[x] = pm[Host].peers[x]
             /\ DOMAIN t.addr_to_id = DOMAIN pm[Host].addr_to_id \cup {a}
             /\ t.addr_to_id[a] = id
             /\ \A b \in DOMAIN pm[Host].addr_to_id \ {a} :
                    t.addr_to_id[b] = pm[Host].addr_to_id[b]
  <2>1. id \in DOMAIN named.peers => named.peers[id].addr = a
    BY <1>1, <1>2 DEF id
  <2>2. id # named.local_id /\ id \notin DOMAIN named.peers
    BY <1>1, <1>2, <1>3 DEF id
  <2> HIDE DEF t
  <2>3. /\ t \in Tables
        /\ t.local_id = named.local_id /\ t.session_id = named.session_id
        /\ t.is_host = named.is_host /\ t.next_peer_id = named.next_peer_id
        /\ DOMAIN t.addr_to_id = DOMAIN named.addr_to_id \cup {a}
        /\ t.addr_to_id[a] = id
        /\ \A b \in DOMAIN named.addr_to_id \ {a} : t.addr_to_id[b] = named.addr_to_id[b]
        /\ DOMAIN t.peers = DOMAIN named.peers \cup {id}
        /\ t.peers[id] = RemotePeer(a)
        /\ \A x \in DOMAIN named.peers : t.peers[x] = named.peers[x]
    BY <1>1, <1>2, <1>3, <1>4, <2>1, <2>2, AddPeerEffect DEF t
  <2> QED
    BY <1>2, <2>3
<1>5. ASSUME CanAddPeer(named, id)
      PROVE  /\ SameBook(t, u)
             /\ \A x \in DOMAIN t.peers :
                    /\ u.peers[x].key = t.peers[x].key
                    /\ x # id => u.peers[x].stale = t.peers[x].stale
  BY <1>4, <1>5, ConnectEffect
<1>6. RemotePeer(a).addr = a /\ RemotePeer(a).key = NoKey
  BY <1>1, RemotePeerType
<1>7. id \notin DOMAIN pm[Host].peers
  BY <1>1 DEF id
<1> HIDE DEF t, u
<1>8. ASSUME CanAddPeer(named, id)
      PROVE  /\ u \in Tables /\ u.local_id = 0 /\ u.session_id = 1
             /\ u.is_host = TRUE /\ u.next_peer_id = id + 1
             /\ DOMAIN u.peers = DOMAIN pm[Host].peers \cup {id}
             /\ u.peers[id].addr = a /\ u.peers[id].key = NoKey
             /\ \A x \in DOMAIN pm[Host].peers :
                    /\ u.peers[x].addr = pm[Host].peers[x].addr
                    /\ u.peers[x].key = pm[Host].peers[x].key
                    /\ u.peers[x].stale = pm[Host].peers[x].stale
             /\ DOMAIN u.addr_to_id = DOMAIN pm[Host].addr_to_id \cup {a}
             /\ u.addr_to_id[a] = id
             /\ \A b \in DOMAIN pm[Host].addr_to_id \ {a} :
                    u.addr_to_id[b] = pm[Host].addr_to_id[b]
  BY <1>4, <1>5, <1>6, <1>7, <1>8, ZenonT(60) DEF SameBook
<1> QED
  BY <1>2, <1>8 DEF id, named, t, u

\* The effect of the JOIN of a: an id is used up in any case; old entries stay.
Joins(a, out) ==
    LET t == pm[Host]
        u == pm'[Host]
    IN  /\ a \in Joiners /\ JoinPacket(a) \in net
        /\ UNCHANGED <<up, runs, restarts, lost, send_counter, todo>>
        /\ dups' \in 0 .. MaxDups /\ net' \subseteq net \cup out
        /\ Clean' => Clean /\ net' = (net \ {JoinPacket(a)}) \cup out
        /\ pm' \in [Nodes -> Tables] /\ \A k \in Joiners : pm'[k] = pm[k]
        /\ u.local_id = 0 /\ u.session_id = 1 /\ u.is_host = TRUE
        /\ t.next_peer_id \in Ids \ {0}
        /\ u.next_peer_id = t.next_peer_id + 1
        /\ \A x \in DOMAIN t.peers :
            /\ x \in DOMAIN u.peers
            /\ u.peers[x].addr = t.peers[x].addr /\ u.peers[x].key = t.peers[x].key
            /\ u.peers[x].stale = t.peers[x].stale

Refuses(a) ==
    /\ Joins(a, {})
    /\ DOMAIN pm'[Host].peers = DOMAIN pm[Host].peers
    /\ pm'[Host].addr_to_id = pm[Host].addr_to_id

Admits(a) ==
    LET t  == pm[Host]
        u  == pm'[Host]
        id == t.next_peer_id
    IN  /\ Joins(a, {PeerListPacket(Host, u, a)})
        /\ DOMAIN u.peers = DOMAIN t.peers \cup {id}
        /\ u.peers[id].addr = a /\ u.peers[id].key = NoKey
        /\ DOMAIN u.addr_to_id = DOMAIN t.addr_to_id \cup {a}
        /\ u.addr_to_id[a] = id
        /\ \A b \in DOMAIN t.addr_to_id \ {a} : u.addr_to_id[b] = t.addr_to_id[b]

LEMMA RecvJoinStep ==
    ASSUME Inv, NEW n \in Nodes, NEW m, RecvJoin(n, m)
    PROVE  Refuses(m.src) \/ Admits(m.src)
<1>1. m \in net /\ m.dst = n /\ m.type = "JOIN" /\ Accepts(n, m)
  BY DEF RecvJoin, Accept, Handle
<1>2. m.src \in Joiners /\ m = JoinPacket(m.src)
  <2>1. PacketInv(m)
    BY <1>1, Setting
  <2> QED
    BY <1>1, <2>1 DEF PacketInv, SessionTypes
<1>3. n = Host /\ CanAllocate(pm[Host])
  BY <1>1, <1>2 DEF JoinPacket, Accepts
<1> DEFINE id    == pm[Host].next_peer_id
           named == [pm[Host] EXCEPT !.next_peer_id = id + 1]
           table == Connect(AddPeer(named, id, m.src), id)
           out   == IF CanAddPeer(named, id)
                    THEN {PeerListPacket(Host, table, m.src)} ELSE {}
           u     == IF CanAddPeer(named, id) THEN table ELSE named
<1>4. /\ Handle(Host, m, out)
      /\ pm' = [pm EXCEPT ![Host] = u] /\ UNCHANGED <<send_counter, todo>>
  BY <1>3 DEF RecvJoin, Accept
<1> HIDE DEF out, u
<1>5. /\ pm \in [Nodes -> Tables] /\ Host \in Nodes /\ Joiners \subseteq Nodes
      /\ pm[Host] \in Tables /\ Host \notin Joiners
  BY Setting
<1>6. /\ net' \subseteq net \cup out /\ dups' \in 0 .. MaxDups
      /\ up' = up /\ runs' = runs /\ restarts' = restarts /\ lost' = lost
      /\ Clean' => Clean /\ net' = (net \ {m}) \cup out
  BY <1>4, <1>5, Handled
<1>7. /\ pm[Host].local_id = 0 /\ pm[Host].session_id = 1 /\ pm[Host].is_host = TRUE
      /\ id \in Ids \ {0}
  BY <1>3, <1>5, Setting DEF HostInv, CanAllocate, Tables, Ids
<1>8. CASE CanAddPeer(named, id)
  <2> DEFINE h == pm[Host]
  <2>1. /\ table \in Tables /\ table.local_id = 0 /\ table.session_id = 1
        /\ table.is_host = TRUE /\ table.next_peer_id = id + 1
        /\ DOMAIN table.peers = DOMAIN h.peers \cup {id}
        /\ table.peers[id].addr = m.src /\ table.peers[id].key = NoKey
        /\ \A x \in DOMAIN h.peers :
            /\ table.peers[x].addr = h.peers[x].addr
            /\ table.peers[x].key = h.peers[x].key
            /\ table.peers[x].stale = h.peers[x].stale
        /\ DOMAIN table.addr_to_id = DOMAIN h.addr_to_id \cup {m.src}
        /\ table.addr_to_id[m.src] = id
        /\ \A b \in DOMAIN h.addr_to_id \ {m.src} : table.addr_to_id[b] = h.addr_to_id[b]
    BY <1>2, <1>3, <1>8, JoinTable, ZenonT(60)
  <2>2. u = table /\ out = {PeerListPacket(Host, table, m.src)}
    BY <1>8 DEF u, out
  <2> HIDE DEF table
  <2>3. pm'[Host] = table /\ pm' \in [Nodes -> Tables] /\ \A k \in Joiners : pm'[k] = pm[k]
    BY <1>4, <1>5, <2>1, <2>2
  <2>4. Joins(m.src, out)
    BY <1>1, <1>2, <1>4, <1>6, <1>7, <2>1, <2>3 DEF Joins
  <2> QED
    BY <2>1, <2>2, <2>3, <2>4 DEF Admits
<1>9. CASE ~ CanAddPeer(named, id)
  <2>1. u = named /\ out = {}
    BY <1>9 DEF u, out
  <2>2. named \in Tables
    BY <1>2, <1>3, JoinTable
  <2>3. /\ named.next_peer_id = id + 1
        /\ named.local_id = 0 /\ named.session_id = 1 /\ named.is_host = TRUE
        /\ named.peers = pm[Host].peers /\ named.addr_to_id = pm[Host].addr_to_id
    BY <1>5, <1>7 DEF Tables
  <2> HIDE DEF named
  <2>4. pm'[Host] = named /\ pm' \in [Nodes -> Tables] /\ \A k \in Joiners : pm'[k] = pm[k]
    BY <1>4, <1>5, <2>1, <2>2
  <2>5. Joins(m.src, {})
    BY <1>1, <1>2, <1>4, <1>6, <1>7, <2>1, <2>3, <2>4 DEF Joins
  <2> QED
    BY <2>3, <2>4, <2>5 DEF Refuses
<1> QED
  BY <1>8, <1>9

LEMMA JoinsCore ==
    ASSUME Inv, NEW a, NEW out, Joins(a, out), HostInv',
           \A p \in out : PacketInv(p)'
    PROVE  CoreInv'
<1>1. /\ Types /\ Joiners \subseteq Nodes /\ Nodes = Joiners \cup {Host}
      /\ \A k \in Joiners : JoinerInv(k) /\ TableInv(k) /\ pm'[k] = pm[k]
      /\ \A m \in net : PacketInv(m)
  BY DEF Inv, CoreInv, Joins, Nodes
<1>2. /\ \A id, b : Owns(id, b) => Owns(id, b)'
      /\ \A m : PacketInv(m) => PacketInv(m)'
  <2>1. /\ DOMAIN pm[Host].peers \subseteq DOMAIN pm'[Host].peers
        /\ \A id \in DOMAIN pm[Host].peers :
                pm'[Host].peers[id].addr = pm[Host].peers[id].addr
        /\ restarts \in Nat /\ restarts' = restarts
    BY <1>1 DEF Joins, Types
  <2> QED
    BY <2>1, OwnersStay
<1>3. Types'
  BY <1>1 DEF Types, Joins
<1>4. ASSUME NEW k \in Joiners PROVE JoinerInv(k)'
  <2>1. todo' = todo /\ up' = up /\ pm'[k] = pm[k] /\ JoinerInv(k)
    BY <1>1 DEF Joins
  <2> QED
    BY <1>2, <2>1 DEF JoinerInv
<1>5. ASSUME NEW k \in Nodes PROVE TableInv(k)'
  <2>1. CASE k = Host
    BY <2>1 DEF TableInv, Owns, HostInv
  <2>2. CASE k # Host
    BY <1>1, <1>2, <2>2 DEF TableInv
  <2> QED
    BY <2>1, <2>2
<1>6. ASSUME NEW m \in net' PROVE PacketInv(m)'
  BY <1>1, <1>2 DEF Joins
<1> QED
  BY <1>3, <1>4, <1>5, <1>6 DEF CoreInv

LEMMA RefusesCore ==
    ASSUME Inv, NEW a, Refuses(a)
    PROVE  CoreInv'
<1>1. HostInv /\ Joins(a, {}) /\ pm[Host] \in Tables
  BY Setting DEF Refuses
<1>2. DOMAIN pm[Host].peers \subseteq Int /\ pm[Host].next_peer_id \in Int
  BY <1>1, TableTyped DEF Ids, Tables
<1>3. HostInv'
  <2> DEFINE t == pm[Host]
             u == pm'[Host]
  <2>1. /\ up'[Host] /\ todo'[Host] = {} /\ u.local_id = 0 /\ u.session_id = 1
        /\ u.is_host = TRUE /\ u.next_peer_id >= 1
    BY <1>1, <1>2 DEF HostInv, Joins
  <2>2. /\ DOMAIN u.peers = DOMAIN t.peers /\ u.addr_to_id = t.addr_to_id
        /\ u.next_peer_id = t.next_peer_id + 1
        /\ \A x \in DOMAIN t.peers : u.peers[x].addr = t.peers[x].addr
    BY DEF Refuses, Joins
  <2>3. ASSUME NEW x \in DOMAIN u.peers
        PROVE  /\ 1 <= x /\ x < u.next_peer_id /\ u.peers[x].addr \in Joiners
               /\ u.peers[x].addr \in DOMAIN u.addr_to_id
               /\ u.addr_to_id[u.peers[x].addr] >= x
    BY <1>1, <1>2, <2>2 DEF HostInv
  <2>4. AddrMapSound(t)
    BY <1>1 DEF HostInv
  <2>5. AddrMapSound(u)
    BY <2>2, <2>4 DEF AddrMapSound
  <2> QED
    BY <2>1, <2>3, <2>5 DEF HostInv
<1>4. \A p \in {} : PacketInv(p)'
  OBVIOUS
<1> QED
  BY <1>1, <1>3, <1>4, JoinsCore

\* The list a gets ends, in the order of ids, with its own entry.
LEMMA AdmitsList ==
    ASSUME Inv, NEW a, Admits(a), HostInv', NEW p, p = PeerListPacket(Host, pm'[Host], a)
    PROVE  /\ PacketInv(p)' /\ p.type = "PEER_LIST" /\ p.from = 0 /\ p.dst = a
           /\ Max({e[1] : e \in p.list.peers}) = pm[Host].next_peer_id
<1> DEFINE u == pm'[Host]
<1>0. PICK id : id = pm[Host].next_peer_id
  OBVIOUS
<1>1. /\ p.type = "PEER_LIST" /\ p.from = u.local_id /\ p.src = Host /\ p.dst = a
      /\ p.sess = 0 /\ p.list.session_id = u.session_id
      /\ p.list.peers = BuildPeerList(u, HostLan)
  BY DEF PeerListPacket
<1>2. /\ u \in Tables /\ u.local_id = 0 /\ u.session_id = 1 /\ a \in Joiners
      /\ id \in Ids \ {0} /\ id \in DOMAIN u.peers /\ u.peers[id].addr = a
      /\ u.next_peer_id = id + 1
  BY <1>0, Setting DEF Admits, Joins
<1>3. \A x \in DOMAIN u.peers : /\ x \in Ids /\ 1 <= x /\ x < u.next_peer_id
                               /\ u.peers[x].addr \in Addrs
  BY <1>2, TableTyped DEF HostInv
<1>4. p.list.peers = {<<0, HostLan>>} \cup {<<x, u.peers[x].addr>> : x \in DOMAIN u.peers}
  BY <1>1, <1>2 DEF BuildPeerList
<1>5. 0 \in Ids /\ HostLan \in Addrs
  BY DEF Ids, Addrs
<1>6. p.list.peers \subseteq Ids \X Addrs
  BY <1>3, <1>4, <1>5
<1>7. \A e \in p.list.peers : e = <<0, HostLan>> \/ Owns(e[1], e[2])'
  BY <1>3, <1>4 DEF Owns
<1>8. /\ <<id, a>> \in p.list.peers /\ <<id, a>>[1] # 0 /\ Owns(id, a)'
      /\ \A e \in p.list.peers : e[1] <= id
  <2>1. id \in Int /\ id # 0 /\ \A x \in DOMAIN u.peers : x \in Int /\ x <= id
    BY <1>2, <1>3 DEF Ids
  <2>2. 0 <= id
    BY <1>2 DEF Ids
  <2>3. <<id, a>> \in p.list.peers /\ <<id, a>>[1] # 0 /\ Owns(id, a)'
    BY <1>2, <1>4, <2>1 DEF Owns
  <2>4. \A e \in p.list.peers : e[1] <= id
    BY <1>4, <2>1, <2>2
  <2> QED
    BY <2>3, <2>4
<1>9. ListInv(p)'
  BY <1>1, <1>2, <1>6, <1>7, <1>8 DEF ListInv
<1>10. Max({e[1] : e \in p.list.peers}) = id
  <2> DEFINE ids == {e[1] : e \in p.list.peers}
  <2>1. ids \subseteq Int /\ id \in ids /\ \A y \in ids : id >= y
    BY <1>2, <1>6, <1>8 DEF Ids
  <2> HIDE DEF ids
  <2>2. PICK x : x = Max(ids)
    OBVIOUS
  <2>3. x \in ids /\ \A y \in ids : x >= y
    BY <2>1, <2>2 DEF Max
  <2>4. x = id
    BY <2>1, <2>3
  <2> QED
    BY <2>2, <2>4 DEF ids
<1> QED
  BY <1>0, <1>1, <1>2, <1>9, <1>10 DEF PacketInv

LEMMA AdmitsCore ==
    ASSUME Inv, NEW a, Admits(a)
    PROVE  CoreInv'
<1> DEFINE t  == pm[Host]
           u  == pm'[Host]
           id == t.next_peer_id
<1>1. HostInv /\ Joins(a, {PeerListPacket(Host, u, a)}) /\ t \in Tables
  BY Setting DEF Admits
<1>2. DOMAIN t.peers \subseteq Int /\ id \in Int /\ 1 <= id
  BY <1>1, TableTyped DEF Ids, Tables, HostInv
<1>3. HostInv'
  <2>1. /\ up'[Host] /\ todo'[Host] = {} /\ u.local_id = 0 /\ u.session_id = 1
        /\ u.is_host = TRUE /\ u.next_peer_id >= 1
    BY <1>1, <1>2 DEF HostInv, Joins
  <2>2. ASSUME NEW x \in DOMAIN u.peers
        PROVE  /\ 1 <= x /\ x < u.next_peer_id /\ u.peers[x].addr \in Joiners
               /\ u.peers[x].addr \in DOMAIN u.addr_to_id
               /\ u.addr_to_id[u.peers[x].addr] >= x
    <3>1. CASE x = id
      BY <1>1, <1>2, <3>1, SMTT(30) DEF Admits, Joins
    <3>2. CASE x \in DOMAIN t.peers
      <4>1. /\ 1 <= x /\ x < id /\ t.peers[x].addr \in Joiners
            /\ t.peers[x].addr \in DOMAIN t.addr_to_id
            /\ t.addr_to_id[t.peers[x].addr] >= x
            /\ u.peers[x].addr = t.peers[x].addr
        BY <1>1, <3>2 DEF HostInv, Joins
      <4> QED
        BY <1>1, <1>2, <3>2, <4>1 DEF Admits, Joins
    <3> QED
      BY <3>1, <3>2 DEF Admits
  <2>3. AddrMapSound(u)
    <3> SUFFICES ASSUME NEW b \in DOMAIN u.addr_to_id
                 PROVE  /\ u.addr_to_id[b] \in DOMAIN u.peers
                        /\ u.peers[u.addr_to_id[b]].addr = b
      BY DEF AddrMapSound
    <3>1. CASE b = a
      BY <3>1 DEF Admits
    <3>2. CASE b # a
      <4>1. /\ b \in DOMAIN t.addr_to_id /\ u.addr_to_id[b] = t.addr_to_id[b]
            /\ t.addr_to_id[b] \in DOMAIN t.peers
            /\ t.peers[t.addr_to_id[b]].addr = b
        BY <1>1, <3>2 DEF Admits, HostInv, AddrMapSound
      <4> QED
        BY <1>1, <4>1 DEF Joins
    <3> QED
      BY <3>1, <3>2
  <2> QED
    BY <2>1, <2>2, <2>3 DEF HostInv, AddrMapSound
<1>4. \A p \in {PeerListPacket(Host, u, a)} : PacketInv(p)'
  BY <1>3, AdmitsList
<1> QED
  BY <1>1, <1>3, <1>4, JoinsCore

\* What a clean run needs of a JOIN besides: the host's addresses stay
\* distinct, and a gets one list.
LEMMA JoinsClean ==
    ASSUME Inv, NEW a, NEW out, Joins(a, out), Clean',
           \A x, y \in DOMAIN pm'[Host].peers :
                pm'[Host].peers[x].addr = pm'[Host].peers[y].addr => x = y,
           \A k \in Joiners \ {a} : Known(Host, k)' => Known(Host, k),
           \A p, q \in out : p.type = "PEER_LIST" /\ p.dst = a /\ q = p,
           \A x \in DOMAIN pm'[Host].peers \ DOMAIN pm[Host].peers :
                pm'[Host].peers[x].addr = a /\ pm'[Host].peers[x].key = NoKey
    PROVE  CleanInv'
<1>1. /\ a \in Joiners /\ JoinPacket(a) \in net /\ net' = (net \ {JoinPacket(a)}) \cup out
      /\ Clean /\ up' = up /\ \A k \in Joiners : pm'[k] = pm[k]
      /\ Joiners \subseteq Nodes /\ Nodes = Joiners \cup {Host} /\ Host \notin Joiners
  BY DEF Joins, Nodes
<1>2. \A p \in Nodes : \A b : Known(p, b) => Known(p, b)'
  BY <1>1 DEF Joins, Known
<1>3. ~ Known(Host, a) /\ pm[a].session_id = 0 /\ up[a]
      /\ \A m \in net : ~ (m.type = "PEER_LIST" /\ m.dst = a)
  <2>1. JoinsOnce(a) /\ JoinerInv(a)
    BY <1>1 DEF Inv, CoreInv, CleanInv
  <2>2. ~ Known(Host, a) /\ up[a] /\ \A m \in net : ~ (m.type = "PEER_LIST" /\ m.dst = a)
    BY <1>1, <2>1 DEF JoinsOnce
  <2> QED
    BY <2>1, <2>2 DEF JoinerInv, Owns, Known
<1>4. ASSUME NEW k \in Joiners PROVE JoinsOnce(k)'
  <2>1. JoinsOnce(k) /\ pm'[k] = pm[k] /\ JoinPacket(k)' = JoinPacket(k)
    BY <1>1 DEF Inv, CleanInv, JoinPacket
  <2>2. JoinPacket(k).type = "JOIN" /\ JoinPacket(k).src = k
    BY DEF JoinPacket
  <2>3. JoinPacket(k) \in net' => JoinPacket(k) \in net /\ k # a
    BY <1>1, <2>2
  <2>4. CASE k = a
    <3>1. ASSUME NEW m \in net', m.type = "PEER_LIST", m.dst = a PROVE m \in out
      BY <1>1, <1>3, <3>1
    <3>2. pm'[a].session_id = 0 /\ up'[a] /\ JoinPacket(a) \notin net'
      BY <1>1, <1>3, <2>3, <2>4
    <3> QED
      BY <2>1, <2>4, <3>1, <3>2 DEF JoinsOnce
  <2>5. CASE k # a
    <3>1. \A m \in net' : m.type = "PEER_LIST" /\ m.dst = k => m \in net
      BY <1>1, <2>5
    <3> QED
      BY <1>1, <2>1, <2>3, <2>5, <3>1 DEF JoinsOnce
  <2> QED
    BY <2>4, <2>5
<1>5. ASSUME NEW m \in net', m.type \in {"HELLO", "HELLO_ACK"}
      PROVE  Known(m.src, m.dst)'
  <2>1. m \in net /\ PacketInv(m)
    BY <1>1, <1>5 DEF Inv, CoreInv
  <2>2. m.src \in Nodes /\ Known(m.src, m.dst)
    BY <1>1, <1>5, <2>1 DEF Inv, CleanInv, PacketInv
  <2> QED
    BY <1>2, <2>2
<1>6. ASSUME NEW k \in Nodes, NEW id \in DOMAIN pm'[k].peers
      PROVE  EntryInv(k, id, pm[k].peers[id])'
  <2>1. CASE k = Host /\ id \notin DOMAIN pm[Host].peers
    BY <1>1, <2>1 DEF EntryInv
  <2>2. CASE k = Host /\ id \in DOMAIN pm[Host].peers
    <3>1. EntryInv(Host, id, pm[Host].peers[id])
      BY <1>1, <2>2 DEF Inv, CleanInv
    <3>2. /\ pm'[Host].peers[id].addr = pm[Host].peers[id].addr
          /\ pm'[Host].peers[id].key = pm[Host].peers[id].key
          /\ pm'[Host].local_id = pm[Host].local_id
      BY <2>2, Setting DEF Joins, HostInv
    <3> QED
      BY <2>2, <3>1, <3>2 DEF EntryInv
  <2>3. CASE k # Host
    <3>1. k \in Joiners /\ pm'[k] = pm[k] /\ id \in DOMAIN pm[k].peers
      BY <1>1, <2>3
    <3>2. EntryInv(k, id, pm[k].peers[id]) /\ Owns(id, pm[k].peers[id].addr)
      BY <1>1, <3>1 DEF Inv, CoreInv, CleanInv, TableInv
    <3>3. pm[k].peers[id].addr \in Nodes
      BY <1>1, <3>2, Setting DEF Owns, HostInv
    <3> QED
      BY <1>2, <3>1, <3>2, <3>3 DEF EntryInv
  <2> QED
    BY <2>1, <2>2, <2>3
<1> QED
  BY <1>4, <1>5, <1>6 DEF CleanInv

LEMMA RecvJoinClean ==
    ASSUME Inv, NEW a, Refuses(a) \/ Admits(a)
    PROVE  CleanInv'
<1> SUFFICES ASSUME Clean' PROVE CleanInv'
  BY DEF CleanInv
<1>1. CASE Refuses(a)
  <2> DEFINE out == {}
  <2>1. /\ Joins(a, out)
        /\ \A p, q \in out : p.type = "PEER_LIST" /\ p.dst = a /\ q = p
    BY <1>1 DEF Refuses
  <2>2. /\ DOMAIN pm'[Host].peers = DOMAIN pm[Host].peers
        /\ \A x \in DOMAIN pm[Host].peers :
                pm'[Host].peers[x].addr = pm[Host].peers[x].addr
    BY <1>1 DEF Refuses, Joins
  <2> HIDE DEF out
  <2>3. Clean
    BY <2>1 DEF Joins
  <2>4. \A x, y \in DOMAIN pm'[Host].peers :
            pm'[Host].peers[x].addr = pm'[Host].peers[y].addr => x = y
    BY <2>2, <2>3 DEF Inv, CleanInv
  <2>5. \A k \in Joiners \ {a} : Known(Host, k)' => Known(Host, k)
    BY <2>2 DEF Known
  <2> QED
    BY <2>1, <2>2, <2>4, <2>5, JoinsClean
<1>2. CASE Admits(a)
  <2> DEFINE out == {PeerListPacket(Host, pm'[Host], a)}
  <2>1. /\ Joins(a, out)
        /\ \A p, q \in out : p.type = "PEER_LIST" /\ p.dst = a /\ q = p
    BY <1>2 DEF Admits, PeerListPacket
  <2>2. /\ DOMAIN pm'[Host].peers = DOMAIN pm[Host].peers \cup {pm[Host].next_peer_id}
        /\ pm'[Host].peers[pm[Host].next_peer_id].addr = a
        /\ pm'[Host].peers[pm[Host].next_peer_id].key = NoKey
        /\ \A x \in DOMAIN pm[Host].peers :
                pm'[Host].peers[x].addr = pm[Host].peers[x].addr
    BY <1>2 DEF Admits, Joins
  <2> HIDE DEF out
  <2>3. Clean /\ a \in Joiners /\ JoinPacket(a) \in net
    BY <2>1 DEF Joins
  <2>4. \A x \in DOMAIN pm[Host].peers : pm[Host].peers[x].addr # a
    BY <2>3 DEF Inv, CleanInv, JoinsOnce, Known
  <2>5. \A x, y \in DOMAIN pm[Host].peers :
            pm[Host].peers[x].addr = pm[Host].peers[y].addr => x = y
    BY <2>3 DEF Inv, CleanInv
  <2>6. \A x, y \in DOMAIN pm'[Host].peers :
            pm'[Host].peers[x].addr = pm'[Host].peers[y].addr => x = y
    BY <2>2, <2>4, <2>5
  <2>7. \A k \in Joiners \ {a} : Known(Host, k)' => Known(Host, k)
    BY <2>2 DEF Known
  <2> QED
    BY <2>1, <2>2, <2>6, <2>7, JoinsClean
<1> QED
  BY <1>1, <1>2

\* The greatest id of the list belongs to the node the list is for, and the
\* others to the nodes it is about to greet.
LEMMA ListFacts ==
    ASSUME Inv, NEW m \in net, m.type = "PEER_LIST"
    PROVE  LET my_id == Max({e[1] : e \in m.list.peers})
           IN  /\ m.dst \in Joiners /\ m.list.session_id = 1
               /\ my_id \in Ids \ {0} /\ Owns(my_id, m.dst)
               /\ ToGreet(m) \subseteq Ids \X Addrs
               /\ \A e \in ToGreet(m) : Owns(e[1], e[2]) /\ e[1] # my_id
<1> DEFINE ids   == {e[1] : e \in m.list.peers}
           my_id == Max(ids)
<1>1. PacketInv(m)
  BY Setting
<1>2. /\ m.from = 0 /\ m.src = Host /\ m.dst \in Joiners /\ ListInv(m)
  BY <1>1 DEF PacketInv, JoinPacket, SessionTypes
<1>3. PICK x \in m.list.peers : /\ x[1] # 0 /\ Owns(x[1], m.dst)
                               /\ \A e \in m.list.peers : e[1] <= x[1]
  BY <1>2 DEF ListInv
<1>4. /\ m.list.session_id = 1 /\ m.list.peers \subseteq Ids \X Addrs
      /\ \A e \in m.list.peers : e = <<0, HostLan>> \/ Owns(e[1], e[2])
  BY <1>2 DEF ListInv
<1>5. ids \subseteq Ids /\ x[1] \in ids /\ \A y \in ids : x[1] >= y
  BY <1>3, <1>4 DEF Ids
<1> HIDE DEF ids
<1>6. my_id = x[1]
  <2>1. my_id \in ids /\ \A y \in ids : my_id >= y
    BY <1>5 DEF Max
  <2> HIDE DEF my_id
  <2> QED
    BY <1>5, <2>1 DEF Ids
<1>7. my_id \in Ids \ {0} /\ Owns(my_id, m.dst)
  BY <1>3, <1>5, <1>6
<1>8. ASSUME NEW g \in ToGreet(m)
      PROVE  g \in Ids \X Addrs /\ Owns(g[1], g[2]) /\ g[1] # my_id
  <2>1. PICK e \in m.list.peers :
            e[1] # my_id /\ g = <<e[1], IF e[1] = m.from THEN m.src ELSE e[2]>>
    BY DEF ToGreet, ids
  <2> HIDE DEF my_id
  <2>2. e[1] \in Ids /\ e[2] \in Addrs /\ Host \in Addrs
    BY <1>4, Setting
  <2>3. CASE e[1] = 0
    BY <1>2, <2>1, <2>2, <2>3 DEF Owns
  <2>4. CASE e[1] # 0
    <3>1. Owns(e[1], e[2])
      BY <1>4, <2>4
    <3> QED
      BY <1>2, <2>1, <2>2, <2>4, <3>1
  <2> QED
    BY <2>3, <2>4
<1> QED
  BY <1>2, <1>4, <1>7, <1>8 DEF ids

LEMMA RecvPeerListStep ==
    ASSUME Inv, NEW n \in Nodes, NEW m, RecvPeerList(n, m)
    PROVE  CoreInv' /\ CleanInv' /\ pm'[Host] = pm[Host]
<1>1. /\ Handle(n, m, {}) /\ m.type = "PEER_LIST"
      /\ pm' = [pm EXCEPT ![n] = SetIdentity(@, Max({e[1] : e \in m.list.peers}),
                                             m.list.session_id)]
      /\ send_counter' = [send_counter EXCEPT ![n] = 0]
      /\ todo' = [todo EXCEPT ![n] = ToGreet(m)]
  BY DEF RecvPeerList, Accept
<1>2. /\ up[n] /\ m \in net /\ m.dst = n /\ net' \subseteq net /\ dups' \in 0 .. MaxDups
      /\ up' = up /\ runs' = runs /\ restarts' = restarts /\ lost' = lost
      /\ Clean' => Clean /\ net' = net \ {m}
  BY <1>1, Handled
<1>3. PICK my_id : /\ my_id = Max({e[1] : e \in m.list.peers})
                   /\ n \in Joiners /\ m.list.session_id = 1
                   /\ my_id \in Ids \ {0} /\ Owns(my_id, n)
                   /\ ToGreet(m) \subseteq Ids \X Addrs
                   /\ \A e \in ToGreet(m) : Owns(e[1], e[2]) /\ e[1] # my_id
  BY <1>1, <1>2, ListFacts
<1>4. /\ Types /\ HostInv /\ pm \in [Nodes -> Tables] /\ Host \in Nodes
      /\ Joiners \subseteq Nodes /\ Host \notin Joiners /\ JoinerInv(n)
  BY <1>3, Setting DEF Inv, CoreInv
<1>5. /\ pm' \in [Nodes -> Tables] /\ \A k \in Nodes \ {n} : pm'[k] = pm[k]
      /\ pm'[n].local_id = my_id /\ pm'[n].session_id = 1
      /\ pm'[n].is_host = pm[n].is_host /\ pm'[n].peers = pm[n].peers
  <2> DEFINE t == [pm[n] EXCEPT !.local_id = my_id, !.session_id = 1]
  <2>1. /\ t \in Tables /\ t.local_id = my_id /\ t.session_id = 1
        /\ t.is_host = pm[n].is_host /\ t.peers = pm[n].peers
    BY <1>3, <1>4, ZenonT(30) DEF Tables
  <2>2. pm' = [pm EXCEPT ![n] = t]
    BY <1>1, <1>3, <1>4 DEF SetIdentity
  <2> HIDE DEF t
  <2> QED
    BY <1>4, <2>1, <2>2
<1>6. pm'[Host] = pm[Host] /\ \A k \in Nodes : pm'[k].peers = pm[k].peers
  BY <1>3, <1>4, <1>5
<1>7. CoreInv'
  <2>1. /\ \A id, a : Owns(id, a) => Owns(id, a)'
        /\ \A p : PacketInv(p) => PacketInv(p)'
    <3>1. restarts \in Nat
      BY <1>4 DEF Types
    <3> QED
      BY <1>2, <1>6, <3>1, OwnersStay
  <2>2. Types'
    BY <1>1, <1>2, <1>3, <1>4, <1>5 DEF Types
  <2>3. HostInv'
    BY <1>1, <1>2, <1>3, <1>4, <1>6 DEF HostInv, Types
  <2>4. ASSUME NEW k \in Joiners PROVE JoinerInv(k)'
    <3>1. CASE k = n
      <4>1. todo'[n] = ToGreet(m) /\ up'[n]
        BY <1>1, <1>2, <1>4 DEF Types
      <4>2. pm'[n].is_host = FALSE /\ Owns(my_id, n)'
        BY <1>3, <1>4, <1>5, <2>1 DEF JoinerInv
      <4> QED
        BY <1>3, <1>5, <2>1, <3>1, <4>1, <4>2 DEF JoinerInv
    <3>2. CASE k # n
      <4>1. todo'[k] = todo[k] /\ up' = up /\ pm'[k] = pm[k] /\ JoinerInv(k)
        BY <1>1, <1>2, <1>4, <1>5, <3>2 DEF Types, Inv, CoreInv
      <4> QED
        BY <2>1, <4>1 DEF JoinerInv
    <3> QED
      BY <3>1, <3>2
  <2>5. ASSUME NEW k \in Nodes PROVE TableInv(k)'
    BY <1>6, <2>1, Setting DEF TableInv
  <2>6. ASSUME NEW p \in net' PROVE PacketInv(p)'
    BY <1>2, <2>1, Setting
  <2> QED
    BY <2>2, <2>3, <2>4, <2>5, <2>6 DEF CoreInv
<1>8. CleanInv'
  <2> SUFFICES ASSUME Clean' PROVE CleanInv'
    BY DEF CleanInv
  <2>1. Clean /\ net' = net \ {m} /\ JoinsOnce(n)
    BY <1>2, <1>3 DEF Inv, CleanInv
  <2>3. \A p \in Nodes : \A a : Known(p, a)' <=> Known(p, a)
    BY <1>6 DEF Known
  <2>4. ASSUME NEW k \in Joiners PROVE JoinsOnce(k)'
    <3>1. JoinPacket(k)' = JoinPacket(k) /\ JoinsOnce(k)
      BY <2>1 DEF JoinPacket, Inv, CleanInv
    <3>2. CASE k = n
      <4>1. JoinPacket(n) \notin net /\ \A l \in net' : ~ (l.type = "PEER_LIST" /\ l.dst = n)
        BY <1>1, <1>2, <2>1 DEF JoinsOnce
      <4> QED
        BY <1>2, <2>1, <3>1, <3>2, <4>1 DEF JoinsOnce
    <3>3. CASE k # n
      BY <1>2, <1>4, <1>5, <2>1, <2>3, <3>1, <3>3 DEF JoinsOnce
    <3> QED
      BY <3>2, <3>3
  <2>5. ASSUME NEW p \in net', p.type \in {"HELLO", "HELLO_ACK"}
        PROVE  Known(p.src, p.dst)'
    <3>1. PacketInv(p) /\ Known(p.src, p.dst)
      BY <2>1, <2>5, Setting DEF Inv, CleanInv
    <3>2. p.src \in Nodes
      BY <2>5, <3>1, Setting DEF PacketInv
    <3> QED
      BY <2>3, <3>1, <3>2
  <2>6. ASSUME NEW k \in Nodes, NEW id \in DOMAIN pm'[k].peers
        PROVE  EntryInv(k, id, pm[k].peers[id])'
    <3>1. k # n /\ pm'[k] = pm[k]
      <4>1. pm[n].session_id = 0
        BY <1>1, <1>2, <2>1 DEF JoinsOnce
      <4> QED
        BY <1>4, <1>5, <4>1 DEF JoinerInv
    <3>2. EntryInv(k, id, pm[k].peers[id]) /\ Owns(id, pm[k].peers[id].addr)
      BY <2>1, <3>1, Setting DEF Inv, CleanInv, TableInv
    <3>3. pm[k].peers[id].addr \in Nodes
      BY <1>4, <3>2 DEF Owns, HostInv
    <3> QED
      BY <2>3, <3>1, <3>2, <3>3 DEF EntryInv
  <2>7. \A x, y \in DOMAIN pm'[Host].peers :
            pm'[Host].peers[x].addr = pm'[Host].peers[y].addr => x = y
    BY <1>6, <2>1 DEF Inv, CleanInv
  <2> QED
    BY <2>4, <2>5, <2>6, <2>7 DEF CleanInv
<1> QED
  BY <1>6, <1>7, <1>8

LEMMA NewTables ==
    NewJoiner \in Tables /\ NewHost(1) \in Tables
<1>1. DOMAIN EmptyMap = {} /\ EmptyMap \in [DOMAIN EmptyMap -> Entries]
      /\ EmptyMap \in [DOMAIN EmptyMap -> Ids]
  BY DEF EmptyMap
<1>2. EmptyMap \in Maps(Ids, Entries)
  BY <1>1, MapsByDomain
<1>3. EmptyMap \in Maps(Addrs, Ids)
  BY <1>1, MapsByDomain
<1>4. 0 \in Ids /\ 0 \in 0 .. MaxPeers /\ 1 \in 0 .. MaxPeers
  BY DEF Ids
<1> HIDE DEF EmptyMap, Maps
<1> QED
  BY <1>2, <1>3, <1>4 DEF NewJoiner, NewHost, Tables

LEMMA StartStep ==
    ASSUME Inv, NEW n \in Nodes, Start(n)
    PROVE  CoreInv' /\ CleanInv' /\ pm'[Host] = pm[Host]
<1>1. /\ n \in Joiners /\ ~ up[n] /\ up' = [up EXCEPT ![n] = TRUE]
      /\ pm' = [pm EXCEPT ![n] = NewJoiner]
      /\ send_counter' = [send_counter EXCEPT ![n] = 0]
      /\ net' = net \cup {JoinPacket(n)}
      /\ UNCHANGED <<runs, restarts, todo, lost, dups>>
  BY DEF Start
<1>2. /\ Types /\ HostInv /\ pm \in [Nodes -> Tables] /\ Host \in Nodes
      /\ Joiners \subseteq Nodes /\ Host \notin Joiners /\ JoinerInv(n)
  BY <1>1, Setting DEF Inv, CoreInv
<1>3. pm' = pm
  BY <1>1, <1>2 DEF JoinerInv
<1>4. up' \in [Nodes -> BOOLEAN] /\ up'[n] /\ \A k \in Nodes \ {n} : up'[k] = up[k]
  BY <1>1, <1>2 DEF Types
<1>5. /\ JoinPacket(n).type = "JOIN" /\ JoinPacket(n).src = n
      /\ \A k : JoinPacket(k)' = JoinPacket(k) /\ JoinPacket(k).src = k
  BY DEF JoinPacket
<1>6. CoreInv'
  <2>1. /\ \A id, a : Owns(id, a) => Owns(id, a)'
        /\ \A p : PacketInv(p) => PacketInv(p)'
    <3>1. restarts \in Nat /\ restarts' = restarts
      BY <1>1, <1>2 DEF Types
    <3> QED
      BY <1>3, <3>1, OwnersStay
  <2>2. Types'
    <3>1. send_counter' \in [Nodes -> 0 .. CounterMax]
      BY <1>1, <1>2 DEF Types
    <3> QED
      BY <1>1, <1>2, <1>3, <1>4, <3>1 DEF Types
  <2>3. HostInv'
    BY <1>1, <1>2, <1>3, <1>4 DEF HostInv
  <2>4. ASSUME NEW k \in Joiners PROVE JoinerInv(k)'
    <3>1. JoinerInv(k) /\ (~ up'[k] => ~ up[k]) /\ todo' = todo
      BY <1>1, <1>2, <1>4 DEF Inv, CoreInv
    <3> QED
      BY <1>3, <2>1, <3>1 DEF JoinerInv
  <2>5. ASSUME NEW k \in Nodes PROVE TableInv(k)'
    BY <1>3, <2>1, Setting DEF TableInv
  <2>6. PacketInv(JoinPacket(n))
    BY <1>1, <1>5 DEF PacketInv
  <2>7. ASSUME NEW p \in net' PROVE PacketInv(p)'
    BY <1>1, <2>1, <2>6, Setting
  <2> QED
    BY <2>2, <2>3, <2>4, <2>5, <2>7 DEF CoreInv
<1>7. CleanInv'
  <2> SUFFICES ASSUME Clean' PROVE CleanInv'
    BY DEF CleanInv
  <2>1. Clean /\ JoinsOnce(n)
    BY <1>1 DEF Clean, Inv, CleanInv
  <2>2. \A p, a : Known(p, a)' <=> Known(p, a)
    BY <1>3 DEF Known
  <2>3. ASSUME NEW k \in Joiners PROVE JoinsOnce(k)'
    <3>1. JoinsOnce(k)
      BY <2>1 DEF Inv, CleanInv
    <3>2. \A m \in net' : m.type = "PEER_LIST" => m \in net
      BY <1>1, <1>5
    <3>3. CASE k = n
      BY <1>1, <1>3, <1>4, <1>5, <2>1, <2>2, <3>2, <3>3 DEF JoinsOnce
    <3>4. CASE k # n
      <4>1. (JoinPacket(k) \in net' <=> JoinPacket(k) \in net) /\ up'[k] = up[k]
        BY <1>1, <1>2, <1>4, <1>5, <3>4
      <4> QED
        BY <1>3, <1>5, <2>2, <3>1, <3>2, <4>1 DEF JoinsOnce
    <3> QED
      BY <3>3, <3>4
  <2>4. ASSUME NEW m \in net', m.type \in {"HELLO", "HELLO_ACK"}
        PROVE  Known(m.src, m.dst)'
    BY <1>1, <1>5, <2>1, <2>2, <2>4 DEF Inv, CleanInv
  <2>5. ASSUME NEW k \in Nodes, NEW id \in DOMAIN pm'[k].peers
        PROVE  EntryInv(k, id, pm[k].peers[id])'
    BY <1>3, <2>1, <2>2 DEF Inv, CleanInv, EntryInv
  <2> QED
    BY <1>3, <2>1, <2>3, <2>4, <2>5 DEF Inv, CleanInv
<1> QED
  BY <1>3, <1>6, <1>7

LEMMA StopStep ==
    ASSUME Inv, NEW n \in Nodes, Stop(n)
    PROVE  CoreInv' /\ CleanInv' /\ pm'[Host] = pm[Host]
<1>1. /\ n \in Joiners /\ restarts < MaxRestarts /\ restarts' = restarts + 1
      /\ up' = [up EXCEPT ![n] = FALSE] /\ runs' = [runs EXCEPT ![n] = @ + 1]
      /\ pm' = [pm EXCEPT ![n] = NewJoiner]
      /\ send_counter' = [send_counter EXCEPT ![n] = 0]
      /\ todo' = [todo EXCEPT ![n] = {}]
      /\ UNCHANGED <<net, lost, dups>>
  BY DEF Stop
<1>2. /\ Types /\ HostInv /\ pm \in [Nodes -> Tables] /\ Host \in Nodes
      /\ Joiners \subseteq Nodes /\ Host \notin Joiners
  BY Setting
<1>3. /\ pm' \in [Nodes -> Tables] /\ pm'[n] = NewJoiner
      /\ \A k \in Nodes \ {n} : pm'[k] = pm[k]
  BY <1>1, <1>2, NewTables
<1>4. /\ up' \in [Nodes -> BOOLEAN] /\ \A k \in Nodes \ {n} : up'[k] = up[k]
      /\ todo' \in [Nodes -> SUBSET (Ids \X Addrs)] /\ todo'[n] = {}
      /\ \A k \in Nodes \ {n} : todo'[k] = todo[k]
      /\ send_counter' \in [Nodes -> 0 .. CounterMax]
      /\ restarts \in Nat /\ restarts' \in 0 .. MaxRestarts
  BY <1>1, <1>2 DEF Types
<1>5. runs' \in [Nodes -> 1 .. restarts' + 1]
  BY <1>1, <1>2 DEF Types
<1>6. pm'[Host] = pm[Host]
  BY <1>1, <1>2, <1>3
<1>7. /\ \A id, a : Owns(id, a) => Owns(id, a)'
      /\ \A p : PacketInv(p) => PacketInv(p)'
  BY <1>1, <1>4, <1>6, OwnersStay
<1>8. Types'
  BY <1>1, <1>2, <1>3, <1>4, <1>5 DEF Types
<1>9. HostInv'
  BY <1>1, <1>2, <1>4, <1>6 DEF HostInv
<1>10. ASSUME NEW k \in Joiners PROVE JoinerInv(k)'
  <2>1. CASE k = n
    BY <1>3, <1>4, <2>1 DEF JoinerInv, NewJoiner, EmptyMap
  <2>2. CASE k # n
    <3>1. JoinerInv(k) /\ pm'[k] = pm[k] /\ up'[k] = up[k] /\ todo'[k] = todo[k]
      BY <1>2, <1>3, <1>4, <2>2 DEF Inv, CoreInv
    <3> QED
      BY <1>7, <3>1 DEF JoinerInv
  <2> QED
    BY <2>1, <2>2
<1>11. ASSUME NEW k \in Nodes PROVE TableInv(k)'
  <2>1. CASE k = n
    BY <1>3, <2>1 DEF TableInv, NewJoiner, EmptyMap
  <2>2. CASE k # n
    BY <1>3, <1>7, <2>2, Setting DEF TableInv
  <2> QED
    BY <2>1, <2>2
<1>12. ASSUME NEW m \in net' PROVE PacketInv(m)'
  BY <1>1, <1>7, Setting
<1>13. ~ Clean'
  BY <1>1, <1>4 DEF Clean
<1> QED
  BY <1>6, <1>8, <1>9, <1>10, <1>11, <1>12, <1>13 DEF CoreInv, CleanInv

-----------------------------------------------------------------------------
(* The theorems *)

LEMMA InitInv == Init => Inv
<1> SUFFICES ASSUME Init PROVE Inv
  OBVIOUS
<1>1. /\ pm \in [Nodes -> Tables] /\ Host \in Nodes /\ Joiners \subseteq Nodes
      /\ pm[Host] = NewHost(1) /\ (\A k \in Joiners : pm[k] = NewJoiner) /\ net = {}
      /\ restarts = 0
  BY NewTables DEF Init, Nodes
<1>2. Types
  BY <1>1 DEF Init, Types
<1>3. HostInv
  <2>1. /\ pm[Host].local_id = 0 /\ pm[Host].session_id = 1 /\ pm[Host].is_host = TRUE
        /\ pm[Host].next_peer_id = 1 /\ DOMAIN pm[Host].peers = {}
        /\ DOMAIN pm[Host].addr_to_id = {}
    BY <1>1 DEF NewHost, EmptyMap
  <2>2. up[Host] /\ todo[Host] = {}
    BY <1>1 DEF Init
  <2> QED
    BY <2>1, <2>2 DEF HostInv, AddrMapSound
<1>4. \A k \in Joiners : JoinerInv(k)
  <2> SUFFICES ASSUME NEW k \in Joiners PROVE JoinerInv(k)
    OBVIOUS
  <2>1. pm[k] = NewJoiner /\ todo[k] = {}
    BY <1>1 DEF Init
  <2> QED
    BY <2>1 DEF JoinerInv, NewJoiner, EmptyMap
<1>5. \A k \in Nodes : DOMAIN pm[k].peers = {}
  BY <1>1 DEF Nodes, NewHost, NewJoiner, EmptyMap
<1>6. CleanInv
  BY <1>1, <1>5 DEF CleanInv, JoinsOnce, Known
<1> QED
  BY <1>1, <1>2, <1>3, <1>4, <1>5, <1>6 DEF Inv, CoreInv, TableInv

\* The first part of OldIdFades.
FadesOnly ==
    \A id \in Ids : Superseded(id) /\ pm[Host].peers[id].stale
        => pm'[Host].peers[id].stale \/ Renews(id)

LEMMA OrdinaryStep ==
    ASSUME Inv, NEW n \in Nodes, \E u : Ordinary(n, u) /\ Fades(n, u)
    PROVE  Inv' /\ FadesOnly
<1> PICK u : Ordinary(n, u) /\ Fades(n, u)
  OBVIOUS
<1>1. Inv'
  BY OrdinaryCore, OrdinaryClean DEF Inv
<1>2. pm'[Host] = IF n = Host THEN u ELSE pm[Host]
  BY Setting DEF Ordinary
<1>3. FadesOnly
  <2>1. CASE n = Host
    BY <1>2, <2>1 DEF FadesOnly, Fades, Superseded
  <2>2. CASE n # Host
    BY <1>2, <2>2 DEF FadesOnly
  <2> QED
    BY <2>1, <2>2
<1> QED
  BY <1>1, <1>3

LEMMA InductionStep ==
    ASSUME Inv, [Next]_vars
    PROVE  Inv' /\ FadesOnly
<1>1. ASSUME NEW n \in Nodes, NodeStep(n) PROVE Inv' /\ FadesOnly
  <2>1. CASE Start(n) \/ Stop(n)
    BY <2>1, StartStep, StopStep DEF Inv, FadesOnly
  <2>2. CASE KeepaliveTick(n)
    BY <2>2, KeepaliveTickStep, OrdinaryStep
  <2>3. CASE PingTick(n)
    BY <2>3, PingTickStep, OrdinaryStep
  <2>4. ASSUME NEW m \in net, Receive(n, m) PROVE Inv' /\ FadesOnly
    <3>1. CASE RecvJoin(n, m)
      <4>1. Refuses(m.src) \/ Admits(m.src)
        BY <3>1, RecvJoinStep
      <4>2. Inv'
        BY <4>1, RefusesCore, AdmitsCore, RecvJoinClean DEF Inv
      <4>3. \A x \in DOMAIN pm[Host].peers :
                pm'[Host].peers[x].stale = pm[Host].peers[x].stale
        BY <4>1 DEF Refuses, Admits, Joins
      <4> QED
        BY <4>2, <4>3 DEF FadesOnly, Superseded
    <3>2. CASE RecvPeerList(n, m)
      BY <3>2, RecvPeerListStep DEF Inv, FadesOnly
    <3>3. CASE RecvHello(n, m)
      BY <3>3, RecvHelloStep, OrdinaryStep
    <3>4. CASE RecvHelloAck(n, m)
      BY <3>4, RecvHelloAckStep, OrdinaryStep
    <3>5. CASE RecvKeepalive(n, m)
      BY <3>5, RecvKeepaliveStep, OrdinaryStep
    <3>6. CASE RecvPing(n, m)
      BY <3>6, RecvPingStep, OrdinaryStep
    <3>7. CASE RecvPong(n, m)
      BY <3>7, RecvPongStep, OrdinaryStep
    <3>8. CASE RecvKeyExchange(n, m)
      BY <3>8, RecvKeyExchangeStep, OrdinaryStep
    <3>9. CASE RecvRejected(n, m)
      BY <3>9, RecvRejectedStep, OrdinaryStep
    <3> QED
      BY <2>4, <3>1, <3>2, <3>3, <3>4, <3>5, <3>6, <3>7, <3>8, <3>9 DEF Receive
  <2>5. ASSUME NEW e \in todo[n], GreetPeer(n, e) \/ GreetFails(n, e)
        PROVE  Inv' /\ FadesOnly
    BY <2>5, GreetPeerStep, GreetFailsStep, OrdinaryStep
  <2>6. ASSUME NEW id \in Ids, TimePasses(n, id) PROVE Inv' /\ FadesOnly
    BY <2>6, TimePassesStep, OrdinaryStep
  <2> QED
    BY <1>1, <2>1, <2>2, <2>3, <2>4, <2>5, <2>6 DEF NodeStep
<1>2. ASSUME NEW m, Lose(m) \/ Vanish(m) \/ UNCHANGED vars PROVE Inv' /\ FadesOnly
  <2>1. \E u : Ordinary(Host, u) /\ Fades(Host, u)
    BY <1>2, NetworkStep
  <2> QED
    BY <2>1, OrdinaryStep, Setting
<1> QED
  BY <1>1, <1>2 DEF Next

\* The inductive invariant, CoreInv and CleanInv, holds in every state.
THEOREM Invariant == Spec => []Inv
<1>1. Init => Inv
  BY InitInv
<1>2. Inv /\ [Next]_vars => Inv'
  BY InductionStep
<1> QED
  BY <1>1, <1>2, PTL DEF Spec

\* Every id, address, key and counter of the tables and packets has its type
\* in every state: no handler enters an id past MAX_PEERS or takes one from a
\* node that has none, and send_counter never passes u32::MAX.
THEOREM TypeCorrect == Spec => []TypeOK
<1>1. Inv => TypeOK
  <2> SUFFICES ASSUME Inv PROVE TypeOK
    OBVIOUS
  <2>1. /\ Types /\ restarts \in 0 .. MaxRestarts
        /\ \A r \in 1 .. restarts + 1 : r \in 1 .. MaxRestarts + 1
    BY Setting DEF Types
  <2>2. runs \in [Nodes -> 1 .. MaxRestarts + 1]
    BY <2>1 DEF Types
  <2>3. ASSUME NEW n \in Nodes PROVE TableOK(pm[n])
    <3>1. pm[n] \in Tables
      BY Setting
    <3>2. \A id \in DOMAIN pm[n].peers : pm[n].peers[id] \in Entries
      BY <3>1, TableTyped
    <3>3. /\ DOMAIN pm[n].peers \subseteq Ids /\ DOMAIN pm[n].addr_to_id \subseteq Addrs
          /\ \A a \in DOMAIN pm[n].addr_to_id : pm[n].addr_to_id[a] \in Ids
      BY <3>1, TableTyped
    <3>4. /\ DOMAIN pm[n] = {"local_id", "session_id", "peers", "addr_to_id", "is_host",
                             "next_peer_id"}
          /\ pm[n].local_id \in Ids /\ pm[n].session_id \in {0, 1}
          /\ pm[n].is_host \in BOOLEAN /\ pm[n].next_peer_id \in 0 .. MaxPeers
      BY <3>1 DEF Tables
    <3> QED
      BY <3>2, <3>3, <3>4 DEF TableOK, Entries
  <2>4. ASSUME NEW m \in net PROVE PacketOK(m)
    <3>1. PacketInv(m) /\ 0 \in Ids /\ Host \in Nodes /\ Joiners \subseteq Nodes
          /\ Nodes \subseteq Addrs
      BY Setting DEF Ids
    <3>2. CASE m.src \in Joiners /\ m = JoinPacket(m.src)
      <4>1. m.type = "JOIN" /\ m.from = 0 /\ m.dst = Host /\ m.sess = 0
        BY <3>2 DEF JoinPacket
      <4> QED
        BY <3>1, <3>2, <4>1 DEF PacketOK
    <3>3. CASE /\ m.type = "PEER_LIST" /\ m.from = 0 /\ m.src = Host /\ m.sess = 0
               /\ m.dst \in Joiners /\ ListInv(m)
      BY <3>1, <3>3 DEF PacketOK, ListInv
    <3>4. CASE /\ m.type \in SessionTypes /\ m.sess = 1
               /\ m.from \in Ids /\ m.src \in Nodes /\ m.dst \in Addrs
               /\ m.type = "KEY_EXCHANGE" => \E r \in 1 .. restarts + 1 : m.pub = <<m.src, r>>
      <4>1. m.type = "KEY_EXCHANGE" => m.pub \in Nodes \X (1 .. MaxRestarts + 1)
        <5> SUFFICES ASSUME m.type = "KEY_EXCHANGE"
                     PROVE  m.pub \in Nodes \X (1 .. MaxRestarts + 1)
          OBVIOUS
        <5>1. PICK r \in 1 .. restarts + 1 : m.pub = <<m.src, r>>
          BY <3>4
        <5>2. r \in 1 .. MaxRestarts + 1 /\ m.src \in Nodes
          BY <2>1, <3>4
        <5> QED
          BY <5>1, <5>2
      <4> QED
        BY <3>4, <4>1 DEF PacketOK, SessionTypes
    <3> QED
      BY <3>1, <3>2, <3>3, <3>4 DEF PacketInv
  <2> QED
    BY <2>1, <2>2, <2>3, <2>4 DEF TypeOK, Types
<1> QED
  BY <1>1, Invariant, PTL

\* No two members hold the same id: the entry of an id in the host's table is
\* written once (allocate_peer_id never goes back), and a member's own id is
\* one whose entry has the member's address.
THEOREM IdentityCorrect == Spec => []UniqueIdentity
<1>1. Inv => UniqueIdentity
  <2> SUFFICES ASSUME Inv, NEW n \in Nodes, NEW p \in Nodes, n # p,
                      Member(n), Member(p), pm[n].local_id = pm[p].local_id
               PROVE  FALSE
    BY DEF UniqueIdentity
  <2>1. pm[n] \in Tables /\ pm[p] \in Tables
    BY Setting
  <2>2. pm[n].session_id = 1 /\ pm[p].session_id = 1
    BY <2>1 DEF Member, Tables
  <2> QED
    BY <2>2, OwnId, OneOwner
<1> QED
  BY <1>1, Invariant, PTL

\* Every entry of every table names the node the host gave the id to, whether
\* it came from a PEER_LIST, a JOIN or a HELLO.
THEOREM AddressBookCorrect == Spec => []AddressBook
<1>1. Inv => AddressBook
  BY Setting DEF AddressBook, TableInv, Owns, Owner
<1> QED
  BY <1>1, Invariant, PTL

\* As long as nobody restarts and no packet is repeated, a joiner with a
\* connected peer is in that peer's table.
THEOREM ConnectedCorrect == Spec => []ConnectedMeansKnown
<1>1. Inv => ConnectedMeansKnown
  <2> SUFFICES ASSUME Inv, NEW n \in Joiners, NEW p \in Nodes, Clean, Member(n), Member(p),
                      pm[p].local_id \in ConnectedPeers(pm[n])
               PROVE  pm[n].local_id \in DOMAIN pm[p].peers
    BY DEF ConnectedMeansKnown, Clean
  <2>1. n \in Nodes /\ n # Host /\ pm[n] \in Tables /\ pm[p] \in Tables
    BY Setting
  <2>2. pm[n].session_id = 1 /\ pm[p].session_id = 1
    BY <2>1 DEF Member, Tables
  <2>3. Owns(pm[n].local_id, n) /\ Owns(pm[p].local_id, p)
    BY <2>1, <2>2, OwnId
  <2>4. /\ pm[p].local_id \in DOMAIN pm[n].peers
        /\ pm[n].peers[pm[p].local_id].state = "Connected"
    BY DEF ConnectedPeers
  <2>5. pm[n].peers[pm[p].local_id].addr = p
    BY <2>1, <2>3, <2>4, OneOwner, Setting DEF TableInv
  <2>6. Known(p, n)
    <3>1. EntryInv(n, pm[p].local_id, pm[n].peers[pm[p].local_id])
      BY <2>1, <2>4, OldEntries
    <3> QED
      BY <2>1, <2>4, <2>5, <3>1 DEF EntryInv
  <2>7. PICK id \in DOMAIN pm[p].peers : pm[p].peers[id].addr = n
    BY <2>6 DEF Known
  <2>8. Owns(id, n)
    BY <2>7, Setting DEF TableInv
  <2> QED
    BY <2>1, <2>3, <2>7, <2>8 DEF Owns, Inv, CleanInv
<1> QED
  BY <1>1, Invariant, PTL

\* As long as nobody restarts and no packet is repeated, two nodes that have
\* both derived a key for each other have derived the same one.
THEOREM KeyAgreementCorrect == Spec => []KeyAgreement
<1>1. Inv => KeyAgreement
  <2> SUFFICES ASSUME Inv, NEW n \in Nodes, NEW p \in Nodes, Clean, n # p,
                      Holds(n, p), Holds(p, n),
                      Entry(n, p).key # NoKey, Entry(p, n).key # NoKey
               PROVE  Entry(n, p).key = Entry(p, n).key
    BY DEF KeyAgreement, Clean
  <2>1. ASSUME NEW a \in Nodes, NEW b \in Nodes, Holds(a, b) PROVE pm[a].session_id = 1
    <3>1. CASE a = Host
      BY <3>1, Setting DEF HostInv
    <3>2. CASE a # Host
      <4>1. JoinerInv(a)
        BY <3>2, Setting
      <4> QED
        BY <2>1, <4>1 DEF JoinerInv, Holds
    <3> QED
      BY <3>1, <3>2
  <2>2. Owns(pm[n].local_id, n) /\ Owns(pm[p].local_id, p)
    BY <2>1, OwnId
  <2>3. ASSUME NEW a \in Nodes, NEW b \in Nodes, Holds(a, b), Owns(pm[b].local_id, b),
               Entry(a, b).key # NoKey
        PROVE  Entry(a, b).key = [pubs |-> {<<a, 1>>, <<b, 1>>},
                                  ids |-> {pm[a].local_id, pm[b].local_id}, sess |-> 1]
    <3>1. /\ EntryInv(a, pm[b].local_id, Entry(a, b))
          /\ Owns(pm[b].local_id, Entry(a, b).addr)
      BY <2>3, OldEntries, Setting DEF Holds, Entry, TableInv
    <3>2. Entry(a, b).addr = b
      BY <2>3, <3>1, OneOwner
    <3> QED
      BY <2>3, <3>1, <3>2 DEF EntryInv
  <2>4. /\ Entry(n, p).key = [pubs |-> {<<n, 1>>, <<p, 1>>},
                              ids |-> {pm[n].local_id, pm[p].local_id}, sess |-> 1]
        /\ Entry(p, n).key = [pubs |-> {<<p, 1>>, <<n, 1>>},
                              ids |-> {pm[p].local_id, pm[n].local_id}, sess |-> 1]
    BY <2>2, <2>3
  <2>5. /\ {<<n, 1>>, <<p, 1>>} = {<<p, 1>>, <<n, 1>>}
        /\ {pm[n].local_id, pm[p].local_id} = {pm[p].local_id, pm[n].local_id}
    OBVIOUS
  <2> QED
    BY <2>4, <2>5
<1> QED
  BY <1>1, Invariant, PTL

-----------------------------------------------------------------------------
(* An id that nothing carries any more does not come back *)

\* What n sends is under its own id, and is no list.
OwnPackets(n) ==
    \A m \in net' : m \in net \/ (m.from = pm[n].local_id /\ m.type # "PEER_LIST")

\* No node gets another id in this step, and n sends nothing but its packets.
LEMMA CarriedOrdinary ==
    ASSUME Inv, NEW n \in Nodes, \E u : Ordinary(n, u) /\ Fades(n, u), OwnPackets(n),
           NEW id, Carried(id)'
    PROVE  Carried(id)
<1>1. PICK u : Ordinary(n, u)
  OBVIOUS
<1>2. \A k \in Nodes : pm'[k].local_id = pm[k].local_id
  BY <1>1, Setting DEF Ordinary, Extends
<1> QED
  BY <1>2 DEF OwnPackets, Carried

LEMMA CarriedReceive ==
    ASSUME Inv, Inv', NEW n \in Nodes, NEW m \in net, Receive(n, m),
           NEW id \in DOMAIN pm[Host].peers, Carried(id)'
    PROVE  Carried(id)
<1>1. CASE RecvJoin(n, m)
  <2> DEFINE a == m.src
             p == PeerListPacket(Host, pm'[Host], a)
  <2>1. Refuses(a) \/ Admits(a)
    BY <1>1, RecvJoinStep
  <2>2. \A k \in Nodes : pm'[k].local_id = pm[k].local_id
    BY <2>1, Setting DEF Refuses, Admits, Joins, HostInv
  <2>3. id \in Int /\ 1 <= id /\ id < pm[Host].next_peer_id
    BY Setting, TableTyped DEF HostInv, Ids
  <2>4. CASE Refuses(a)
    BY <2>2, <2>4 DEF Refuses, Joins, Carried
  <2>5. CASE Admits(a)
    <3>1. p.from = 0 /\ Max({e[1] : e \in p.list.peers}) = pm[Host].next_peer_id
      <4>1. PICK q : q = p
        OBVIOUS
      <4>2. HostInv'
        BY DEF Inv, CoreInv
      <4>3. q.from = 0 /\ Max({e[1] : e \in q.list.peers}) = pm[Host].next_peer_id
        BY <2>5, <4>1, <4>2, AdmitsList
      <4> QED
        BY <4>1, <4>3
    <3>2. net' \subseteq net \cup {p}
      BY <2>5 DEF Admits, Joins
    <3> HIDE DEF p
    <3>3. ASSUME NEW q \in net', q.from = id \/ (/\ q.type = "PEER_LIST"
                                               /\ Max({e[1] : e \in q.list.peers}) = id)
          PROVE  q \in net
      <4>1. q # p
        BY <2>3, <3>1, <3>3
      <4> QED
        BY <3>2, <4>1
    <3> QED
      BY <2>2, <3>3 DEF Carried
  <2> QED
    BY <2>1, <2>4, <2>5
<1>2. CASE RecvPeerList(n, m)
  <2> DEFINE my_id == Max({e[1] : e \in m.list.peers})
             t     == SetIdentity(pm[n], my_id, m.list.session_id)
  <2>1. Handle(n, m, {}) /\ m.type = "PEER_LIST" /\ pm' = [pm EXCEPT ![n] = t]
    BY <1>2 DEF RecvPeerList, Accept
  <2>2. net' \subseteq net
    BY <2>1, Handled
  <2>3. t.local_id = my_id
    BY Setting DEF SetIdentity, Tables
  <2> HIDE DEF t, my_id
  <2>4. pm'[n].local_id = my_id /\ \A k \in Nodes \ {n} : pm'[k] = pm[k]
    BY <2>1, <2>3, Setting
  <2> QED
    BY <2>1, <2>2, <2>4 DEF Carried, my_id
<1>3. CASE RecvHello(n, m)
  <2>1. net' \subseteq net \cup {Packet("HELLO_ACK", n, m.src)}
    BY <1>3 DEF RecvHello, Accept, Handle
  <2>2. OwnPackets(n)
    BY <2>1 DEF Packet, OwnPackets
  <2> QED
    BY <1>3, <2>2, RecvHelloStep, CarriedOrdinary
<1>4. CASE RecvHelloAck(n, m)
  <2>1. OwnPackets(n)
    BY <1>4 DEF RecvHelloAck, Accept, Handle, OwnPackets
  <2> QED
    BY <1>4, <2>1, RecvHelloAckStep, CarriedOrdinary
<1>5. CASE RecvKeepalive(n, m)
  <2>1. OwnPackets(n)
    BY <1>5 DEF RecvKeepalive, Accept, Handle, OwnPackets
  <2> QED
    BY <1>5, <2>1, RecvKeepaliveStep, CarriedOrdinary
<1>6. CASE RecvPing(n, m)
  <2>1. net' \subseteq net \cup {Packet("PONG", n, m.src)}
    BY <1>6 DEF RecvPing, Accept, Handle
  <2>2. OwnPackets(n)
    BY <2>1 DEF Packet, OwnPackets
  <2> QED
    BY <1>6, <2>2, RecvPingStep, CarriedOrdinary
<1>7. CASE RecvPong(n, m)
  <2>1. OwnPackets(n)
    BY <1>7 DEF RecvPong, Accept, Handle, OwnPackets
  <2> QED
    BY <1>7, <2>1, RecvPongStep, CarriedOrdinary
<1>8. CASE RecvKeyExchange(n, m)
  <2>1. net' \subseteq net \cup {KxPacket(n, m.src)}
    BY <1>8 DEF RecvKeyExchange, Accept, Handle
  <2>2. OwnPackets(n)
    BY <2>1 DEF KxPacket, OwnPackets
  <2> QED
    BY <1>8, <2>2, RecvKeyExchangeStep, CarriedOrdinary
<1>9. CASE RecvRejected(n, m)
  <2>1. OwnPackets(n)
    BY <1>9 DEF RecvRejected, Handle, OwnPackets
  <2> QED
    BY <1>9, <2>1, RecvRejectedStep, CarriedOrdinary
<1> QED
  BY <1>1, <1>2, <1>3, <1>4, <1>5, <1>6, <1>7, <1>8, <1>9 DEF Receive

\* The second part of OldIdFades: only the host makes an id known, in the list
\* for a JOIN, and that id is above all it has given.
LEMMA CarriedStays ==
    ASSUME Inv, Inv', [Next]_vars, NEW id \in DOMAIN pm[Host].peers, Carried(id)'
    PROVE  Carried(id)
<1>1. ASSUME NEW n \in Nodes, NodeStep(n) PROVE Carried(id)
  <2>1. CASE Start(n) \/ Stop(n)
    <3>1. pm' = [pm EXCEPT ![n] = NewJoiner] /\ net' \subseteq net \cup {JoinPacket(n)}
      BY <2>1 DEF Start, Stop
    <3>2. JoinPacket(n).from = 0 /\ JoinPacket(n).type = "JOIN" /\ NewJoiner.local_id = 0
      BY DEF JoinPacket, NewJoiner
    <3>3. id # 0
      BY Setting DEF HostInv
    <3>4. pm'[n].local_id = 0 /\ \A k \in Nodes \ {n} : pm'[k] = pm[k]
      BY <3>1, <3>2, Setting
    <3> QED
      BY <3>1, <3>2, <3>3, <3>4 DEF Carried
  <2>2. CASE KeepaliveTick(n)
    <3>1. OwnPackets(n)
      BY <2>2 DEF KeepaliveTick, Packet, OwnPackets
    <3> QED
      BY <2>2, <3>1, KeepaliveTickStep, CarriedOrdinary
  <2>3. CASE PingTick(n)
    <3>1. OwnPackets(n)
      BY <2>3 DEF PingTick, Packet, KxPacket, OwnPackets
    <3> QED
      BY <2>3, <3>1, PingTickStep, CarriedOrdinary
  <2>4. ASSUME NEW m \in net, Receive(n, m) PROVE Carried(id)
    BY <2>4, CarriedReceive
  <2>5. ASSUME NEW e \in todo[n], GreetPeer(n, e) \/ GreetFails(n, e)
        PROVE  Carried(id)
    <3>1. OwnPackets(n)
      BY <2>5 DEF GreetPeer, GreetFails, Packet, OwnPackets
    <3> QED
      BY <2>5, <3>1, GreetPeerStep, GreetFailsStep, CarriedOrdinary
  <2>6. ASSUME NEW x \in Ids, TimePasses(n, x) PROVE Carried(id)
    <3>1. OwnPackets(n)
      BY <2>6 DEF TimePasses, OwnPackets
    <3> QED
      BY <2>6, <3>1, TimePassesStep, CarriedOrdinary
  <2> QED
    BY <1>1, <2>1, <2>2, <2>3, <2>4, <2>5, <2>6 DEF NodeStep
<1>2. ASSUME NEW m, Lose(m) \/ Vanish(m) \/ UNCHANGED vars PROVE Carried(id)
  <2>1. pm' = pm /\ net' \subseteq net
    BY <1>2 DEF Lose, Vanish, vars
  <2> QED
    BY <2>1 DEF Carried
<1> QED
  BY <1>1, <1>2 DEF Next

\* The entry of an earlier run that has gone stale at the host is renewed only
\* by the handling of a HELLO, HELLO_ACK or PONG that carries the old id; and
\* once neither a node nor a packet nor a list in flight has that id, none gets
\* it again, so the entry stays stale for good.
THEOREM OldIdFadesCorrect == Spec => OldIdFades
<1> DEFINE Step == \A id \in Ids : Superseded(id) =>
            /\ pm[Host].peers[id].stale /\ ~ pm'[Host].peers[id].stale
                => \E m \in net : /\ m.from = id
                                  /\ m.type \in {"HELLO", "HELLO_ACK", "PONG"}
                                  /\ Receive(Host, m)
            /\ Carried(id)' => Carried(id)
<1>1. ASSUME Inv, [Next]_vars PROVE Step
  <2>1. Inv' /\ FadesOnly
    BY <1>1, InductionStep
  <2>2. ASSUME NEW id \in Ids, Superseded(id), Carried(id)' PROVE Carried(id)
    BY <1>1, <2>1, <2>2, CarriedStays DEF Superseded
  <2> QED
    BY <2>1, <2>2 DEF FadesOnly, Renews
<1>2. Inv /\ [Next]_vars => [Step]_vars
  BY <1>1
<1> QED
  BY <1>2, Invariant, PTL DEF Spec, OldIdFades
=============================================================================
