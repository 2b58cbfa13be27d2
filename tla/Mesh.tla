------------------------------- MODULE Mesh ---------------------------------
(***************************************************************************)
(* The control plane of a voice session: one host, some joiners, and the   *)
(* UDP packets between them (vc-core/src/lib.rs, Session::run and          *)
(* handle_incoming, on the peer table of PeerManager).                     *)
(*                                                                         *)
(* A node is one Session::run loop.  It is single-threaded, so handling a  *)
(* packet and each timer section of the loop are atomic; the only handler  *)
(* that sends several packets, the one for PEER_LIST, is split at its sends *)
(* and blocks the node (todo[n]) until its loop over the list is over.     *)
(*                                                                         *)
(* A packet is a record: type, from (the peer id in the clear header),     *)
(* src and dst (addresses), sess (the session id its nonce was built with; *)
(* 0 is the all-zero id of JOIN and PEER_LIST).  All nodes have the same   *)
(* passphrase, so a packet opens exactly when the receiver uses the same   *)
(* session id.  No control packet passes a replay filter, so the counter   *)
(* in the header has no effect on the receiver and is left out of packets. *)
(* Packets in flight form a set: the network may reorder them at will,     *)
(* lose MaxLost of them and deliver MaxDups a second time; two equal       *)
(* packets in flight at once are one packet, delivered twice only at the   *)
(* expense of MaxDups.                                                     *)
(*                                                                         *)
(* A node keeps its address when it restarts (bind_addr is a setting); a   *)
(* restart on another port is a further joiner.                            *)
(***************************************************************************)
EXTENDS PeerManager, FiniteSetsExt

CONSTANTS
    Host,           \* the rendezvous peer
    Joiners,        \* the nodes that are started with the host's address
    HostLan,        \* the address the host lists for itself: a LAN address
                    \* that joiners cannot reach
    CounterMax,     \* u32::MAX, where next_counter fails (a small bound)
    MaxRestarts,    \* bound: restarts of joiners, of all together
    MaxLost,        \* bound: packets lost, failed sends included
    MaxDups,        \* bound: packets delivered twice
    MaxFaults,      \* bound: restarts, losses and duplicates together
    Timeouts        \* bound: the nodes where a peer can stay silent for
                    \* PEER_TIMEOUT_SECS

Nodes == {Host} \cup Joiners

ASSUME MeshAssumption ==
    /\ Host \notin Joiners
    /\ HostLan \notin Nodes
    /\ CounterMax \in Nat /\ MaxRestarts \in Nat /\ MaxLost \in Nat
    /\ MaxDups \in Nat /\ MaxFaults \in Nat /\ Timeouts \subseteq Nodes

Addrs == Nodes \cup {HostLan}

VARIABLES
    up,             \* up[n]: the process runs
    runs,           \* runs[n]: the number of n's current, or next, run
    restarts,       \* restarts of joiners so far, of all together
    pm,             \* pm[n]: the PeerManager of n
    send_counter,   \* send_counter[n]: of n's crypto_ctx
    todo,           \* todo[n]: entries of a PEER_LIST n has yet to greet
    net,            \* the packets in flight
    lost, dups      \* packets lost and duplicated so far

vars == <<up, runs, restarts, pm, send_counter, todo, net, lost, dups>>

\* What went wrong so far, for the bounds; a restart counts for two.
Faults == 2 * restarts + lost + dups

-----------------------------------------------------------------------------
(* Packets *)

\* The public key of n's KeyExchange, fresh in every run, and the key that
\* derive_peer_key computes from both public keys, both ids and the session.
Pub(n) == <<n, runs[n]>>

\* A plausible mistake: the ids go into the key unsorted.
MutantDerivePeerKey(n, pub, pid) ==
    [pubs |-> {Pub(n), pub}, ids |-> <<pm[n].local_id, pid>>,
     sess |-> pm[n].session_id]

DerivePeerKey(n, pub, pid) ==
    [pubs |-> {Pub(n), pub}, ids |-> {pm[n].local_id, pid},
     sess |-> pm[n].session_id]

Keys == [pubs : SUBSET (Nodes \X (1 .. MaxRestarts + 1)), ids : SUBSET Ids,
         sess : {1}]

\* A packet n seals with the session's context.
Packet(type, n, dst) ==
    [type |-> type, from |-> pm[n].local_id, src |-> n, dst |-> dst,
     sess |-> pm[n].session_id]

JoinPacket(n) ==
    [type |-> "JOIN", from |-> 0, src |-> n, dst |-> Host, sess |-> 0]

KxPacket(n, dst) ==
    [type |-> "KEY_EXCHANGE", from |-> pm[n].local_id, src |-> n, dst |-> dst,
     sess |-> pm[n].session_id, pub |-> Pub(n)]

PeerListPacket(n, table, dst) ==
    [type |-> "PEER_LIST", from |-> table.local_id, src |-> n, dst |-> dst,
     sess |-> 0,
     list |-> [session_id |-> table.session_id,
               peers |-> BuildPeerList(table, HostLan)]]

Opens(n, m) == m.sess = pm[n].session_id

\* A plausible mistake: next_counter hands out u32::MAX, too.
MutantCountersLeft(n) == CounterMax + 1 - send_counter[n]

CountersLeft(n) == CounterMax - send_counter[n]

\* n is in its loop and not inside the handler of a PEER_LIST.
Idle(n) == up[n] /\ todo[n] = {}

\* Whether the handler of m gets past its early returns.
Accepts(n, m) ==
    CASE m.type = "JOIN"         -> CanAllocate(pm[n])
      [] m.type = "PEER_LIST"    -> TRUE
      [] m.type = "KEEPALIVE"    -> TRUE
      [] m.type = "PING"         -> Opens(n, m) /\ CountersLeft(n) > 0
      [] m.type = "HELLO"        -> /\ Opens(n, m)
                                    /\ \/ m.from \in DOMAIN pm[n].peers
                                       \/ CanAddPeer(pm[n], m.from)
      [] OTHER                   -> Opens(n, m)

\* n takes m from its socket and sends the packets out.
Handle(n, m, out) ==
    /\ Idle(n)
    /\ m \in net /\ m.dst = n
    /\ \/ net' = (net \ {m}) \cup out /\ dups' = dups
       \/ /\ dups < MaxDups /\ Faults < MaxFaults /\ dups' = dups + 1
          /\ net' = net \cup out
    /\ UNCHANGED <<up, runs, restarts, lost>>

\* Handle for a packet that passes the handler's checks.
Accept(n, m, type, out) ==
    m.type = type /\ Accepts(n, m) /\ Handle(n, m, out)

-----------------------------------------------------------------------------
(* The handlers of handle_incoming *)

\* A plausible mistake: the id handed out is not counted.
MutantRecvJoin(n, m) ==
    LET id    == pm[n].next_peer_id
        table == Connect(AddPeer(pm[n], id, m.src), id)
    IN  /\ Accept(n, m, "JOIN", {PeerListPacket(n, table, m.src)})
        /\ pm' = [pm EXCEPT ![n] = table]
        /\ UNCHANGED <<send_counter, todo>>

\* The host gives the sender of a JOIN the next id, takes it for connected
\* at once and sends it the list, its own entry under the LAN address.
RecvJoin(n, m) ==
    LET id    == pm[n].next_peer_id
        named == [pm[n] EXCEPT !.next_peer_id = id + 1]
        table == Connect(AddPeer(named, id, m.src), id)
    IN  /\ Accept(n, m, "JOIN", IF CanAddPeer(named, id)
                                THEN {PeerListPacket(n, table, m.src)} ELSE {})
        /\ pm' = [pm EXCEPT ![n] = IF CanAddPeer(named, id) THEN table ELSE named]
        /\ UNCHANGED <<send_counter, todo>>

\* A plausible mistake: the host is entered under the address it lists.
MutantToGreet(m) ==
    LET my_id == Max({e[1] : e \in m.list.peers})
    IN  {e \in m.list.peers : e[1] # my_id}

\* The entries of a PEER_LIST to greet: all but the receiver's own (the
\* greatest id), the sender's under the address the packet came from.
ToGreet(m) ==
    LET my_id == Max({e[1] : e \in m.list.peers})
    IN  {<<e[1], IF e[1] = m.from THEN m.src ELSE e[2]>> :
            e \in {x \in m.list.peers : x[1] # my_id}}

\* PEER_LIST, first part: identity and a new crypto context.
RecvPeerList(n, m) ==
    /\ Accept(n, m, "PEER_LIST", {})
    /\ pm' = [pm EXCEPT ![n] = SetIdentity(@, Max({e[1] : e \in m.list.peers}),
                                           m.list.session_id)]
    /\ send_counter' = [send_counter EXCEPT ![n] = 0]
    /\ todo' = [todo EXCEPT ![n] = ToGreet(m)]

\* The next entry of the list: the host lists itself first, its peers follow
\* in the order of a HashMap.
NextToGreet(n, e) ==
    /\ up[n] /\ e \in todo[n]
    /\ (\E x \in todo[n] : x[1] = 0) => e[1] = 0

\* PEER_LIST, one turn of the loop: enter the peer and send it a HELLO.
GreetPeer(n, e) ==
    /\ NextToGreet(n, e)
    /\ CanAddPeer(pm[n], e[1])
    /\ pm' = [pm EXCEPT ![n] = SetState(AddPeer(@, e[1], e[2]), e[1], "HelloSent")]
    /\ todo' = [todo EXCEPT ![n] = @ \ {e}]
    /\ net' = net \cup {Packet("HELLO", n, e[2])}
    /\ UNCHANGED <<up, runs, restarts, send_counter, lost, dups>>

\* PEER_LIST, the two errors that end the loop: the table is full, or the
\* HELLO cannot be sent (the peer stays Discovered).
GreetFails(n, e) ==
    /\ NextToGreet(n, e)
    /\ \/ /\ ~ CanAddPeer(pm[n], e[1])
          /\ UNCHANGED <<pm, lost>>
       \/ /\ CanAddPeer(pm[n], e[1])
          /\ lost < MaxLost /\ Faults < MaxFaults /\ lost' = lost + 1
          /\ pm' = [pm EXCEPT ![n] = AddPeer(@, e[1], e[2])]
    /\ todo' = [todo EXCEPT ![n] = {}]
    /\ UNCHANGED <<up, runs, restarts, send_counter, net, dups>>

\* A plausible mistake: a HELLO from a peer not yet known is answered, but the
\* peer is not entered.
MutantRecvHelloUnknown(n, m) ==
    /\ Accept(n, m, "HELLO", {Packet("HELLO_ACK", n, m.src)})
    /\ pm' = [pm EXCEPT ![n] = Connect(@, m.from)]
    /\ UNCHANGED <<send_counter, todo>>

\* A plausible mistake: only a HELLO of a new peer is acknowledged.
MutantRecvHelloSilent(n, m) ==
    /\ Accept(n, m, "HELLO", IF m.from \in DOMAIN pm[n].peers THEN {}
                             ELSE {Packet("HELLO_ACK", n, m.src)})
    /\ pm' = [pm EXCEPT ![n] =
                Connect(IF m.from \in DOMAIN @.peers THEN @
                        ELSE AddPeer(@, m.from, m.src), m.from)]
    /\ UNCHANGED <<send_counter, todo>>

\* A sender not yet known is entered; it is connected, and gets a HELLO_ACK.
RecvHello(n, m) ==
    /\ Accept(n, m, "HELLO", {Packet("HELLO_ACK", n, m.src)})
    /\ pm' = [pm EXCEPT ![n] =
                Connect(IF m.from \in DOMAIN @.peers THEN @
                        ELSE AddPeer(@, m.from, m.src), m.from)]
    /\ UNCHANGED <<send_counter, todo>>

RecvHelloAck(n, m) ==
    /\ Accept(n, m, "HELLO_ACK", {})
    /\ pm' = [pm EXCEPT ![n] = Connect(@, m.from)]
    /\ UNCHANGED <<send_counter, todo>>

RecvKeepalive(n, m) ==
    /\ Accept(n, m, "KEEPALIVE", {})
    /\ pm' = [pm EXCEPT ![n] = TouchAddr(@, m.src)]
    /\ UNCHANGED <<send_counter, todo>>

RecvPing(n, m) ==
    /\ Accept(n, m, "PING", {Packet("PONG", n, m.src)})
    /\ pm' = [pm EXCEPT ![n] = TouchAddr(@, m.src)]
    /\ send_counter' = [send_counter EXCEPT ![n] = @ + 1]
    /\ UNCHANGED todo

RecvPong(n, m) ==
    /\ Accept(n, m, "PONG", {})
    /\ pm' = [pm EXCEPT ![n] = Touch(@, m.from)]
    /\ UNCHANGED <<send_counter, todo>>

\* The peer's key is derived anew each time; ours goes back if it never went
\* out.  A KEY_EXCHANGE of an unknown peer changes nothing.
RecvKeyExchange(n, m) ==
    LET reply == m.from \in DOMAIN pm[n].peers /\ ~ pm[n].peers[m.from].kx_sent
    IN  /\ Accept(n, m, "KEY_EXCHANGE",
                  IF reply THEN {KxPacket(n, m.src)} ELSE {})
        /\ pm' = [pm EXCEPT ![n].peers =
                    [id \in DOMAIN @ |->
                        IF id = m.from
                        THEN [@[id] EXCEPT
                                !.key = DerivePeerKey(n, m.pub, m.from),
                                !.kx_sent = TRUE]
                        ELSE @[id]]]
        /\ UNCHANGED <<send_counter, todo>>

\* A packet that a handler turns down: it does not open, there is no id, no
\* room or no counter left.
RecvRejected(n, m) ==
    /\ ~ Accepts(n, m)
    /\ Handle(n, m, {})
    /\ UNCHANGED <<pm, send_counter, todo>>

Receive(n, m) ==
    \/ RecvJoin(n, m)
    \/ RecvPeerList(n, m)
    \/ RecvHello(n, m)
    \/ RecvHelloAck(n, m)
    \/ RecvKeepalive(n, m)
    \/ RecvPing(n, m)
    \/ RecvPong(n, m)
    \/ RecvKeyExchange(n, m)
    \/ RecvRejected(n, m)

-----------------------------------------------------------------------------
(* The timer sections of the loop *)

\* The peers a section over connected_peers reaches before the counters run
\* out (after that next_counter fails for each).
Reached(n) ==
    kSubset(Min({CountersLeft(n), Cardinality(ConnectedPeers(pm[n]))}),
            ConnectedPeers(pm[n]))

AddrsOf(n, ids) == {pm[n].peers[id].addr : id \in ids}

\* Every second: KEEPALIVE to the connected peers, then check_timeouts.
KeepaliveTick(n) ==
    /\ Idle(n)
    /\ \E S \in Reached(n) :
        /\ net' = net \cup {Packet("KEEPALIVE", n, a) : a \in AddrsOf(n, S)}
        /\ send_counter' = [send_counter EXCEPT ![n] = @ + Cardinality(S)]
    /\ pm' = [pm EXCEPT ![n] = CheckTimeouts(@)]
    /\ UNCHANGED <<up, runs, restarts, todo, lost, dups>>

\* Connected peers our KEY_EXCHANGE did not go out to.
NeedKx(n) == {id \in ConnectedPeers(pm[n]) : ~ pm[n].peers[id].kx_sent}

\* Every two seconds: PING to the connected peers, then KEY_EXCHANGE to those
\* that need it.
PingTick(n) ==
    /\ Idle(n)
    /\ \E S \in Reached(n) :
        /\ net' = net \cup {Packet("PING", n, a) : a \in AddrsOf(n, S)}
                      \cup {KxPacket(n, a) : a \in AddrsOf(n, NeedKx(n))}
        /\ send_counter' = [send_counter EXCEPT ![n] = @ + Cardinality(S)]
    /\ pm' = [pm EXCEPT ![n].peers =
                [id \in DOMAIN @ |->
                    IF id \in NeedKx(n) THEN [@[id] EXCEPT !.kx_sent = TRUE]
                    ELSE @[id]]]
    /\ UNCHANGED <<up, runs, restarts, todo, lost, dups>>

-----------------------------------------------------------------------------
(* Processes, time and the network *)

\* Session::run of a joiner up to its loop: an empty table, one JOIN.
Start(n) ==
    /\ n \in Joiners /\ ~ up[n]
    /\ up' = [up EXCEPT ![n] = TRUE]
    /\ pm' = [pm EXCEPT ![n] = NewJoiner]
    /\ send_counter' = [send_counter EXCEPT ![n] = 0]
    /\ net' = net \cup {JoinPacket(n)}
    /\ UNCHANGED <<runs, restarts, todo, lost, dups>>

\* The process ends, at any point of its loop; nobody is told.
Stop(n) ==
    /\ n \in Joiners /\ up[n]
    /\ restarts < MaxRestarts /\ Faults + 2 <= MaxFaults
    /\ up' = [up EXCEPT ![n] = FALSE]
    /\ runs' = [runs EXCEPT ![n] = @ + 1]
    /\ restarts' = restarts + 1
    /\ pm' = [pm EXCEPT ![n] = NewJoiner]
    /\ send_counter' = [send_counter EXCEPT ![n] = 0]
    /\ todo' = [todo EXCEPT ![n] = {}]
    /\ UNCHANGED <<net, lost, dups>>

\* Nothing was heard from peer id for PEER_TIMEOUT_SECS.
TimePasses(n, id) ==
    /\ n \in Timeouts /\ up[n]
    /\ id \in DOMAIN pm[n].peers
    /\ pm' = [pm EXCEPT ![n].peers[id].stale = TRUE]
    /\ UNCHANGED <<up, runs, restarts, send_counter, todo, net, lost, dups>>

Lose(m) ==
    /\ lost < MaxLost /\ Faults < MaxFaults /\ lost' = lost + 1
    /\ net' = net \ {m}
    /\ UNCHANGED <<up, runs, restarts, pm, send_counter, todo, dups>>

\* A packet to an address where nobody listens.
Vanish(m) ==
    /\ m.dst \in Nodes => ~ up[m.dst]
    /\ net' = net \ {m}
    /\ UNCHANGED <<up, runs, restarts, pm, send_counter, todo, lost, dups>>

-----------------------------------------------------------------------------
Init ==
    /\ up = [n \in Nodes |-> n = Host]
    /\ runs = [n \in Nodes |-> 1] /\ restarts = 0
    /\ pm = [n \in Nodes |-> IF n = Host THEN NewHost(1) ELSE NewJoiner]
    /\ send_counter = [n \in Nodes |-> 0]
    /\ todo = [n \in Nodes |-> {}]
    /\ net = {}
    /\ lost = 0 /\ dups = 0

NodeStep(n) ==
    \/ Start(n)
    \/ Stop(n)
    \/ KeepaliveTick(n)
    \/ PingTick(n)
    \/ \E m \in net : Receive(n, m)
    \/ \E e \in todo[n] : GreetPeer(n, e) \/ GreetFails(n, e)
    \/ \E id \in Ids : TimePasses(n, id)

Next ==
    \/ \E n \in Nodes : NodeStep(n)
    \/ \E m \in net : Lose(m) \/ Vanish(m)

Spec == Init /\ [][Next]_vars

\* The loop of Session::run polls its socket (with a timeout of 1 ms) and
\* its timers in every turn, so a running node keeps receiving, finishes the
\* handler it is in, and its ping section recurs.  Joiners do get started.
Fairness ==
    /\ \A n \in Nodes : /\ WF_vars(\E m \in net : Receive(n, m))
                        /\ WF_vars(\E e \in todo[n] :
                                      GreetPeer(n, e) \/ GreetFails(n, e))
                        /\ WF_vars(PingTick(n))
    /\ \A n \in Joiners : WF_vars(Start(n))

FairSpec == Spec /\ Fairness

-----------------------------------------------------------------------------
(* Types *)

TableOK(t) ==
    /\ DOMAIN t = {"local_id", "session_id", "peers", "addr_to_id", "is_host",
                   "next_peer_id"}
    /\ t.local_id \in Ids /\ t.session_id \in {0, 1}
    /\ t.is_host \in BOOLEAN /\ t.next_peer_id \in 0 .. MaxPeers
    /\ DOMAIN t.peers \subseteq Ids
    /\ \A id \in DOMAIN t.peers :
        t.peers[id] \in [addr : Addrs, state : States, stale : BOOLEAN,
                         kx_sent : BOOLEAN, key : Keys \cup {NoKey}]
    /\ DOMAIN t.addr_to_id \subseteq Addrs
    /\ \A a \in DOMAIN t.addr_to_id : t.addr_to_id[a] \in Ids

PacketOK(m) ==
    /\ m.from \in Ids /\ m.src \in Nodes /\ m.dst \in Addrs /\ m.sess \in {0, 1}
    /\ m.type = "PEER_LIST" =>
        /\ m.list.peers \subseteq Ids \X Addrs
        /\ m.list.peers # {}
    /\ m.type = "KEY_EXCHANGE" => m.pub \in Nodes \X (1 .. MaxRestarts + 1)

TypeOK ==
    /\ up \in [Nodes -> BOOLEAN]
    /\ runs \in [Nodes -> 1 .. MaxRestarts + 1] /\ restarts \in 0 .. MaxRestarts
    /\ DOMAIN pm = Nodes /\ \A n \in Nodes : TableOK(pm[n])
    /\ send_counter \in [Nodes -> 0 .. CounterMax]
    /\ todo \in [Nodes -> SUBSET (Ids \X Addrs)]
    /\ \A m \in net : PacketOK(m)
    /\ lost \in 0 .. MaxLost /\ dups \in 0 .. MaxDups

-----------------------------------------------------------------------------
(* Safety *)

Member(n) == pm[n].session_id # 0

\* The node that the host gave id to.
Owner(id) == IF id = 0 THEN Host ELSE pm[Host].peers[id].addr

\* No two members of the session hold the same id, although JOINs and lists
\* are lost, repeated and reordered, nodes restart, and a joiner merely takes
\* the greatest id in the list it gets for its own.
UniqueIdentity ==
    \A n, p \in Nodes : n # p /\ Member(n) /\ Member(p)
                            => pm[n].local_id # pm[p].local_id

\* Every table means the same node by an id, under an address where that node
\* listens: the host's listed LAN address never gets into a table, however
\* the entry got there (PEER_LIST, JOIN or HELLO).
AddressBook ==
    \A n \in Nodes : \A id \in DOMAIN pm[n].peers :
        /\ id # 0 => id \in DOMAIN pm[Host].peers
        /\ pm[n].peers[id].addr = Owner(id)

\* A joiner that has a peer connected is in the table of that peer: HELLO and
\* HELLO_ACK are sent only by nodes that have entered the receiver.  This
\* holds until a node restarts or a packet is repeated, whatever is lost.
ConnectedMeansKnown ==
    \A n \in Joiners, p \in Nodes :
        /\ restarts = 0 /\ dups = 0
        /\ Member(n) /\ Member(p)
        /\ pm[p].local_id \in ConnectedPeers(pm[n])
        => pm[n].local_id \in DOMAIN pm[p].peers

\* What n holds about p, and whether n would send p audio under their key.
Holds(n, p) == pm[p].local_id \in DOMAIN pm[n].peers
Entry(n, p) == pm[n].peers[pm[p].local_id]
UsesPeerKey(n, p) ==
    Holds(n, p) /\ Entry(n, p).kx_sent /\ Entry(n, p).key # NoKey

\* Two nodes that have both derived a key for each other have derived the same
\* one, whatever is lost and whichever side begins, until a node restarts
\* or a packet is repeated.
KeyAgreement ==
    \A n, p \in Nodes :
        /\ restarts = 0 /\ dups = 0
        /\ n # p /\ Holds(n, p) /\ Holds(p, n)
        /\ Entry(n, p).key # NoKey /\ Entry(p, n).key # NoKey
        => Entry(n, p).key = Entry(p, n).key

\* The host has since given the address of id, whose owner restarted, a later
\* id.
Superseded(id) ==
    LET peers == pm[Host].peers
    IN  id \in DOMAIN peers /\ \E x \in DOMAIN peers :
            x > id /\ peers[x].addr = peers[id].addr

\* What can still speak for id: a node that has it for its own, a packet that
\* carries it, or a PEER_LIST whose receiver will take it for its own.
Carried(id) ==
    \/ \E n \in Nodes : pm[n].local_id = id
    \/ \E m \in net : \/ m.from = id
                      \/ /\ m.type = "PEER_LIST"
                         /\ Max({e[1] : e \in m.list.peers}) = id

\* What keeps the entry of an earlier run of a joiner alive, once a later run
\* has a later id.  KEEPALIVE and PING, attributed by address, renew the later
\* entry only; the earlier one is renewed only by the handling of a HELLO,
\* HELLO_ACK or PONG with its id in the header.  The sender of that packet is
\* not always the earlier run: a later run that gets the PEER_LIST meant for
\* the earlier one takes the old id and renews the old entry.  But that cannot
\* begin again: once no node, packet or list carries the id, none ever will.
OldIdFades ==
    [][\A id \in Ids : Superseded(id) =>
        /\ pm[Host].peers[id].stale /\ ~ pm'[Host].peers[id].stale
            => \E m \in net : /\ m.from = id
                              /\ m.type \in {"HELLO", "HELLO_ACK", "PONG"}
                              /\ Receive(Host, m)
        /\ Carried(id)' => Carried(id)]_vars

-----------------------------------------------------------------------------
(* Liveness *)

Mutual(n, p) ==
    /\ Holds(n, p) /\ Entry(n, p).state = "Connected"
    /\ Holds(p, n) /\ Entry(p, n).state = "Connected"

\* Without loss every joiner that is started ends up connected with the host,
\* in both tables and for good.
HostReached ==
    \A j \in Joiners : <>[](Member(j) /\ Mutual(j, Host))

\* Without loss a member that is greeted ends up connected with the peer that
\* greets it, in both tables (joiners with each other, too).
GreetingConnects ==
    \A n \in Nodes : \A p \in Nodes \ {n} :
        (Member(n) /\ \E m \in net : m.type = "HELLO" /\ m.src = p /\ m.dst = n)
            ~> Mutual(n, p)

\* README.md: "New peers JOIN, receive PEER_LIST, then HELLO/HELLO_ACK with
\* every other peer."  Without any loss all participants end up connected
\* with each other.  A HELLO that reaches a joiner before its own PEER_LIST
\* does not open, and it is never sent again.
FullMesh ==
    \A n, p \in Nodes : n # p => <>[](Member(n) /\ Member(p) /\ Mutual(n, p))
=============================================================================
