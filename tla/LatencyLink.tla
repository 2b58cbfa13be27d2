----------------------------- MODULE LatencyLink ----------------------------
(***************************************************************************)
(* Node A measures the round trip to node B: the ping section of           *)
(* Session::run at A, the PING handler at B and the PONG handler at A      *)
(* (vc-core/src/lib.rs), over a network that loses, repeats, delays and    *)
(* reorders.                                                               *)
(*                                                                         *)
(* B may restart and join again, or its JOIN may arrive twice: A, the      *)
(* host, then has a further entry for B, at the same address and with a    *)
(* tracker of its own.  B takes the id of that entry when it gets the      *)
(* PEER_LIST, which may be late or never come; until then it answers under *)
(* the id it had, or, after a restart, not at all.  A PONG names B's       *)
(* present id, whichever entry's PING it answers.                          *)
(*                                                                         *)
(* The packets ever sent are kept in a set: one that is never received is  *)
(* lost, one that is received twice is repeated.  A PING that A cannot     *)
(* send (no counter left) is a lost one: it is pending all the same.       *)
(***************************************************************************)
EXTENDS LatencyTracker

CONSTANTS
    MaxId,      \* bound: JOINs of B that A handles
    TickLength, \* the clock goes on in steps of this length
    MaxTime,    \* bound on the clock
    MaxPings,   \* bound on the ids of pings
    MaxPackets  \* bound: packets sent, before B gives its last answer

ASSUME LinkAssumption ==
    /\ MaxId \in Nat \ {0} /\ TickLength \in Nat
    /\ MaxTime \in Nat /\ MaxPings \in Nat /\ MaxPackets \in Nat

Ids == 1 .. MaxId

VARIABLES
    now,        \* the clock
    given,      \* the last id A gave B: B has the entries 1 .. given
    me,         \* the id B has
    had,        \* the ids B has had: only with these it sent a HELLO
    connected,  \* the entries for B at A that are Connected
    tracker,    \* tracker[e]: latency_tracker of entry e
    net,        \* the packets sent so far
    measured,   \* history: the pings that entry e took a measurement of
    age         \* history: how long ago the PING was sent that was answered
                \* when entry e took its last measurement

vars == <<now, given, me, had, connected, tracker, net, measured, age>>

ids == <<given, me, had>>

\* "sent" is not in the packet: it is when the PING went out.
Ping(id) == [type |-> "PING", ping_id |-> id, sent |-> now]
Pong(m) == [type |-> "PONG", ping_id |-> m.ping_id, sent |-> m.sent, peer_id |-> me]

Init ==
    /\ now = 0 /\ given = 1 /\ me = 1 /\ had = {1} /\ connected = {1}
    /\ tracker = [e \in Ids |-> NewTracker]
    /\ net = {}
    /\ measured = [e \in Ids |-> {}]
    /\ age = [e \in Ids |-> 0]

\* The ping section: one PING for every entry that is Connected.
PingSection ==
    /\ connected # {}
    /\ \A e \in connected : tracker[e].next_ping_id < MaxPings
    /\ \E kept \in [connected -> UNION {Kept(tracker[e]) : e \in connected}] :
        /\ \A e \in connected : kept[e] \in Kept(tracker[e])
        /\ tracker' = [e \in Ids |->
                          IF e \in connected
                          THEN PingSent(tracker[e], kept[e], now) ELSE tracker[e]]
    /\ net' = net \cup {Ping(tracker[e].next_ping_id) : e \in connected}
    /\ UNCHANGED <<now, ids, connected, measured, age>>

\* B answers a PING.
RecvPing(m) ==
    /\ m.type = "PING" /\ Cardinality(net) < MaxPackets
    /\ net' = net \cup {Pong(m)}
    /\ UNCHANGED <<now, ids, connected, tracker, measured, age>>

\* A takes the PONG to the tracker of the id in its header.
RecvPong(m) ==
    /\ m.type = "PONG"
    /\ LET e == m.peer_id
           known == m.ping_id \in DOMAIN tracker[e].pending
       IN  /\ tracker' = [tracker EXCEPT ![e] = PongReceived(@, m.ping_id, now)]
           /\ measured' = [measured EXCEPT ![e] =
                              IF known THEN @ \cup {m.ping_id} ELSE @]
           /\ age' = [age EXCEPT ![e] = IF known THEN now - m.sent ELSE @]
    /\ UNCHANGED <<now, ids, connected, net>>

\* A handles a further JOIN of B, of a new run or a copy.
RecvJoin ==
    /\ given < MaxId
    /\ given' = given + 1
    /\ connected' = connected \cup {given + 1}
    /\ UNCHANGED <<now, me, had, tracker, net, measured, age>>

\* B takes the id of one of the PEER_LISTs that A has answered with.
RecvPeerList(e) ==
    /\ e <= given
    /\ me' = e /\ had' = had \cup {e}
    /\ UNCHANGED <<now, given, connected, tracker, net, measured, age>>

\* check_timeouts: nothing was heard of e for ten seconds.
TimeOut(e) ==
    /\ e \in connected
    /\ connected' = connected \ {e}
    /\ UNCHANGED <<now, ids, tracker, net, measured, age>>

\* A HELLO with this id arrives, perhaps late.
RecvHello(e) ==
    /\ e \in had \ connected
    /\ connected' = connected \cup {e}
    /\ UNCHANGED <<now, ids, tracker, net, measured, age>>

Tick ==
    /\ now < MaxTime
    /\ now' = now + TickLength
    /\ UNCHANGED <<ids, connected, tracker, net, measured, age>>

Next ==
    \/ PingSection
    \/ \E m \in net : RecvPing(m) \/ RecvPong(m)
    \/ RecvJoin
    \/ \E e \in Ids : RecvPeerList(e) \/ TimeOut(e) \/ RecvHello(e)
    \/ Tick

Spec == Init /\ [][Next]_vars

-----------------------------------------------------------------------------
TypeOK ==
    /\ now \in Nat /\ given \in Ids /\ me \in had /\ had \cup connected \subseteq 1 .. given
    /\ \A m \in net :
        /\ m.type \in {"PING", "PONG"} /\ m.ping_id \in Nat /\ m.sent \in 0 .. now
        /\ m.type = "PONG" => m.peer_id \in Ids
    /\ \A e \in Ids :
        LET t == tracker[e]
        IN  /\ t.next_ping_id \in Nat
            /\ DOMAIN t.pending \subseteq 0 .. t.next_ping_id - 1
            /\ \A id \in DOMAIN t.pending : t.pending[id] \in 0 .. now

\* Whatever is lost, late or repeated, the statistics of every tracker that
\* has taken a measurement fit together (LatencyTracker::pong_received).
StatsConsistent == \A e \in Ids : ConsistentStats(tracker[e].stats)

\* However many pings stay unanswered, no more than MAX_PENDING_PINGS are kept,
\* and each of them is measured at most once, however often its PONG is repeated.
EachPingOnce ==
    \A e \in Ids :
        /\ Cardinality(DOMAIN tracker[e].pending) <= MaxPendingPings
        /\ DOMAIN tracker[e].pending \cap measured[e] = {}
        /\ Cardinality(measured[e]) = tracker[e].stats.sample_count

\* A full table never costs the ping just sent: the PONG to the newest ping of
\* an entry is always measured, or has been.
NewestCounts ==
    \A e \in Ids :
        tracker[e].next_ping_id > 0 =>
            tracker[e].next_ping_id - 1 \in DOMAIN tracker[e].pending \cup measured[e]

\* Until A handles a second JOIN of B every measurement is the time since the
\* PING went out that was answered.  (Afterwards the entries number their pings
\* independently, and a PONG to a ping of one entry can be taken for one to a
\* ping of the other, also before B learns of the second entry.)
RoundTripIsTrue ==
    given = 1 => tracker[1].stats.last_rtt = age[1]
=============================================================================
