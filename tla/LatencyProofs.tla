---------------------------- MODULE LatencyProofs ---------------------------
(***************************************************************************)
(* Proofs about LatencyLink, for every size of the table of pending pings. *)
(***************************************************************************)
EXTENDS LatencyLink, FiniteSetTheorems, TLAPS

Stats == [last_rtt : Nat, min_rtt : Nat, avg_rtt : Nat, max_rtt : Nat,
          jitter : Nat, sample_count : Nat]

Pendings == UNION {[S -> Nat] : S \in SUBSET Nat}

Trackers == [pending : Pendings, next_ping_id : Nat, stats : Stats]

\* What holds of one tracker t at time n, when M are the pings it measured.
TrackerInv(t, M, n) ==
    /\ t \in Trackers
    /\ DOMAIN t.pending \subseteq 0 .. t.next_ping_id - 1
    /\ \A id \in DOMAIN t.pending : t.pending[id] <= n
    /\ Cardinality(DOMAIN t.pending) <= MaxPendingPings
    /\ M \subseteq 0 .. t.next_ping_id - 1
    /\ DOMAIN t.pending \cap M = {}
    /\ Cardinality(M) = t.stats.sample_count
    /\ t.next_ping_id > 0 => t.next_ping_id - 1 \in DOMAIN t.pending \cup M
    /\ ConsistentStats(t.stats)

\* A packet with the fields the handlers read.
PacketOK(m) ==
    /\ m.type \in {"PING", "PONG"} /\ m.ping_id \in Nat /\ m.sent \in 0 .. now
    /\ m.type = "PONG" => m.peer_id \in Ids /\ m.peer_id <= given

LatencyInv ==
    /\ now \in Nat /\ given \in Ids /\ me \in had
    /\ had \subseteq Ids /\ connected \subseteq Ids
    /\ \A e \in had \cup connected : e <= given
    /\ \A m \in net : PacketOK(m)
    /\ tracker \in [Ids -> Trackers]
    /\ measured \in [Ids -> SUBSET Nat]
    /\ age \in [Ids -> Int]
    /\ \A e \in Ids : TrackerInv(tracker[e], measured[e], now)

\* Until A handles a further JOIN all packets belong to pings of its one entry.
Answers ==
    /\ \A m \in net :
        /\ m.ping_id < tracker[1].next_ping_id
        /\ m.ping_id \in DOMAIN tracker[1].pending =>
                tracker[1].pending[m.ping_id] = m.sent
    /\ tracker[1].stats.last_rtt = age[1]

-----------------------------------------------------------------------------
(* The operators *)

\* A moving average stays between the bounds of what is averaged.
LEMMA EmaBounds ==
    ASSUME NEW old \in Nat, NEW new \in Nat, NEW lo \in Int, NEW hi \in Int,
           lo <= old, old <= hi, lo <= new, new <= hi
    PROVE  Ema(old, new) \in Nat /\ lo <= Ema(old, new) /\ Ema(old, new) <= hi
  <1> DEFINE sum == 7 * old + new
  <1>1. sum \in Nat /\ 8 * lo <= sum /\ sum <= 8 * hi
    OBVIOUS
  <1> HIDE DEF sum
  <1>2. sum \div 8 \in Nat /\ lo <= sum \div 8 /\ sum \div 8 <= hi
    BY <1>1
  <1> QED
    BY <1>2 DEF Ema, sum

LEMMA MeasureConsistent ==
    ASSUME NEW s \in Stats, NEW rtt \in Nat, ConsistentStats(s)
    PROVE  /\ Measure(s, rtt) \in Stats
           /\ ConsistentStats(Measure(s, rtt))
           /\ Measure(s, rtt).sample_count = s.sample_count + 1
           /\ Measure(s, rtt).last_rtt = rtt
  <1> DEFINE r == Measure(s, rtt)
  <1>1. /\ r.min_rtt \in Nat /\ r.max_rtt \in Nat /\ r.last_rtt = rtt
        /\ r.min_rtt <= rtt /\ rtt <= r.max_rtt
        /\ r.min_rtt <= s.min_rtt /\ s.max_rtt <= r.max_rtt
        /\ r.sample_count = s.sample_count + 1
    BY DEF Measure, Stats
  <1>2. CASE s.sample_count = 0
    BY <1>1, <1>2 DEF Measure, Stats, ConsistentStats
  <1>3. CASE s.sample_count # 0
    <2> DEFINE d == AbsDiff(rtt, s.last_rtt)
    <2>1. /\ s.min_rtt <= s.avg_rtt /\ s.avg_rtt <= s.max_rtt
          /\ s.min_rtt <= s.last_rtt /\ s.last_rtt <= s.max_rtt
          /\ s.jitter <= s.max_rtt - s.min_rtt
      BY <1>3 DEF ConsistentStats, Stats
    <2>2. r.avg_rtt = Ema(s.avg_rtt, rtt) /\ r.jitter = Ema(s.jitter, d)
      BY <1>3 DEF Measure
    <2>3. d \in Nat /\ d <= r.max_rtt - r.min_rtt
      BY <1>1, <2>1 DEF AbsDiff, Stats
    <2>4. s.jitter \in Nat /\ s.jitter <= r.max_rtt - r.min_rtt
      BY <1>1, <2>1 DEF Stats
    <2>5. s.avg_rtt \in Nat /\ r.min_rtt <= s.avg_rtt /\ s.avg_rtt <= r.max_rtt
      BY <1>1, <2>1 DEF Stats
    <2>6. /\ Ema(s.avg_rtt, rtt) \in Nat
          /\ r.min_rtt <= Ema(s.avg_rtt, rtt) /\ Ema(s.avg_rtt, rtt) <= r.max_rtt
      <3> DEFINE lo == r.min_rtt  hi == r.max_rtt
      <3>1. lo \in Int /\ hi \in Int /\ lo <= rtt /\ rtt <= hi
        BY <1>1
      <3>2. s.avg_rtt \in Nat /\ lo <= s.avg_rtt /\ s.avg_rtt <= hi
        BY <2>5
      <3> HIDE DEF lo, hi
      <3>3. /\ Ema(s.avg_rtt, rtt) \in Nat
            /\ lo <= Ema(s.avg_rtt, rtt) /\ Ema(s.avg_rtt, rtt) <= hi
        BY <3>1, <3>2, EmaBounds
      <3> QED BY <3>3 DEF lo, hi
    <2>7. /\ Ema(s.jitter, d) \in Nat
          /\ Ema(s.jitter, d) <= r.max_rtt - r.min_rtt
      <3> DEFINE hi == r.max_rtt - r.min_rtt
      <3>1. hi \in Int /\ d \in Nat /\ 0 <= d /\ d <= hi
        BY <1>1, <2>3
      <3>2. s.jitter \in Nat /\ 0 <= s.jitter /\ s.jitter <= hi
        BY <2>4
      <3> HIDE DEF hi, d
      <3>3. 0 \in Int
        OBVIOUS
      <3>4. Ema(s.jitter, d) \in Nat /\ Ema(s.jitter, d) <= hi
        BY <3>1, <3>2, <3>3, EmaBounds, Zenon
      <3> QED BY <3>4 DEF hi
    <2>8. r \in Stats
      BY <1>1, <2>2, <2>6, <2>7 DEF Measure, Stats
    <2>9. ConsistentStats(r)
      <3> HIDE DEF r
      <3> QED BY <1>1, <2>2, <2>6, <2>7 DEF ConsistentStats
    <2> QED
      BY <1>1, <2>8, <2>9
  <1> QED
    BY <1>2, <1>3

LEMMA NewTrackerInv ==
    TrackerInv(NewTracker, {}, 0)
  <1>1. NewTracker \in Trackers
    <2>1. [id \in {} |-> 0] \in [{} -> Nat]
      OBVIOUS
    <2>2. [id \in {} |-> 0] \in Pendings
      BY <2>1 DEF Pendings
    <2> QED
      BY <2>2, LatencyAssumption DEF NewTracker, Trackers, Stats
  <1>2. DOMAIN NewTracker.pending = {}
    BY DEF NewTracker
  <1>3. Cardinality({}) = 0
    BY FS_EmptySet
  <1> QED
    BY <1>1, <1>2, <1>3, LatencyAssumption
    DEF TrackerInv, NewTracker, ConsistentStats

\* Later, the same still holds.
LEMMA LaterInv ==
    ASSUME NEW t, NEW M, NEW n \in Nat, NEW k \in Nat, n <= k,
           TrackerInv(t, M, n)
    PROVE  TrackerInv(t, M, k)
  <1>1. \A id \in DOMAIN t.pending : t.pending[id] \in Nat
    BY DEF TrackerInv, Trackers, Pendings
  <1>2. \A id \in DOMAIN t.pending : t.pending[id] <= k
    BY <1>1 DEF TrackerInv
  <1> QED
    BY <1>2 DEF TrackerInv

LEMMA EarlierPings ==
    ASSUME NEW k \in Nat
    PROVE  IsFiniteSet(0 .. k - 1)
  <1>1. 0 \in Int /\ k - 1 \in Int
    OBVIOUS
  <1> QED
    BY <1>1, FS_Interval, ZenonT(30)

LEMMA PingSentInv ==
    ASSUME NEW t, NEW M, NEW n \in Nat, TrackerInv(t, M, n), NEW kept \in Kept(t)
    PROVE  /\ TrackerInv(PingSent(t, kept, n), M, n)
           /\ kept \subseteq DOMAIN t.pending
  <1> DEFINE id == t.next_ping_id
             p == [i \in kept \cup {id} |-> IF i = id THEN n ELSE t.pending[i]]
             u == PingSent(t, kept, n)
  <1>1. t \in Trackers /\ id \in Nat /\ DOMAIN t.pending \subseteq 0 .. id - 1
    BY DEF TrackerInv, Trackers
  <1>2. kept \subseteq DOMAIN t.pending
    BY DEF Kept
  <1>3. \A i \in DOMAIN t.pending : t.pending[i] \in Nat
    BY <1>1 DEF Trackers, Pendings
  <1>4. /\ u.pending = p /\ u.next_ping_id = id + 1 /\ u.stats = t.stats
        /\ u = [pending |-> p, next_ping_id |-> id + 1, stats |-> t.stats]
    <2>1. u = [t EXCEPT !.next_ping_id = id + 1, !.pending = p]
      BY DEF PingSent
    <2> HIDE DEF p, u
    <2> QED
      BY <1>1, <2>1 DEF Trackers
  <1>5. u \in Trackers
    <2>1. p \in [kept \cup {id} -> Nat] /\ kept \cup {id} \in SUBSET Nat
      BY <1>1, <1>2, <1>3
    <2>2. p \in Pendings
      BY <2>1 DEF Pendings
    <2> QED
      BY <1>1, <1>4, <2>2 DEF Trackers
  <1>6. DOMAIN p = kept \cup {id} /\ DOMAIN p \subseteq 0 .. id
    BY <1>1, <1>2
  <1>7. \A i \in DOMAIN p : p[i] <= n
    BY <1>2, <1>6 DEF TrackerInv
  <1>8. Cardinality(DOMAIN p) <= MaxPendingPings
    <2>1. IsFiniteSet(0 .. id - 1)
      BY <1>1, EarlierPings
    <2>2. IsFiniteSet(DOMAIN t.pending)
      BY <1>1, <2>1, FS_Subset
    <2>3. /\ IsFiniteSet(kept) /\ Cardinality(kept) \in Nat
          /\ Cardinality(DOMAIN t.pending) \in Nat
          /\ Cardinality(kept) <= Cardinality(DOMAIN t.pending)
      BY <1>2, <2>2, FS_Subset, FS_CardinalityType
    <2>4. Cardinality(DOMAIN t.pending) <= MaxPendingPings
      BY DEF TrackerInv
    <2>5. Cardinality(kept) + 1 <= MaxPendingPings
      <3>1. CASE Cardinality(DOMAIN t.pending) >= MaxPendingPings
        <4>1. PICK j \in DOMAIN t.pending : kept = DOMAIN t.pending \ {j}
          BY <3>1 DEF Kept
        <4>2. Cardinality(kept) = Cardinality(DOMAIN t.pending) - 1
          BY <2>2, <4>1, FS_RemoveElement
        <4> QED
          BY <2>3, <2>4, <4>2, LatencyAssumption
      <3>2. CASE ~ (Cardinality(DOMAIN t.pending) >= MaxPendingPings)
        BY <2>3, <3>2, LatencyAssumption DEF Kept
      <3> QED BY <3>1, <3>2
    <2>6. id \notin kept
      BY <1>1, <1>2
    <2>7. Cardinality(kept \cup {id}) = Cardinality(kept) + 1
      BY <2>3, <2>6, FS_AddElement
    <2> QED
      BY <1>6, <2>5, <2>7
  <1>9. M \subseteq 0 .. id - 1 /\ DOMAIN p \cap M = {}
    BY <1>1, <1>2, <1>6 DEF TrackerInv
  <1>10. M \subseteq 0 .. (id + 1) - 1 /\ DOMAIN p \subseteq 0 .. (id + 1) - 1
    BY <1>1, <1>6, <1>9
  <1>11. (id + 1) - 1 \in DOMAIN p
    BY <1>1, <1>6
  <1>12. Cardinality(M) = t.stats.sample_count /\ ConsistentStats(t.stats)
    BY DEF TrackerInv
  <1> HIDE DEF p, u, id
  <1>13. TrackerInv(u, M, n)
    BY <1>4, <1>5, <1>7, <1>8, <1>9, <1>10, <1>11, <1>12 DEF TrackerInv
  <1> QED
    BY <1>2, <1>13 DEF u

LEMMA PongReceivedInv ==
    ASSUME NEW t, NEW M, NEW n \in Nat, TrackerInv(t, M, n),
           NEW id \in DOMAIN t.pending
    PROVE  /\ TrackerInv(PongReceived(t, id, n), M \cup {id}, n)
           /\ PongReceived(t, id, n).stats.last_rtt = n - t.pending[id]
  <1> DEFINE p == [i \in DOMAIN t.pending \ {id} |-> t.pending[i]]
             rtt == n - t.pending[id]
             u == PongReceived(t, id, n)
  <1>1. /\ t \in Trackers /\ t.next_ping_id \in Nat /\ t.stats \in Stats
        /\ DOMAIN t.pending \subseteq 0 .. t.next_ping_id - 1
        /\ DOMAIN t.pending \subseteq Nat
    BY DEF TrackerInv, Trackers, Pendings
  <1>2. \A i \in DOMAIN t.pending : t.pending[i] \in Nat
    BY <1>1 DEF Trackers, Pendings
  <1>3. rtt \in Nat
    BY <1>2 DEF TrackerInv
  <1>4. /\ u.pending = p /\ u.next_ping_id = t.next_ping_id
        /\ u.stats = Measure(t.stats, rtt)
        /\ u = [pending |-> p, next_ping_id |-> t.next_ping_id,
                stats |-> Measure(t.stats, rtt)]
    BY <1>1 DEF PongReceived, Trackers
  <1>5. /\ Measure(t.stats, rtt) \in Stats /\ ConsistentStats(Measure(t.stats, rtt))
        /\ Measure(t.stats, rtt).sample_count = t.stats.sample_count + 1
        /\ Measure(t.stats, rtt).last_rtt = rtt
    BY <1>1, <1>3, MeasureConsistent DEF TrackerInv
  <1>6. u \in Trackers
    <2>1. p \in [DOMAIN t.pending \ {id} -> Nat]
      BY <1>2
    <2>2. p \in Pendings
      BY <1>1, <2>1 DEF Pendings
    <2> QED
      BY <1>1, <1>4, <1>5, <2>2 DEF Trackers
  <1>7. DOMAIN p = DOMAIN t.pending \ {id}
    OBVIOUS
  <1>8. \A i \in DOMAIN p : p[i] <= n
    BY DEF TrackerInv
  <1>9. /\ Cardinality(DOMAIN p) <= MaxPendingPings
        /\ Cardinality(M \cup {id}) = t.stats.sample_count + 1
    <2>1. IsFiniteSet(0 .. t.next_ping_id - 1)
      BY <1>1, EarlierPings
    <2>2. IsFiniteSet(DOMAIN t.pending) /\ IsFiniteSet(M)
      BY <1>1, <2>1, FS_Subset DEF TrackerInv
    <2>3. /\ Cardinality(DOMAIN p) = Cardinality(DOMAIN t.pending) - 1
          /\ Cardinality(DOMAIN t.pending) \in Nat
      BY <1>7, <2>2, FS_RemoveElement, FS_CardinalityType
    <2>4. id \notin M
      BY DEF TrackerInv
    <2>5. Cardinality(M \cup {id}) = Cardinality(M) + 1
      BY <2>2, <2>4, FS_AddElement
    <2> QED
      BY <2>3, <2>5, LatencyAssumption DEF TrackerInv
  <1>10. /\ M \cup {id} \subseteq 0 .. t.next_ping_id - 1
         /\ DOMAIN p \subseteq 0 .. t.next_ping_id - 1
         /\ DOMAIN p \cap (M \cup {id}) = {}
         /\ t.next_ping_id > 0 =>
                t.next_ping_id - 1 \in DOMAIN p \cup (M \cup {id})
    BY <1>1, <1>7 DEF TrackerInv
  <1> HIDE DEF p, u, rtt
  <1>11. TrackerInv(u, M \cup {id}, n)
    BY <1>4, <1>5, <1>6, <1>8, <1>9, <1>10 DEF TrackerInv
  <1> QED
    BY <1>4, <1>5, <1>11 DEF u, rtt

-----------------------------------------------------------------------------
(* The link *)

LEMMA InitLatency == Init => LatencyInv /\ Answers
  <1> SUFFICES ASSUME Init PROVE LatencyInv /\ Answers
    OBVIOUS
  <1>1. 1 \in Ids
    BY LinkAssumption DEF Ids
  <1>2. NewTracker \in Trackers
    BY NewTrackerInv DEF TrackerInv
  <1>3. \A e \in Ids : tracker[e] = NewTracker /\ measured[e] = {}
    BY DEF Init
  <1>4. \A e \in Ids : TrackerInv(tracker[e], measured[e], now)
    BY <1>3, NewTrackerInv DEF Init
  <1>5. LatencyInv
    BY <1>1, <1>2, <1>4 DEF Init, LatencyInv, Ids
  <1>6. Answers
    BY <1>1, <1>3 DEF Init, Answers, NewTracker
  <1> QED
    BY <1>5, <1>6

\* The trackers after the ping section.
LEMMA PingSectionTrackers ==
    ASSUME LatencyInv, PingSection
    PROVE  /\ tracker' \in [Ids -> Trackers]
           /\ \A e \in Ids : TrackerInv(tracker'[e], measured[e], now)
           /\ \A e \in Ids : e \notin connected => tracker'[e] = tracker[e]
           /\ \A e \in connected :
                /\ tracker'[e].next_ping_id = tracker[e].next_ping_id + 1
                /\ tracker'[e].stats = tracker[e].stats
                /\ DOMAIN tracker'[e].pending \subseteq
                        DOMAIN tracker[e].pending \cup {tracker[e].next_ping_id}
                /\ \A i \in DOMAIN tracker'[e].pending :
                        tracker'[e].pending[i] =
                            IF i = tracker[e].next_ping_id THEN now
                            ELSE tracker[e].pending[i]
  <1>1. PICK kept \in [connected -> UNION {Kept(tracker[e]) : e \in connected}] :
            /\ \A e \in connected : kept[e] \in Kept(tracker[e])
            /\ tracker' = [e \in Ids |->
                              IF e \in connected
                              THEN PingSent(tracker[e], kept[e], now) ELSE tracker[e]]
    BY DEF PingSection
  <1>2. now \in Nat /\ connected \subseteq Ids
    BY DEF LatencyInv
  <1>3. ASSUME NEW e \in connected
        PROVE  /\ TrackerInv(tracker'[e], measured[e], now)
               /\ tracker'[e] = PingSent(tracker[e], kept[e], now)
               /\ kept[e] \subseteq DOMAIN tracker[e].pending
    BY <1>1, <1>2, PingSentInv DEF LatencyInv
  <1>4. ASSUME NEW e \in Ids, e \notin connected
        PROVE  /\ TrackerInv(tracker'[e], measured[e], now)
               /\ tracker'[e] = tracker[e]
    BY <1>1, <1>4 DEF LatencyInv
  <1>5. \A e \in Ids : TrackerInv(tracker'[e], measured[e], now)
    BY <1>3, <1>4
  <1>6. tracker' \in [Ids -> Trackers]
    <2>1. \A e \in Ids : tracker'[e] \in Trackers
      BY <1>5 DEF TrackerInv
    <2>2. tracker' = [e \in Ids |-> tracker'[e]]
      BY <1>1
    <2> QED BY <2>1, <2>2
  <1>7. ASSUME NEW e \in connected
        PROVE  /\ tracker'[e].next_ping_id = tracker[e].next_ping_id + 1
               /\ tracker'[e].stats = tracker[e].stats
               /\ DOMAIN tracker'[e].pending = kept[e] \cup {tracker[e].next_ping_id}
               /\ \A i \in DOMAIN tracker'[e].pending :
                        tracker'[e].pending[i] =
                            IF i = tracker[e].next_ping_id THEN now
                            ELSE tracker[e].pending[i]
    <2> DEFINE t == tracker[e]
               p == [i \in kept[e] \cup {t.next_ping_id} |->
                        IF i = t.next_ping_id THEN now ELSE t.pending[i]]
    <2>1. t \in Trackers
      BY <1>2 DEF LatencyInv
    <2>2. tracker'[e] = [t EXCEPT !.next_ping_id = t.next_ping_id + 1, !.pending = p]
      BY <1>3 DEF PingSent
    <2>3. /\ tracker'[e].next_ping_id = t.next_ping_id + 1
          /\ tracker'[e].stats = t.stats /\ tracker'[e].pending = p
      <3> HIDE DEF p, t
      <3> QED BY <2>1, <2>2 DEF Trackers
    <2> QED
      BY <2>3
  <1> QED
    BY <1>3, <1>4, <1>5, <1>6, <1>7

\* The tracker that takes a PONG.
LEMMA RecvPongTracker ==
    ASSUME LatencyInv, NEW m \in net, RecvPong(m)
    PROVE  /\ m.peer_id \in Ids
           /\ tracker' \in [Ids -> Trackers]
           /\ measured' \in [Ids -> SUBSET Nat] /\ age' \in [Ids -> Int]
           /\ \A e \in Ids : TrackerInv(tracker'[e], measured'[e], now)
           /\ m.ping_id \notin DOMAIN tracker[m.peer_id].pending =>
                    tracker' = tracker /\ age' = age
           /\ m.ping_id \in DOMAIN tracker[m.peer_id].pending =>
                /\ tracker'[m.peer_id].stats.last_rtt =
                        now - tracker[m.peer_id].pending[m.ping_id]
                /\ age'[m.peer_id] = now - m.sent
  <1> DEFINE e == m.peer_id
             id == m.ping_id
  <1>1. /\ e \in Ids /\ id \in Nat /\ m.sent \in Nat /\ now \in Nat
        /\ tracker \in [Ids -> Trackers]
        /\ measured \in [Ids -> SUBSET Nat] /\ age \in [Ids -> Int]
        /\ \A x \in Ids : TrackerInv(tracker[x], measured[x], now)
    BY DEF LatencyInv, PacketOK, RecvPong
  <1>2. CASE id \notin DOMAIN tracker[e].pending
    <2>1. /\ tracker' = [tracker EXCEPT ![e] = tracker[e]]
          /\ measured' = [measured EXCEPT ![e] = measured[e]]
          /\ age' = [age EXCEPT ![e] = age[e]]
      BY <1>1, <1>2 DEF RecvPong, PongReceived
    <2>2. tracker' = tracker /\ measured' = measured /\ age' = age
      BY <1>1, <2>1
    <2> QED BY <1>1, <1>2, <2>2
  <1>3. CASE id \in DOMAIN tracker[e].pending
    <2>1. /\ tracker' = [tracker EXCEPT ![e] = PongReceived(tracker[e], id, now)]
          /\ measured' = [measured EXCEPT ![e] = measured[e] \cup {id}]
          /\ age' = [age EXCEPT ![e] = now - m.sent]
      BY <1>1, <1>3 DEF RecvPong
    <2>2. /\ TrackerInv(PongReceived(tracker[e], id, now), measured[e] \cup {id}, now)
          /\ PongReceived(tracker[e], id, now).stats.last_rtt =
                now - tracker[e].pending[id]
      BY <1>1, <1>3, PongReceivedInv
    <2>3. PongReceived(tracker[e], id, now) \in Trackers
      BY <2>2 DEF TrackerInv
    <2>4. /\ tracker'[e] = PongReceived(tracker[e], id, now)
          /\ measured'[e] = measured[e] \cup {id}
          /\ age'[e] = now - m.sent
          /\ \A x \in Ids \ {e} : tracker'[x] = tracker[x] /\ measured'[x] = measured[x]
      BY <1>1, <2>1
    <2>5. /\ tracker' \in [Ids -> Trackers]
          /\ measured' \in [Ids -> SUBSET Nat] /\ age' \in [Ids -> Int]
      <3>1. now - m.sent \in Int /\ measured[e] \cup {id} \in SUBSET Nat
        BY <1>1
      <3> HIDE DEF e, id
      <3> QED BY <1>1, <2>1, <2>3, <3>1
    <2>6. \A x \in Ids : TrackerInv(tracker'[x], measured'[x], now)
      BY <1>1, <2>2, <2>4
    <2> QED
      BY <1>1, <1>3, <2>2, <2>4, <2>5, <2>6
  <1> QED
    BY <1>2, <1>3

LEMMA NextLatency == LatencyInv /\ [Next]_vars => LatencyInv'
  <1> SUFFICES ASSUME LatencyInv, [Next]_vars PROVE LatencyInv'
    OBVIOUS
  <1>1. CASE PingSection
    <2>1. \A m \in net' : PacketOK(m)'
      BY <1>1 DEF PingSection, LatencyInv, PacketOK, Ping, Trackers, ids
    <2> QED
      BY <1>1, <2>1, PingSectionTrackers DEF PingSection, LatencyInv, ids
  <1>2. CASE \E m \in net : RecvPing(m)
    <2>1. PICK m \in net : RecvPing(m)
      BY <1>2
    <2>2. \A k \in net' : PacketOK(k)'
      BY <2>1 DEF RecvPing, LatencyInv, PacketOK, Pong, ids
    <2> QED
      BY <2>1, <2>2 DEF RecvPing, LatencyInv, ids
  <1>3. CASE \E m \in net : RecvPong(m)
    <2>1. PICK m \in net : RecvPong(m)
      BY <1>3
    <2>2. \A k \in net' : PacketOK(k)'
      BY <2>1 DEF RecvPong, LatencyInv, PacketOK, ids
    <2> QED
      BY <2>1, <2>2, RecvPongTracker DEF RecvPong, LatencyInv, ids
  <1>4. CASE RecvJoin
    <2>1. /\ given' \in Ids /\ connected' \subseteq Ids
          /\ \A e \in had \cup connected' : e <= given'
      BY <1>4, LinkAssumption DEF RecvJoin, LatencyInv, Ids
    <2>2. \A k \in net' : PacketOK(k)'
      BY <1>4 DEF RecvJoin, LatencyInv, PacketOK, Ids
    <2> QED
      BY <1>4, <2>1, <2>2 DEF RecvJoin, LatencyInv
  <1>5. CASE \E e \in Ids : RecvPeerList(e) \/ TimeOut(e) \/ RecvHello(e)
    <2>1. PICK e \in Ids : RecvPeerList(e) \/ TimeOut(e) \/ RecvHello(e)
      BY <1>5
    <2>2. /\ me' \in had' /\ had' \subseteq Ids /\ connected' \subseteq Ids
          /\ \A x \in had' \cup connected' : x <= given
          /\ UNCHANGED <<now, given, tracker, net, measured, age>>
      BY <2>1 DEF RecvPeerList, TimeOut, RecvHello, LatencyInv, ids
    <2> QED
      BY <2>2 DEF LatencyInv, PacketOK
  <1>6. CASE Tick
    <2>1. now \in Nat /\ now' \in Nat /\ now <= now'
      BY <1>6, LinkAssumption DEF Tick, LatencyInv
    <2>2. \A k \in net' : PacketOK(k)'
      BY <1>6, <2>1 DEF Tick, LatencyInv, PacketOK, ids
    <2>3. \A e \in Ids : TrackerInv(tracker[e], measured[e], now')
      BY <2>1, LaterInv DEF LatencyInv
    <2> QED
      BY <1>6, <2>1, <2>2, <2>3 DEF Tick, LatencyInv, ids
  <1>7. CASE UNCHANGED vars
    BY <1>7 DEF vars, LatencyInv, PacketOK
  <1> QED
    BY <1>1, <1>2, <1>3, <1>4, <1>5, <1>6, <1>7 DEF Next

LEMMA NextAnswers ==
    LatencyInv /\ LatencyInv' /\ (given = 1 => Answers) /\ [Next]_vars
        => (given' = 1 => Answers')
  <1> SUFFICES ASSUME LatencyInv, LatencyInv', given = 1 => Answers, [Next]_vars,
                      given' = 1
               PROVE  Answers'
    OBVIOUS
  <1>1. given = 1 /\ Answers /\ 1 \in Ids
    <2>1. UNCHANGED given \/ RecvJoin
      BY DEF Next, vars, PingSection, RecvPing, RecvPong, RecvPeerList, TimeOut,
             RecvHello, Tick, ids
    <2>2. given \in 1 .. MaxId
      BY DEF LatencyInv, Ids
    <2>3. ~ RecvJoin
      BY <2>2, LinkAssumption DEF RecvJoin
    <2>4. given = 1
      BY <2>1, <2>3
    <2> QED
      BY <2>4 DEF LatencyInv
  <1>2. connected \subseteq {1} /\ tracker[1] \in Trackers /\ tracker[1].next_ping_id \in Nat
    BY <1>1 DEF LatencyInv, Ids, Trackers
  <1>3. CASE PingSection
    <2>1. connected = {1}
      BY <1>2, <1>3 DEF PingSection
    <2> DEFINE next == tracker[1].next_ping_id
    <2>2. net' = net \cup {Ping(next)} /\ age' = age
      BY <1>3, <2>1 DEF PingSection
    <2>3. /\ tracker'[1].next_ping_id = next + 1
          /\ tracker'[1].stats = tracker[1].stats
          /\ DOMAIN tracker'[1].pending \subseteq DOMAIN tracker[1].pending \cup {next}
          /\ \A i \in DOMAIN tracker'[1].pending :
                tracker'[1].pending[i] =
                    IF i = next THEN now ELSE tracker[1].pending[i]
      BY <1>3, <2>1, PingSectionTrackers
    <2>4. ASSUME NEW m \in net
          PROVE  /\ m.ping_id < next + 1
                 /\ m.ping_id \in DOMAIN tracker'[1].pending =>
                        tracker'[1].pending[m.ping_id] = m.sent
      <3>1. m.ping_id < next /\ m.ping_id \in Nat /\ next \in Nat
        BY <1>1, <1>2 DEF Answers, LatencyInv, PacketOK
      <3> QED
        BY <1>1, <2>3, <3>1 DEF Answers
    <2>5. Ping(next).ping_id = next /\ Ping(next).sent = now
      BY DEF Ping
    <2> QED
      BY <1>1, <1>2, <2>2, <2>3, <2>4, <2>5 DEF Answers
  <1>4. CASE \E m \in net : RecvPing(m)
    BY <1>1, <1>4 DEF RecvPing, Pong, Answers
  <1>5. CASE \E m \in net : RecvPong(m)
    <2>1. PICK m \in net : RecvPong(m)
      BY <1>5
    <2>2. m.peer_id = 1 /\ net' = net
      <3>1. PacketOK(m) /\ m.type = "PONG" /\ net' = net
        BY <2>1 DEF RecvPong, LatencyInv
      <3>2. m.peer_id \in 1 .. MaxId /\ m.peer_id <= 1
        BY <1>1, <3>1 DEF PacketOK, Ids
      <3> QED
        BY <3>1, <3>2, LinkAssumption
    <2>3. CASE m.ping_id \notin DOMAIN tracker[1].pending
      BY <1>1, <2>1, <2>2, <2>3, RecvPongTracker DEF Answers
    <2>4. CASE m.ping_id \in DOMAIN tracker[1].pending
      <3>1. tracker'[1].stats.last_rtt = age'[1]
        BY <1>1, <2>1, <2>2, <2>4, RecvPongTracker DEF Answers
      <3>2. tracker'[1] = PongReceived(tracker[1], m.ping_id, now)
        BY <1>1, <2>1, <2>2 DEF RecvPong, LatencyInv
      <3>3. /\ tracker'[1].next_ping_id = tracker[1].next_ping_id
            /\ tracker'[1].pending = [i \in DOMAIN tracker[1].pending \ {m.ping_id}
                                        |-> tracker[1].pending[i]]
        BY <1>2, <2>4, <3>2 DEF PongReceived, Trackers
      <3> QED
        BY <1>1, <2>2, <3>1, <3>3 DEF Answers
    <2> QED
      BY <2>3, <2>4
  <1>6. CASE UNCHANGED <<tracker, net, age>>
    BY <1>1, <1>6 DEF Answers
  <1> QED
    BY <1>3, <1>4, <1>5, <1>6
    DEF Next, vars, RecvJoin, RecvPeerList, TimeOut, RecvHello, Tick

\* LatencyInv is an invariant, and Answers is one until A handles a
\* further JOIN of B.
LEMMA LatencyInvariant == Spec => [](LatencyInv /\ (given = 1 => Answers))
  <1>1. Init => LatencyInv /\ (given = 1 => Answers)
    BY InitLatency
  <1>2. (LatencyInv /\ (given = 1 => Answers)) /\ [Next]_vars
            => (LatencyInv /\ (given = 1 => Answers))'
    BY NextLatency, NextAnswers
  <1> QED
    BY <1>1, <1>2, PTL DEF Spec

-----------------------------------------------------------------------------
(* The theorems *)

\* The state of the latency measurement keeps its types: no ping is pending
\* that was not sent, none was sent in the future.
THEOREM TypeCorrect == Spec => []TypeOK
  <1>1. LatencyInv => TypeOK
    <2> SUFFICES ASSUME LatencyInv PROVE TypeOK
      OBVIOUS
    <2>1. ASSUME NEW e \in Ids
          PROVE  /\ tracker[e].next_ping_id \in Nat
                 /\ DOMAIN tracker[e].pending \subseteq 0 .. tracker[e].next_ping_id - 1
                 /\ \A id \in DOMAIN tracker[e].pending :
                        tracker[e].pending[id] \in 0 .. now
      <3>1. TrackerInv(tracker[e], measured[e], now) /\ now \in Nat
        BY DEF LatencyInv
      <3>2. \A id \in DOMAIN tracker[e].pending : tracker[e].pending[id] \in Nat
        BY <3>1 DEF TrackerInv, Trackers, Pendings
      <3> QED
        BY <3>1, <3>2 DEF TrackerInv, Trackers
    <2>2. had \cup connected \subseteq 1 .. given
      BY DEF LatencyInv, Ids
    <2> QED
      BY <2>1, <2>2 DEF LatencyInv, PacketOK, TypeOK
  <1> QED
    BY <1>1, LatencyInvariant, PTL

\* Whatever the network does, min <= avg <= max, min <= last <= max, and the
\* jitter is at most max - min, in every tracker that has measured anything
\* (LatencyTracker::pong_received).
THEOREM StatsCorrect == Spec => []StatsConsistent
  <1>1. LatencyInv => StatsConsistent
    BY DEF LatencyInv, TrackerInv, StatsConsistent
  <1> QED
    BY <1>1, LatencyInvariant, PTL

\* The table of pending pings keeps its limit, and a ping is measured at most
\* once (the eviction of ping_sent, the removal of pong_received).
THEOREM OnceCorrect == Spec => []EachPingOnce
  <1>1. LatencyInv => EachPingOnce
    BY DEF LatencyInv, TrackerInv, EachPingOnce
  <1> QED
    BY <1>1, LatencyInvariant, PTL

\* The newest ping is never the one that is evicted (ping_sent).
THEOREM NewestCorrect == Spec => []NewestCounts
  <1>1. LatencyInv => NewestCounts
    BY DEF LatencyInv, TrackerInv, NewestCounts
  <1> QED
    BY <1>1, LatencyInvariant, PTL

\* Until the host handles a second JOIN of the peer, what is measured is the
\* round trip of the ping that was answered (ping_sent and pong_received).
THEOREM RoundTripCorrect == Spec => []RoundTripIsTrue
  <1>1. (given = 1 => Answers) => RoundTripIsTrue
    BY DEF Answers, RoundTripIsTrue
  <1> QED
    BY <1>1, LatencyInvariant, PTL
=============================================================================
