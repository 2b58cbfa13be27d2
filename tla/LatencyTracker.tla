--------------------------- MODULE LatencyTracker ---------------------------
(***************************************************************************)
(* The round-trip statistics of one peer, vc-core/src/latency.rs.  A       *)
(* LatencyTracker is a record; pending is a function from ping ids to the  *)
(* times they were sent at.  Times are in ticks (microseconds in the       *)
(* code).  next_ping_id wraps at 2^32, which at one ping every two seconds *)
(* takes 272 years: it is a natural number here.  The code computes the    *)
(* averages in f64 and truncates; for round trips below 2^50 microseconds  *)
(* this is the integer division of Ema.                                    *)
(***************************************************************************)
EXTENDS Integers, FiniteSets

CONSTANTS
    MaxPendingPings,    \* MAX_PENDING_PINGS
    MaxU64              \* u64::MAX, the minimum before the first measurement

ASSUME LatencyAssumption ==
    MaxPendingPings \in Nat \ {0} /\ MaxU64 \in Nat

\* LatencyTracker::new
NewTracker ==
    [pending |-> [id \in {} |-> 0], next_ping_id |-> 0,
     stats |-> [last_rtt |-> 0, min_rtt |-> MaxU64, avg_rtt |-> 0,
                max_rtt |-> 0, jitter |-> 0, sample_count |-> 0]]

\* The sets of pings that ping_sent may keep: a full table loses one of them,
\* whichever comes first in the order of the HashMap.
Kept(t) ==
    IF Cardinality(DOMAIN t.pending) >= MaxPendingPings
    THEN {DOMAIN t.pending \ {id} : id \in DOMAIN t.pending}
    ELSE {DOMAIN t.pending}

\* A plausible mistake: next_ping_id stays as it is.
MutantPingSentSameId(t, kept, now) ==
    LET id == t.next_ping_id
    IN  [t EXCEPT !.pending = [i \in kept \cup {id} |->
                                  IF i = id THEN now ELSE t.pending[i]]]

\* A plausible mistake: room is made after the insertion.
MutantPingSentFirst(t, kept, now) ==
    [t EXCEPT !.next_ping_id = @ + 1,
              !.pending = IF kept = DOMAIN t.pending
                          THEN [i \in kept \cup {t.next_ping_id} |->
                                  IF i = t.next_ping_id THEN now ELSE @[i]]
                          ELSE @]

\* ping_sent, at time now; the id of the ping is t.next_ping_id.
PingSent(t, kept, now) ==
    LET id == t.next_ping_id
    IN  [t EXCEPT !.next_ping_id = id + 1,
                  !.pending = [i \in kept \cup {id} |->
                                  IF i = id THEN now ELSE t.pending[i]]]

\* A plausible mistake: the weights of the average do not add up to one.
MutantEma(old, new) == (8 * old + new) \div 8

\* The exponential moving average with alpha = 1/8.
Ema(old, new) == (7 * old + new) \div 8

AbsDiff(a, b) == IF a < b THEN b - a ELSE a - b

\* The statistics after one more measurement.  The code keeps the previous
\* round trip a second time, as last_rtt: f64.
Measure(s, rtt) ==
    [last_rtt |-> rtt,
     sample_count |-> s.sample_count + 1,
     min_rtt |-> IF rtt < s.min_rtt THEN rtt ELSE s.min_rtt,
     max_rtt |-> IF rtt > s.max_rtt THEN rtt ELSE s.max_rtt,
     avg_rtt |-> IF s.sample_count = 0 THEN rtt ELSE Ema(s.avg_rtt, rtt),
     jitter |-> IF s.sample_count = 0 THEN 0
                ELSE Ema(s.jitter, AbsDiff(rtt, s.last_rtt))]

\* A plausible mistake: the ping stays pending.
MutantPongReceived(t, id, now) ==
    IF id \notin DOMAIN t.pending THEN t
    ELSE [t EXCEPT !.stats = Measure(@, now - t.pending[id])]

\* A plausible mistake: one send time is kept, that of the last ping.
MutantPongOfLast(t, id, now) ==
    IF id \notin DOMAIN t.pending THEN t
    ELSE LET last == CHOOSE i \in DOMAIN t.pending :
                        \A j \in DOMAIN t.pending : j <= i
         IN  [t EXCEPT !.stats = Measure(@, now - t.pending[last]),
                       !.pending = [i \in DOMAIN @ \ {id} |-> @[i]]]

\* pong_received: a pong to an unknown ping changes nothing.
PongReceived(t, id, now) ==
    IF id \notin DOMAIN t.pending THEN t
    ELSE [t EXCEPT !.stats = Measure(@, now - t.pending[id]),
                   !.pending = [i \in DOMAIN @ \ {id} |-> @[i]]]

-----------------------------------------------------------------------------
\* The numbers the user interfaces show fit together.
ConsistentStats(s) ==
    s.sample_count > 0 =>
        /\ s.min_rtt <= s.avg_rtt /\ s.avg_rtt <= s.max_rtt
        /\ s.min_rtt <= s.last_rtt /\ s.last_rtt <= s.max_rtt
        /\ s.jitter <= s.max_rtt - s.min_rtt
=============================================================================
