---------------------------- MODULE JitterBuffer ----------------------------
(***************************************************************************)
(* The adaptive jitter buffer of one peer, vc-core/src/jitter.rs, as       *)
(* operators on a record with the fields of the struct.  A frame is        *)
(* [seq_num, pcm]; the audio is abstracted to the index of the frame in    *)
(* the sender's stream.  Sequence numbers are modulo SeqCount (2^16), and  *)
(* times are counted in periods of the adaptation (half a second), up to   *)
(* the holdoff: larger values are only compared with it.                   *)
(***************************************************************************)
EXTENDS Integers, SequencesExt

CONSTANTS
    SeqCount,       \* number of sequence numbers (2^16)
    MaxDepth,       \* MAX_DEPTH
    MinPackets,     \* packets needed before the depth is adapted (100)
    Increase,       \* INCREASE_THRESHOLD in thousandths (20)
    Decrease,       \* DECREASE_THRESHOLD in thousandths (1)
    Holdoff         \* DECREASE_HOLDOFF_SECS in periods

ASSUME JitterAssumption ==
    /\ SeqCount \in Nat /\ MaxDepth \in Nat \ {0}
    /\ 4 * MaxDepth < SeqCount
    /\ MinPackets \in Nat \ {0} /\ Holdoff \in Nat
    /\ Increase \in Nat /\ Decrease \in Nat

NoSeq == -1                         \* next_playout_seq = None
Half == (SeqCount - 1) \div 2         \* u16::MAX / 2

\* a.wrapping_sub(b)
WrappingSub(a, b) == (a - b) % SeqCount

NewBuffer ==
    [frames |-> <<>>, target_depth |-> 1, next_playout_seq |-> NoSeq,
     total_packets |-> 0, late_packets |-> 0, time_since_decrease |-> 0]

\* The frame should have been played already.
IsLate(jb, seq) ==
    /\ jb.next_playout_seq # NoSeq
    /\ WrappingSub(seq, jb.next_playout_seq) > Half

\* A plausible mistake: the order does not wrap.
MutantInsertPos(frames, seq) ==
    LET after == SelectInSeq(frames, LAMBDA f : f.seq_num > seq)
    IN  IF after = 0 THEN Len(frames) + 1 ELSE after

\* The place of a frame in the sorted buffer: before the first frame whose
\* number lies less than half the numbers ahead.
InsertPos(frames, seq) ==
    LET after == SelectInSeq(frames, LAMBDA f :
                                WrappingSub(f.seq_num, seq) \in 1 .. Half - 1)
    IN  IF after = 0 THEN Len(frames) + 1 ELSE after

HasFrame(frames, seq) == \E i \in DOMAIN frames : frames[i].seq_num = seq

\* A plausible mistake: the buffer has no limit.
MutantKeeps(jb, seq) == ~ IsLate(jb, seq) /\ ~ HasFrame(jb.frames, seq)

\* push stores the frame: it is not late, not a duplicate, and there is room.
Keeps(jb, seq) ==
    /\ ~ IsLate(jb, seq)
    /\ ~ HasFrame(jb.frames, seq)
    /\ Len(jb.frames) < 2 * MaxDepth

Push(jb, seq, pcm) ==
    [jb EXCEPT
        !.total_packets = @ + 1,
        !.late_packets = IF IsLate(jb, seq) THEN @ + 1 ELSE @,
        !.frames = IF Keeps(jb, seq)
                   THEN InsertAt(@, InsertPos(@, seq),
                                 [seq_num |-> seq, pcm |-> pcm])
                   ELSE @]

\* pop gets past its early returns: there is a frame, and before the first
\* playout as many as the target depth.
Plays(jb) ==
    /\ jb.frames # <<>>
    /\ jb.next_playout_seq = NoSeq => Len(jb.frames) >= jb.target_depth

\* A plausible mistake: a gap is skipped, the oldest frame is played at once.
MutantExpected(jb) == jb.frames[1].seq_num

\* The sequence number that pop then looks for.
Expected(jb) ==
    IF jb.next_playout_seq = NoSeq THEN jb.frames[1].seq_num
    ELSE jb.next_playout_seq

\* pop returns a frame; otherwise None, and the decoder conceals the loss.
Pops(jb) == Plays(jb) /\ HasFrame(jb.frames, Expected(jb))

PopIndex(jb) == SelectInSeq(jb.frames, LAMBDA f : f.seq_num = Expected(jb))

\* A plausible mistake: a missing frame does not advance the playout.
MutantPop(jb) ==
    IF ~ Pops(jb) THEN jb
    ELSE [jb EXCEPT !.next_playout_seq = (Expected(jb) + 1) % SeqCount,
                    !.frames = RemoveAt(@, PopIndex(jb))]

\* The buffer after pop.  The expected number advances whether or not its
\* frame is there, but not while the buffer is empty.
Pop(jb) ==
    IF ~ Plays(jb) THEN jb
    ELSE [jb EXCEPT !.next_playout_seq = (Expected(jb) + 1) % SeqCount,
                    !.frames = IF Pops(jb) THEN RemoveAt(@, PopIndex(jb)) ELSE @]

\* late_packets / total_packets compared with a threshold.
LossAbove(jb, t) == jb.late_packets * 1000 > jb.total_packets * t
LossBelow(jb, t) == jb.late_packets * 1000 < jb.total_packets * t

Elapsed(jb) == IF jb.time_since_decrease < Holdoff
               THEN jb.time_since_decrease + 1 ELSE Holdoff

Increases(jb) ==
    /\ jb.total_packets >= MinPackets
    /\ LossAbove(jb, Increase) /\ jb.target_depth < MaxDepth

Decreases(jb) ==
    /\ jb.total_packets >= MinPackets
    /\ ~ Increases(jb)
    /\ LossBelow(jb, Decrease) /\ jb.target_depth > 1
    /\ Elapsed(jb) >= Holdoff

\* adapt, one period after the previous call.
Adapt(jb) ==
    IF Increases(jb)
    THEN [jb EXCEPT !.target_depth = @ + 1, !.time_since_decrease = Elapsed(jb),
                    !.total_packets = 0, !.late_packets = 0]
    ELSE IF Decreases(jb)
    THEN [jb EXCEPT !.target_depth = @ - 1, !.time_since_decrease = 0,
                    !.total_packets = 0, !.late_packets = 0]
    ELSE [jb EXCEPT !.time_since_decrease = Elapsed(jb)]
=============================================================================
