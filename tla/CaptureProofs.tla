--------------------------- MODULE CaptureProofs ----------------------------
(***************************************************************************)
(* For every frame and block size, every capacity of the rings and every   *)
(* behaviour of the devices, the user and the codec: no sample is lost     *)
(* track of or used twice, samples stay in order while suppression is not  *)
(* switched in the middle of a block, and the gate follows the controls.   *)
(***************************************************************************)
EXTENDS CapturePipeline, SequenceTheorems, FiniteSetTheorems, TLAPS

USE CaptureAssumption

(* Sequences of samples: their elements, order and parts *)

Samples == Seq(Nat)

\* No sample twice.
Distinct(s) == \A i, j \in 1 .. Len(s) : s[i] = s[j] => i = j

Increasing(s) == \A i, j \in 1 .. Len(s) : i < j => s[i] < s[j]

\* Elements of a sequence by their positions.
LEMMA Positions ==
    ASSUME NEW s \in Samples
    PROVE  /\ Len(s) \in Nat /\ \A i \in 1 .. Len(s) : s[i] \in Nat
           /\ ToSet(s) = {s[i] : i \in 1 .. Len(s)}
           /\ ToSet(s) \subseteq Nat
  BY DEF Samples, ToSet

\* The positions of a concatenation.
LEMMA ConcatPositions ==
    ASSUME NEW s \in Samples, NEW t \in Samples
    PROVE  /\ s \o t \in Samples /\ Len(s \o t) = Len(s) + Len(t)
           /\ \A i \in 1 .. Len(s) : (s \o t)[i] = s[i]
           /\ \A i \in 1 .. Len(t) : (s \o t)[Len(s) + i] = t[i]
           /\ \A i \in 1 .. Len(s \o t) :
                \/ i \in 1 .. Len(s) /\ (s \o t)[i] = s[i]
                \/ /\ i > Len(s) /\ i - Len(s) \in 1 .. Len(t)
                   /\ (s \o t)[i] = t[i - Len(s)]
<1>1. /\ s \o t \in Seq(Nat) /\ Len(s \o t) = Len(s) + Len(t)
      /\ \A i \in 1 .. Len(s) + Len(t) :
            (s \o t)[i] = IF i <= Len(s) THEN s[i] ELSE t[i - Len(s)]
  BY ConcatProperties DEF Samples
<1>2. Len(s) \in Nat /\ Len(t) \in Nat
  BY Positions
<1>3. \A i \in 1 .. Len(s) : i \in 1 .. Len(s) + Len(t) /\ i <= Len(s)
  BY <1>2
<1>4. \A i \in 1 .. Len(t) : /\ Len(s) + i \in 1 .. Len(s) + Len(t)
                             /\ ~ (Len(s) + i <= Len(s))
                             /\ (Len(s) + i) - Len(s) = i
  BY <1>2
<1>5. \A i \in 1 .. Len(s) + Len(t) :
        \/ i \in 1 .. Len(s) /\ i <= Len(s)
        \/ i > Len(s) /\ i - Len(s) \in 1 .. Len(t) /\ ~ (i <= Len(s))
  BY <1>2
<1>6. QED
  BY <1>1, <1>3, <1>4, <1>5 DEF Samples

LEMMA ConcatElements ==
    ASSUME NEW s \in Samples, NEW t \in Samples
    PROVE  ToSet(s \o t) = ToSet(s) \cup ToSet(t)
<1>0. /\ s \o t \in Samples /\ Len(s) \in Nat /\ Len(t) \in Nat
      /\ Len(s \o t) = Len(s) + Len(t)
  BY ConcatPositions, Positions
<1>1. \A i \in 1 .. Len(s) : s[i] \in ToSet(s)
  BY Positions
<1>2. \A i \in 1 .. Len(t) : t[i] \in ToSet(t)
  BY Positions
<1>3. \A i \in 1 .. Len(s \o t) : (s \o t)[i] \in ToSet(s \o t)
  BY <1>0, Positions
<1>4. ASSUME NEW x \in ToSet(s \o t)
      PROVE  x \in ToSet(s) \cup ToSet(t)
  <2>1. PICK i \in 1 .. Len(s \o t) : x = (s \o t)[i]
    <3>1. ToSet(s \o t) = {(s \o t)[i] : i \in 1 .. Len(s \o t)}
      BY <1>0, Positions
    <3>2. QED
      BY <3>1
  <2>2. \/ i \in 1 .. Len(s) /\ x = s[i]
        \/ i - Len(s) \in 1 .. Len(t) /\ x = t[i - Len(s)]
    <3>1. \A k \in 1 .. Len(s \o t) :
            \/ k \in 1 .. Len(s) /\ (s \o t)[k] = s[k]
            \/ /\ k > Len(s) /\ k - Len(s) \in 1 .. Len(t)
               /\ (s \o t)[k] = t[k - Len(s)]
      BY ConcatPositions
    <3>2. QED
      BY <2>1, <3>1
  <2>3. QED
    BY <1>1, <1>2, <2>2
<1>5. ASSUME NEW x \in ToSet(s)
      PROVE  x \in ToSet(s \o t)
  <2>1. PICK i \in 1 .. Len(s) : x = s[i]
    BY Positions
  <2>2. i \in 1 .. Len(s \o t)
    BY <1>0
  <2>3. (s \o t)[i] = x
    BY <2>1, ConcatPositions
  <2>4. QED
    BY <1>3, <2>2, <2>3
<1>6. ASSUME NEW x \in ToSet(t)
      PROVE  x \in ToSet(s \o t)
  <2>1. PICK i \in 1 .. Len(t) : x = t[i]
    BY Positions
  <2>2. Len(s) + i \in 1 .. Len(s \o t)
    BY <1>0
  <2>3. (s \o t)[Len(s) + i] = x
    BY <2>1, ConcatPositions
  <2>4. QED
    BY <1>3, <2>2, <2>3
<1>7. QED
  BY <1>4, <1>5, <1>6

\* A concatenation has no sample twice if neither part has and they share none.
LEMMA ConcatDistinct ==
    ASSUME NEW s \in Samples, NEW t \in Samples
    PROVE  Distinct(s \o t) <=>
                /\ Distinct(s) /\ Distinct(t)
                /\ ToSet(s) \cap ToSet(t) = {}
<1>0. Len(s) \in Nat /\ Len(t) \in Nat /\ s \o t \in Samples
      /\ Len(s \o t) = Len(s) + Len(t)
  BY ConcatPositions, Positions
<1>1. \A i \in 1 .. Len(s) : (s \o t)[i] = s[i] /\ i \in 1 .. Len(s \o t)
  BY <1>0, ConcatPositions
<1>2. \A i \in 1 .. Len(t) : /\ (s \o t)[Len(s) + i] = t[i]
                             /\ Len(s) + i \in 1 .. Len(s \o t)
  BY <1>0, ConcatPositions
<1>3. ASSUME Distinct(s \o t)
      PROVE  Distinct(s) /\ Distinct(t) /\ ToSet(s) \cap ToSet(t) = {}
  <2>1. Distinct(s)
    BY <1>1, <1>3 DEF Distinct
  <2>2. Distinct(t)
    BY <1>0, <1>2, <1>3 DEF Distinct
  <2>3. ASSUME NEW x \in ToSet(s) \cap ToSet(t)
        PROVE  FALSE
    <3>1. PICK i \in 1 .. Len(s) : x = s[i]
      BY Positions
    <3>2. PICK j \in 1 .. Len(t) : x = t[j]
      BY Positions
    <3>3. i = Len(s) + j
      BY <1>1, <1>2, <1>3, <3>1, <3>2 DEF Distinct
    <3>4. QED
      BY <1>0, <3>3
  <2>4. QED
    BY <2>1, <2>2, <2>3
<1>4. ASSUME Distinct(s), Distinct(t), ToSet(s) \cap ToSet(t) = {},
             NEW i \in 1 .. Len(s \o t), NEW j \in 1 .. Len(s \o t),
             (s \o t)[i] = (s \o t)[j]
      PROVE  i = j
  <2>1. \A k \in 1 .. Len(s) : s[k] \in ToSet(s)
    BY Positions
  <2>2. \A k \in 1 .. Len(t) : t[k] \in ToSet(t)
    BY Positions
  <2>3. CASE i \in 1 .. Len(s) /\ j \in 1 .. Len(s)
    BY <1>1, <1>4, <2>3 DEF Distinct
  <2>4. CASE i - Len(s) \in 1 .. Len(t) /\ j - Len(s) \in 1 .. Len(t)
             /\ (s \o t)[i] = t[i - Len(s)] /\ (s \o t)[j] = t[j - Len(s)]
    <3>1. i - Len(s) = j - Len(s)
      BY <1>4, <2>4 DEF Distinct
    <3>2. QED
      BY <1>0, <3>1
  <2>5. QED
    BY <1>4, <2>1, <2>2, <2>3, <2>4, ConcatPositions
<1>5. QED
  BY <1>3, <1>4 DEF Distinct

\* A concatenation is in order if both parts are and one comes after the other.
LEMMA ConcatIncreasing ==
    ASSUME NEW s \in Samples, NEW t \in Samples
    PROVE  Increasing(s \o t) <=>
                /\ Increasing(s) /\ Increasing(t)
                /\ \A x \in ToSet(s), y \in ToSet(t) : x < y
<1>0. Len(s) \in Nat /\ Len(t) \in Nat /\ s \o t \in Samples
      /\ Len(s \o t) = Len(s) + Len(t)
  BY ConcatPositions, Positions
<1>1. \A i \in 1 .. Len(s) : (s \o t)[i] = s[i] /\ i \in 1 .. Len(s \o t)
  BY <1>0, ConcatPositions
<1>2. \A i \in 1 .. Len(t) : /\ (s \o t)[Len(s) + i] = t[i]
                             /\ Len(s) + i \in 1 .. Len(s \o t)
  BY <1>0, ConcatPositions
<1>3. ASSUME Increasing(s \o t)
      PROVE  /\ Increasing(s) /\ Increasing(t)
             /\ \A x \in ToSet(s), y \in ToSet(t) : x < y
  <2>1. Increasing(s)
    BY <1>1, <1>3 DEF Increasing
  <2>2. Increasing(t)
    <3> SUFFICES ASSUME NEW i \in 1 .. Len(t), NEW j \in 1 .. Len(t), i < j
                 PROVE  t[i] < t[j]
      BY DEF Increasing
    <3>1. Len(s) + i < Len(s) + j
      BY <1>0
    <3>2. QED
      BY <1>2, <1>3, <3>1 DEF Increasing
  <2>3. ASSUME NEW x \in ToSet(s), NEW y \in ToSet(t)
        PROVE  x < y
    <3>1. PICK i \in 1 .. Len(s) : x = s[i]
      BY Positions
    <3>2. PICK j \in 1 .. Len(t) : y = t[j]
      BY Positions
    <3>3. i < Len(s) + j
      BY <1>0
    <3>4. QED
      BY <1>1, <1>2, <1>3, <3>1, <3>2, <3>3 DEF Increasing
  <2>4. QED
    BY <2>1, <2>2, <2>3
<1>4. ASSUME Increasing(s), Increasing(t),
             \A x \in ToSet(s), y \in ToSet(t) : x < y,
             NEW i \in 1 .. Len(s \o t), NEW j \in 1 .. Len(s \o t), i < j
      PROVE  (s \o t)[i] < (s \o t)[j]
  <2>1. \A k \in 1 .. Len(s) : s[k] \in ToSet(s)
    BY Positions
  <2>2. \A k \in 1 .. Len(t) : t[k] \in ToSet(t)
    BY Positions
  <2>3. CASE i \in 1 .. Len(s) /\ j \in 1 .. Len(s)
    BY <1>1, <1>4, <2>3 DEF Increasing
  <2>4. CASE i - Len(s) \in 1 .. Len(t) /\ j - Len(s) \in 1 .. Len(t)
             /\ (s \o t)[i] = t[i - Len(s)] /\ (s \o t)[j] = t[j - Len(s)]
    <3>1. i - Len(s) < j - Len(s)
      BY <1>0, <1>4
    <3>2. QED
      BY <1>4, <2>4, <3>1 DEF Increasing
  <2>5. CASE i > Len(s) /\ j \in 1 .. Len(s)
    BY <1>0, <1>4, <2>5
  <2>6. QED
    BY <1>4, <2>1, <2>2, <2>3, <2>4, <2>5, ConcatPositions
<1>5. QED
  BY <1>3, <1>4 DEF Increasing

\* A sequence without repetition has as many elements as places.
LEMMA DistinctCounts ==
    ASSUME NEW s \in Samples, Distinct(s)
    PROVE  IsFiniteSet(ToSet(s)) /\ Cardinality(ToSet(s)) = Len(s)
<1>0. Len(s) \in Nat /\ ToSet(s) = {s[i] : i \in 1 .. Len(s)}
  BY Positions
<1>1. s \in [1 .. Len(s) -> ToSet(s)]
  <2>1. s \in [1 .. Len(s) -> Nat]
    BY LenProperties DEF Samples
  <2>2. QED
    BY <1>0, <2>1
<1>2. s \in Injection(1 .. Len(s), ToSet(s))
  BY <1>1 DEF Distinct, Injection, IsInjective
<1>3. s \in Surjection(1 .. Len(s), ToSet(s))
  BY <1>0, <1>1 DEF Surjection
<1>4. IsFiniteSet(1 .. Len(s)) /\ Cardinality(1 .. Len(s)) = Len(s)
  BY <1>0, FS_Interval, SMTT(30)
<1>5. QED
  BY <1>2, <1>3, <1>4, FS_Surjection

\* Taking from the front of a sequence splits it.
LEMMA Split ==
    ASSUME NEW s \in Samples, NEW n \in Nat
    PROVE  /\ Taken(s, n) \in Samples /\ Left(s, n) \in Samples
           /\ s = Taken(s, n) \o Left(s, n)
           /\ Len(Taken(s, n)) = IF Len(s) < n THEN Len(s) ELSE n
           /\ Len(Left(s, n)) = IF Len(s) < n THEN 0 ELSE Len(s) - n
<1>0. s \in Seq(Nat) /\ Len(s) \in Nat /\ \A i \in 1 .. Len(s) : s[i] \in Nat
  BY Positions DEF Samples
<1>1. CASE Len(s) < n
  <2>1. Taken(s, n) = s
    BY <1>0, <1>1, SubSeqFull DEF Taken
  <2>2. Left(s, n) = <<>>
    BY <1>0, <1>1, SubSeqEmpty DEF Left
  <2>3. <<>> \in Seq(Nat) /\ Len(<<>>) = 0 /\ s \o <<>> = s
    BY <1>0, ConcatEmptySeq
  <2>4. QED
    BY <1>0, <1>1, <2>1, <2>2, <2>3 DEF Samples
<1>2. CASE ~ (Len(s) < n)
  <2>1. Taken(s, n) = SubSeq(s, 1, n) /\ Left(s, n) = SubSeq(s, n + 1, Len(s))
    BY <1>2 DEF Taken, Left
  <2>2. SubSeq(s, 1, n) \in Seq(Nat) /\ Len(SubSeq(s, 1, n)) = n
    <3>1. \A i \in 1 .. n : s[i] \in Nat
      BY <1>0, <1>2
    <3>2. /\ SubSeq(s, 1, n) \in Seq(Nat)
          /\ Len(SubSeq(s, 1, n)) = IF 1 <= n THEN n - 1 + 1 ELSE 0
      BY <3>1, SubSeqProperties
    <3>3. QED
      BY <3>2
  <2>3. /\ SubSeq(s, n + 1, Len(s)) \in Seq(Nat)
        /\ Len(SubSeq(s, n + 1, Len(s))) = Len(s) - n
    <3>1. \A i \in n + 1 .. Len(s) : s[i] \in Nat
      BY <1>0
    <3>2. /\ SubSeq(s, n + 1, Len(s)) \in Seq(Nat)
          /\ Len(SubSeq(s, n + 1, Len(s)))
                = IF n + 1 <= Len(s) THEN Len(s) - (n + 1) + 1 ELSE 0
      BY <1>0, <3>1, SubSeqProperties
    <3>3. QED
      BY <1>0, <1>2, <3>2
  <2>4. SubSeq(s, 1, n) \o SubSeq(s, n + 1, Len(s)) = SubSeq(s, 1, Len(s))
    <3>1. 1 \in 1 .. Len(s) + 1 /\ n \in 1 - 1 .. Len(s) /\ Len(s) \in n .. Len(s)
      BY <1>0, <1>2
    <3>2. QED
      BY <1>0, <3>1, ConcatAdjacentSubSeq
  <2>5. SubSeq(s, 1, Len(s)) = s
    BY <1>0, SubSeqFull
  <2>6. QED
    BY <1>2, <2>1, <2>2, <2>3, <2>4, <2>5 DEF Samples
<1>3. QED
  BY <1>1, <1>2

\* push_slice appends a front part of the data, as long as there is room.
LEMMA PushSliceSplits ==
    ASSUME NEW buf \in Samples, Len(buf) <= RingCapacity, NEW data \in Samples
    PROVE  \E c, d \in Samples :
            /\ data = c \o d /\ PushSlice(buf, data) = buf \o c
            /\ Len(buf) + Len(c) <= RingCapacity
<1>0. Len(buf) \in Nat /\ Len(data) \in Nat
  BY Positions
<1>1. PICK r \in Nat : r = RingCapacity - Len(buf)
  BY <1>0
<1>2. PushSlice(buf, data) = buf \o Taken(data, r)
  BY <1>1 DEF PushSlice, Taken
<1>3. /\ Taken(data, r) \in Samples /\ Left(data, r) \in Samples
      /\ data = Taken(data, r) \o Left(data, r)
      /\ Len(Taken(data, r)) = IF Len(data) < r THEN Len(data) ELSE r
  BY Split
<1>4. Len(buf) + Len(Taken(data, r)) <= RingCapacity
  BY <1>0, <1>1, <1>3
<1>5. QED
  BY <1>2, <1>3, <1>4

-----------------------------------------------------------------------------
(* Types, and how full everything is *)

Controls == [noise_suppression : BOOLEAN, input_mode : Modes,
             ptt_active : BOOLEAN, is_transmitting : BOOLEAN]

Suppressors == [enabled : BOOLEAN, accum : Samples, voice : BOOLEAN]

Detectors == [hold_counter : 0 .. HoldFrames, is_active : BOOLEAN]

Gates == [mode : Modes, ptt_active : BOOLEAN, is_transmitting : BOOLEAN]

\* A whole number of frames, at most m.
Whole(s, m) == \E k \in 0 .. m : Len(s) = k * FrameSamples

TypeInv ==
    /\ loopback \in BOOLEAN /\ captured \in Nat
    /\ shared \in Controls /\ ns \in Suppressors
    /\ vad \in Detectors /\ gate \in Gates
    /\ ring \in Samples /\ Len(ring) <= RingCapacity
    /\ playout \in Samples /\ Len(playout) <= RingCapacity
    /\ accum \in Samples /\ denoised \in Samples /\ sent \in Samples
    /\ Whole(ns.accum, BlockFrames - 1) /\ Whole(denoised, BlockFrames)
    /\ pc \in {"flags", "mode", "pop", "frames"}
    /\ pc # "frames" => denoised = <<>> /\ Len(accum) < FrameSamples
    /\ ~ loopback => playout = <<>>

\* What a frame more or less makes of a whole number of frames.
LEMMA WholeFrames ==
    ASSUME NEW k \in Nat
    PROVE  /\ (k + 1) * FrameSamples = k * FrameSamples + FrameSamples
           /\ k * FrameSamples \in Nat
           /\ k * FrameSamples < BlockSamples <=> k < BlockFrames
           /\ k * FrameSamples = 0 <=> k = 0
           /\ (k * FrameSamples) % FrameSamples = 0
<1>1. k * FrameSamples < BlockSamples <=> k < BlockFrames
  BY DEF BlockSamples
<1>2. (k * FrameSamples) % FrameSamples = 0
  <2>1. k * FrameSamples = FrameSamples * k + 0
    OBVIOUS
  <2>2. (FrameSamples * k + 0) % FrameSamples = 0
    OBVIOUS
  <2>3. QED
    BY <2>1, <2>2
<1>3. (k + 1) * FrameSamples = k * FrameSamples + FrameSamples
  OBVIOUS
<1>4. k * FrameSamples \in Nat
  OBVIOUS
<1>5. k * FrameSamples = 0 <=> k = 0
  OBVIOUS
<1>6. QED
  BY <1>1, <1>2, <1>3, <1>4, <1>5, Zenon

\* No frame, one frame and k frames are whole numbers of frames.
LEMMA WholeEnds ==
    /\ Whole(<<>>, BlockFrames - 1) /\ Whole(<<>>, BlockFrames)
    /\ \A s : Len(s) = FrameSamples => Whole(s, BlockFrames)
    /\ \A s, m : \A k \in 0 .. m : Len(s) = k * FrameSamples => Whole(s, m)
<1>1. Len(<<>>) = 0 * FrameSamples /\ 0 \in 0 .. BlockFrames - 1
      /\ 0 \in 0 .. BlockFrames
  OBVIOUS
<1>2. FrameSamples = 1 * FrameSamples /\ 1 \in 0 .. BlockFrames
  OBVIOUS
<1>3. \A s, m : \A k \in 0 .. m : Len(s) = k * FrameSamples => Whole(s, m)
  BY DEF Whole
<1>4. QED
  BY <1>1, <1>2, <1>3

\* The invariant of the types and sizes holds in every state.
LEMMA InitTypes == Init => TypeInv
<1> SUFFICES ASSUME Init PROVE TypeInv
  OBVIOUS
<1>1. <<>> \in Samples /\ Len(<<>>) = 0 /\ 0 = 0 * FrameSamples
  BY DEF Samples
<1>2. shared \in Controls
  BY DEF Init, Controls
<1>3. ns \in Suppressors /\ ns.accum = <<>>
  BY <1>1, <1>2 DEF Init, Controls, Suppressors
<1>4. vad \in Detectors
  BY DEF Init, Detectors
<1>5. gate \in Gates
  BY <1>2 DEF Init, Controls, Gates
<1>6. Whole(ns.accum, BlockFrames - 1) /\ Whole(denoised, BlockFrames)
  BY <1>1, <1>3, WholeEnds DEF Init
<1>7. QED
  BY <1>1, <1>2, <1>3, <1>4, <1>5, <1>6 DEF Init, TypeInv

LEMMA CaptureTypes == TypeInv /\ CaptureCallback => TypeInv'
<1> SUFFICES ASSUME TypeInv, CaptureCallback PROVE TypeInv'
  OBVIOUS
<1> DEFINE data == [i \in 1 .. CallbackSize |-> captured + i]
<1>1. data \in Samples /\ ring \in Samples /\ Len(ring) <= RingCapacity
  BY DEF TypeInv, Samples
<1>2. /\ ring' = PushSlice(ring, data) /\ captured' = captured + CallbackSize
      /\ UNCHANGED <<loopback, shared, loop, playout, sent>>
  BY DEF CaptureCallback
<1> HIDE DEF data
<1>3. PICK c, d \in Samples :
        /\ data = c \o d /\ PushSlice(ring, data) = ring \o c
        /\ Len(ring) + Len(c) <= RingCapacity
  BY <1>1, PushSliceSplits
<1>4. ring' \in Samples /\ Len(ring') <= RingCapacity
  BY <1>1, <1>2, <1>3, ConcatPositions
<1>5. captured' \in Nat
  BY <1>2 DEF TypeInv
<1>6. QED
  BY <1>2, <1>4, <1>5 DEF TypeInv, loop

LEMMA PlayoutTypes == TypeInv /\ PlayoutCallback => TypeInv'
<1> SUFFICES ASSUME TypeInv, PlayoutCallback PROVE TypeInv'
  OBVIOUS
<1>1. /\ Taken(playout, CallbackSize) \in Samples
      /\ Left(playout, CallbackSize) \in Samples
      /\ Len(Left(playout, CallbackSize)) =
            IF Len(playout) < CallbackSize THEN 0 ELSE Len(playout) - CallbackSize
      /\ Len(playout) \in Nat
  BY Split, Positions DEF TypeInv
<1>2. playout' \in Samples /\ Len(playout') <= RingCapacity
  BY <1>1 DEF PlayoutCallback, TypeInv
<1>3. sent' \in Samples
  BY <1>1, ConcatPositions DEF PlayoutCallback, TypeInv
<1>4. loopback
  BY DEF PlayoutCallback, TypeInv
<1>5. QED
  BY <1>2, <1>3, <1>4 DEF PlayoutCallback, TypeInv, loop

LEMMA ClickTypes ==
    TypeInv /\ (ToggleSuppression \/ (\E mode \in Modes : SelectMode(mode))
                    \/ TogglePtt \/ Stop) => TypeInv'
<1> SUFFICES ASSUME TypeInv, Click, shared' \in Controls PROVE TypeInv'
  <2>1. ASSUME TypeInv, ToggleSuppression
        PROVE  shared' \in Controls
    BY <2>1 DEF TypeInv, ToggleSuppression, Controls
  <2>2. ASSUME TypeInv, NEW mode \in Modes, SelectMode(mode)
        PROVE  shared' \in Controls
    BY <2>2 DEF TypeInv, SelectMode, Controls
  <2>3. ASSUME TypeInv, TogglePtt
        PROVE  shared' \in Controls
    BY <2>3 DEF TypeInv, TogglePtt, Controls
  <2>4. ASSUME TypeInv, Stop
        PROVE  shared' \in Controls
    BY <2>4 DEF TypeInv, Stop
  <2>5. QED
    BY <2>1, <2>2, <2>3, <2>4 DEF ToggleSuppression, SelectMode, TogglePtt, Stop
<1>1. QED
  BY DEF Click, TypeInv, loop

LEMMA SyncTypes == TypeInv /\ (SyncFlags \/ SyncMode \/ NextTurn \/ EndTurn) => TypeInv'
<1> SUFFICES ASSUME TypeInv PROVE (SyncFlags \/ SyncMode \/ NextTurn \/ EndTurn) => TypeInv'
  OBVIOUS
<1>1. ASSUME SyncFlags
      PROVE  TypeInv'
  <2>1. ns' \in Suppressors /\ ns'.accum = ns.accum /\ gate' \in Gates
    BY <1>1 DEF TypeInv, SyncFlags, Suppressors, Gates, Controls
  <2>2. QED
    BY <1>1, <2>1 DEF TypeInv, SyncFlags, Whole
<1>2. ASSUME SyncMode
      PROVE  TypeInv'
  <2>1. gate' \in Gates
    BY <1>2 DEF TypeInv, SyncMode, Gates, Controls
  <2>2. QED
    BY <1>2, <2>1 DEF TypeInv, SyncMode
<1>3. ASSUME NextTurn
      PROVE  TypeInv'
  BY <1>3 DEF TypeInv, NextTurn, history
<1>4. ASSUME EndTurn
      PROVE  TypeInv'
  <2>1. shared' \in Controls
    BY <1>4 DEF TypeInv, EndTurn, Gates, Controls
  <2>2. QED
    BY <1>4, <2>1 DEF TypeInv, EndTurn, history
<1>5. QED
  BY <1>1, <1>2, <1>3, <1>4

LEMMA PopTypes == TypeInv /\ PopRing => TypeInv'
<1> SUFFICES ASSUME TypeInv, PopRing PROVE TypeInv'
  OBVIOUS
<1>1. /\ Taken(ring, PopMax) \in Samples /\ Left(ring, PopMax) \in Samples
      /\ Len(Left(ring, PopMax))
            = IF Len(ring) < PopMax THEN 0 ELSE Len(ring) - PopMax
      /\ Len(ring) \in Nat
  BY Split, Positions DEF TypeInv
<1>2. ring' \in Samples /\ Len(ring') <= RingCapacity
  BY <1>1 DEF PopRing, TypeInv
<1>3. accum' \in Samples
  BY <1>1, ConcatPositions DEF PopRing, TypeInv
<1>4. QED
  BY <1>2, <1>3 DEF PopRing, TypeInv, history

\* A chunk taken from what process returned is a whole frame.
LEMMA ChunkTaken ==
    ASSUME TypeInv, denoised # <<>>
    PROVE  /\ Taken(denoised, FrameSamples) \in Samples
           /\ Left(denoised, FrameSamples) \in Samples
           /\ denoised = Taken(denoised, FrameSamples) \o Left(denoised, FrameSamples)
           /\ Len(Taken(denoised, FrameSamples)) = FrameSamples
           /\ Whole(Left(denoised, FrameSamples), BlockFrames)
<1>1. denoised \in Samples /\ Len(denoised) \in Nat /\ Len(denoised) # 0
  BY Positions DEF TypeInv, Samples
<1>2. PICK k \in 0 .. BlockFrames : Len(denoised) = k * FrameSamples
  BY DEF TypeInv, Whole
<1>3. k # 0
  BY <1>1, <1>2, WholeFrames
<1>4. PICK j \in Nat : k = j + 1 /\ j \in 0 .. BlockFrames
  BY <1>3
<1>5. Len(denoised) = j * FrameSamples + FrameSamples /\ j * FrameSamples \in Nat
  BY <1>2, <1>4, WholeFrames
<1>6. /\ Taken(denoised, FrameSamples) \in Samples
      /\ Left(denoised, FrameSamples) \in Samples
      /\ denoised = Taken(denoised, FrameSamples) \o Left(denoised, FrameSamples)
      /\ Len(Taken(denoised, FrameSamples))
            = IF Len(denoised) < FrameSamples THEN Len(denoised) ELSE FrameSamples
      /\ Len(Left(denoised, FrameSamples))
            = IF Len(denoised) < FrameSamples THEN 0
              ELSE Len(denoised) - FrameSamples
  BY <1>1, Split
<1>7. ~ (Len(denoised) < FrameSamples)
      /\ Len(denoised) - FrameSamples = j * FrameSamples
  BY <1>5
<1>8. QED
  BY <1>4, <1>6, <1>7 DEF Whole

LEMMA HandleTypes ==
    ASSUME TypeInv, NEW loud \in BOOLEAN, HandleChunk(loud)
    PROVE  TypeInv'
<1>1. /\ Taken(denoised, FrameSamples) \in Samples
      /\ Left(denoised, FrameSamples) \in Samples
      /\ Whole(Left(denoised, FrameSamples), BlockFrames)
  BY ChunkTaken DEF HandleChunk
<1>2. vad' \in Detectors
  <2>1. ASSUME NEW voice
        PROVE  Detect(voice) \in Detectors
    <3>1. vad \in Detectors
      BY DEF TypeInv
    <3>2. CASE voice
      BY <3>2 DEF Detect, Detectors
    <3>3. CASE ~ voice /\ vad.hold_counter > 0
      BY <3>1, <3>3 DEF Detect, Detectors
    <3>4. CASE ~ voice /\ ~ (vad.hold_counter > 0)
      BY <3>1, <3>4 DEF Detect, Detectors
    <3>5. QED
      BY <3>2, <3>3, <3>4
  <2>2. QED
    BY <2>1 DEF HandleChunk
<1>3. gate' \in Gates
  <2>1. gate \in Gates /\ gate.mode \in Modes /\ vad'.is_active \in BOOLEAN
    BY <1>2 DEF TypeInv, Gates, Detectors
  <2>2. ShouldTransmit(vad'.is_active) \in BOOLEAN
    BY <2>1 DEF ShouldTransmit, Modes, Gates
  <2>3. QED
    BY <2>1, <2>2 DEF HandleChunk, Gates
<1>4. sent' \in Samples
  <2>1. sent \in Samples /\ sent \o Taken(denoised, FrameSamples) \in Samples
    BY <1>1, ConcatPositions DEF TypeInv
  <2>2. sent' = sent \/ sent' = sent \o Taken(denoised, FrameSamples)
    BY DEF HandleChunk
  <2>3. QED
    BY <2>1, <2>2
<1>5. denoised' \in Samples /\ Whole(denoised', BlockFrames)
  BY <1>1 DEF HandleChunk
<1>6. QED
  BY <1>2, <1>3, <1>4, <1>5 DEF HandleChunk, TypeInv

LEMMA EchoTypes ==
    ASSUME TypeInv, NEW coded \in BOOLEAN, EchoChunk(coded)
    PROVE  TypeInv'
<1> DEFINE chunk == Taken(denoised, FrameSamples)
<1>1. /\ chunk \in Samples
      /\ Left(denoised, FrameSamples) \in Samples
      /\ Whole(Left(denoised, FrameSamples), BlockFrames)
  BY ChunkTaken DEF EchoChunk
<1>2. playout' \in Samples /\ Len(playout') <= RingCapacity
  <2>1. playout \in Samples /\ Len(playout) <= RingCapacity
    BY DEF TypeInv
  <2>2. playout' = PushSlice(playout, chunk) \/ playout' = playout
    BY DEF EchoChunk
  <2> HIDE DEF chunk
  <2>3. PICK c, d \in Samples :
            /\ chunk = c \o d /\ PushSlice(playout, chunk) = playout \o c
            /\ Len(playout) + Len(c) <= RingCapacity
    BY <1>1, <2>1, PushSliceSplits
  <2>4. PushSlice(playout, chunk) \in Samples
        /\ Len(PushSlice(playout, chunk)) <= RingCapacity
    BY <2>1, <2>3, ConcatPositions
  <2>5. QED
    BY <2>1, <2>2, <2>4
<1>3. denoised' \in Samples /\ Whole(denoised', BlockFrames)
  BY <1>1 DEF EchoChunk
<1>4. QED
  BY <1>2, <1>3 DEF EchoChunk, TypeInv

\* process, by cases: the frame passes, is collected, or completes the block.
LEMMA ProcessCases ==
    ASSUME TypeInv, NEW voice \in BOOLEAN, NEW frame \in Samples,
           Len(frame) = FrameSamples, Process(frame, voice)
    PROVE  /\ ns' \in Suppressors /\ denoised' \in Samples
           /\ Whole(ns'.accum, BlockFrames - 1) /\ Whole(denoised', BlockFrames)
           /\ \/ /\ ~ ns.enabled
                 /\ denoised' = frame /\ ns'.accum = ns.accum
              \/ denoised' = <<>> /\ ns'.accum = ns.accum \o frame
              \/ denoised' = ns.accum \o frame /\ ns'.accum = <<>>
<1> DEFINE all == ns.accum \o frame
<1>0. /\ ns \in Suppressors /\ ns.accum \in Samples /\ Len(ns.accum) \in Nat
      /\ <<>> \in Samples /\ Len(<<>>) = 0 /\ 0 = 0 * FrameSamples
      /\ FrameSamples = 1 * FrameSamples
  BY Positions DEF TypeInv, Suppressors, Samples
<1>1. PICK k \in 0 .. BlockFrames - 1 : Len(ns.accum) = k * FrameSamples
  BY DEF TypeInv, Whole
<1>2. PICK m \in Nat : m = k + 1
  BY <1>1
<1>3. all \in Samples /\ Len(all) = m * FrameSamples
  <2>1. all \in Samples /\ Len(all) = Len(ns.accum) + FrameSamples
    BY <1>0, ConcatPositions
  <2>2. QED
    BY <1>1, <1>2, <2>1, WholeFrames
<1>4. Len(all) < BlockSamples <=> m < BlockFrames
  BY <1>3, WholeFrames
<1> HIDE DEF all
<1>5. CASE ~ ns.enabled
  <2>1. denoised' = frame /\ ns' = ns
    BY <1>5 DEF Process
  <2>2. QED
    BY <1>0, <1>5, <2>1, WholeEnds DEF TypeInv
<1>6. CASE ns.enabled /\ Len(all) < BlockSamples
  <2>1. denoised' = <<>> /\ ns' = [ns EXCEPT !.accum = all]
    BY <1>6 DEF Process, all
  <2>2. ns' \in Suppressors /\ ns'.accum = all
    BY <1>0, <1>3, <2>1 DEF Suppressors
  <2>3. m \in 0 .. BlockFrames - 1
    BY <1>6, <1>4
  <2>4. Whole(ns'.accum, BlockFrames - 1) /\ Whole(denoised', BlockFrames)
    BY <1>3, <2>1, <2>2, <2>3, WholeEnds
  <2>5. QED
    BY <1>0, <2>1, <2>2, <2>4 DEF all
<1>7. CASE ns.enabled /\ ~ (Len(all) < BlockSamples)
  <2>1. m = BlockFrames
    BY <1>1, <1>2, <1>7, <1>4
  <2>2. Len(all) = BlockSamples /\ BlockSamples \in Nat
    BY <1>3, <2>1, WholeFrames DEF BlockSamples
  <2>3. Taken(all, BlockSamples) = all /\ Left(all, BlockSamples) = <<>>
    <3>1. /\ Left(all, BlockSamples) \in Samples
          /\ Len(Left(all, BlockSamples)) = 0
          /\ all = Taken(all, BlockSamples) \o Left(all, BlockSamples)
          /\ Taken(all, BlockSamples) \in Samples
      BY <1>3, <2>2, Split
    <3>2. Left(all, BlockSamples) = <<>>
      BY <3>1, EmptySeq DEF Samples
    <3>3. QED
      BY <3>1, <3>2, ConcatEmptySeq DEF Samples
  <2>4. denoised' = all /\ ns' = [ns EXCEPT !.voice = voice, !.accum = <<>>]
    BY <1>7, <2>3 DEF Process, all
  <2>5. ns' \in Suppressors /\ ns'.accum = <<>>
    BY <1>0, <2>4 DEF Suppressors
  <2>6. Whole(ns'.accum, BlockFrames - 1) /\ Whole(denoised', BlockFrames)
    <3>1. m \in 0 .. BlockFrames
      BY <2>1
    <3>2. QED
      BY <1>3, <2>4, <2>5, <3>1, WholeEnds
  <2>7. QED
    BY <1>3, <2>4, <2>5, <2>6 DEF all
<1>8. QED
  BY <1>5, <1>6, <1>7

\* The frame taken from capture_accum.
LEMMA FrameTaken ==
    ASSUME TypeInv, Len(accum) >= FrameSamples
    PROVE  /\ Taken(accum, FrameSamples) \in Samples
           /\ Left(accum, FrameSamples) \in Samples
           /\ accum = Taken(accum, FrameSamples) \o Left(accum, FrameSamples)
           /\ Len(Taken(accum, FrameSamples)) = FrameSamples
<1>1. accum \in Samples /\ Len(accum) \in Nat
  BY Positions DEF TypeInv
<1>2. /\ Taken(accum, FrameSamples) \in Samples
      /\ Left(accum, FrameSamples) \in Samples
      /\ accum = Taken(accum, FrameSamples) \o Left(accum, FrameSamples)
      /\ Len(Taken(accum, FrameSamples))
            = IF Len(accum) < FrameSamples THEN Len(accum) ELSE FrameSamples
  BY <1>1, Split
<1>3. ~ (Len(accum) < FrameSamples)
  BY <1>1
<1>4. QED
  BY <1>2, <1>3

LEMMA ProcessTypes ==
    ASSUME TypeInv, NEW voice \in BOOLEAN, ProcessFrame(voice)
    PROVE  TypeInv'
<1>1. /\ Taken(accum, FrameSamples) \in Samples
      /\ Left(accum, FrameSamples) \in Samples
      /\ Len(Taken(accum, FrameSamples)) = FrameSamples
  BY FrameTaken DEF ProcessFrame
<1>2. Process(Taken(accum, FrameSamples), voice)
  BY DEF ProcessFrame
<1>3. /\ ns' \in Suppressors /\ denoised' \in Samples
      /\ Whole(ns'.accum, BlockFrames - 1) /\ Whole(denoised', BlockFrames)
  BY <1>1, <1>2, ProcessCases
<1>4. QED
  BY <1>1, <1>3 DEF ProcessFrame, TypeInv

LEMMA StepTypes == TypeInv /\ [Next]_vars => TypeInv'
<1> SUFFICES ASSUME TypeInv, [Next]_vars PROVE TypeInv'
  OBVIOUS
<1>1. CASE CaptureCallback
  BY <1>1, CaptureTypes
<1>2. CASE PlayoutCallback
  BY <1>2, PlayoutTypes
<1>3. CASE ToggleSuppression \/ (\E mode \in Modes : SelectMode(mode))
                \/ TogglePtt \/ Stop
  BY <1>3, ClickTypes
<1>4. CASE SyncFlags \/ SyncMode \/ NextTurn \/ EndTurn
  BY <1>4, SyncTypes
<1>5. CASE PopRing
  BY <1>5, PopTypes
<1>6. ASSUME NEW voice \in BOOLEAN, ProcessFrame(voice)
      PROVE  TypeInv'
  BY <1>6, ProcessTypes
<1>7. ASSUME NEW loud \in BOOLEAN, HandleChunk(loud)
      PROVE  TypeInv'
  BY <1>7, HandleTypes
<1>8. ASSUME NEW coded \in BOOLEAN, EchoChunk(coded)
      PROVE  TypeInv'
  BY <1>8, EchoTypes
<1>9. CASE UNCHANGED vars
  BY <1>9 DEF TypeInv, vars, loop, history
<1>10. QED
  BY <1>1, <1>2, <1>3, <1>4, <1>5, <1>6, <1>7, <1>8, <1>9 DEF Next, LoopStep

\* The types and sizes hold in every state.
THEOREM TypesHold == Spec => []TypeInv
<1>1. Init => TypeInv
  BY InitTypes
<1>2. TypeInv /\ [Next]_vars => TypeInv'
  BY StepTypes
<1>3. QED
  BY <1>1, <1>2, PTL DEF Spec

\* Nothing is fuller than it may be: rings, block of the suppressor (whole
\* frames only) and accumulator, whatever sizes the callbacks and pops have.
THEOREM TypeCorrect == Spec => []TypeOK
<1>1. TypeInv => TypeOK
  <2> SUFFICES ASSUME TypeInv PROVE TypeOK
    OBVIOUS
  <2>1. Len(ns.accum) < BlockSamples /\ Len(ns.accum) % FrameSamples = 0
    <3>1. PICK k \in 0 .. BlockFrames - 1 : Len(ns.accum) = k * FrameSamples
      BY DEF TypeInv, Whole
    <3>2. k \in Nat /\ k < BlockFrames
      OBVIOUS
    <3>3. QED
      BY <3>1, <3>2, WholeFrames
  <2>2. Len(denoised) <= BlockSamples /\ Len(denoised) % FrameSamples = 0
    <3>1. PICK k \in 0 .. BlockFrames : Len(denoised) = k * FrameSamples
      BY DEF TypeInv, Whole
    <3>2. k \in Nat /\ (k < BlockFrames \/ k = BlockFrames)
      OBVIOUS
    <3>3. k * FrameSamples \in Nat /\ BlockSamples \in Nat
      BY <3>2, WholeFrames DEF BlockSamples
    <3>4. k * FrameSamples <= BlockSamples
      <4>1. CASE k < BlockFrames
        BY <3>2, <3>3, <4>1, WholeFrames
      <4>2. CASE k = BlockFrames
        BY <3>3, <4>2 DEF BlockSamples
      <4>3. QED
        BY <3>2, <4>1, <4>2
    <3>5. QED
      BY <3>1, <3>2, <3>4, WholeFrames
  <2>3. vad.hold_counter \in 0 .. HoldFrames
    BY DEF TypeInv, Detectors
  <2>4. QED
    BY <2>1, <2>2, <2>3 DEF TypeInv, TypeOK
<1>2. QED
  BY <1>1, TypesHold, PTL

-----------------------------------------------------------------------------
(* The way of the samples *)

\* Concatenation under a name of its own: the provers then take it as it is.
Cat(s, t) == s \o t

LEMMA CatMeaning ==
    ASSUME NEW s \in Samples, NEW t \in Samples
    PROVE  /\ Cat(s, t) \in Samples
           /\ ToSet(Cat(s, t)) = ToSet(s) \cup ToSet(t)
           /\ Distinct(Cat(s, t)) <=>
                /\ Distinct(s) /\ Distinct(t)
                /\ ToSet(s) \cap ToSet(t) = {}
           /\ Increasing(Cat(s, t)) <=>
                /\ Increasing(s) /\ Increasing(t)
                /\ \A x \in ToSet(s), y \in ToSet(t) : x < y
<1>1. Cat(s, t) = s \o t
  BY DEF Cat
<1>2. s \o t \in Samples /\ ToSet(s \o t) = ToSet(s) \cup ToSet(t)
  BY ConcatPositions, ConcatElements
<1>3. Distinct(s \o t) <=>
        Distinct(s) /\ Distinct(t) /\ ToSet(s) \cap ToSet(t) = {}
  BY ConcatDistinct
<1>4. Increasing(s \o t) <=>
        /\ Increasing(s) /\ Increasing(t)
        /\ \A x \in ToSet(s), y \in ToSet(t) : x < y
  BY ConcatIncreasing
<1>5. QED
  BY <1>1, <1>2, <1>3, <1>4

LEMMA CatAssociative ==
    ASSUME NEW s \in Samples, NEW t \in Samples, NEW r \in Samples
    PROVE  /\ Cat(Cat(s, t), r) = Cat(s, Cat(t, r))
           /\ Cat(s, t) \in Samples
  BY ConcatAssociative, ConcatPositions, SMTT(30) DEF Samples, Cat

LEMMA CatEmpty ==
    ASSUME NEW s \in Samples
    PROVE  Cat(<<>>, s) = s /\ Cat(s, <<>>) = s /\ <<>> \in Samples
  BY ConcatEmptySeq DEF Samples, Cat

\* Moving t from the front of one place to the end of the place before it.
LEMMA Moves ==
    ASSUME NEW a \in Samples, NEW t \in Samples, NEW l \in Samples, NEW r \in Samples
    PROVE  Cat(Cat(a, t), Cat(l, r)) = Cat(a, Cat(Cat(t, l), r))
<1>1. Cat(l, r) \in Samples
  BY CatAssociative
<1>2. Cat(Cat(a, t), Cat(l, r)) = Cat(a, Cat(t, Cat(l, r)))
  BY <1>1, CatAssociative
<1>3. Cat(t, Cat(l, r)) = Cat(Cat(t, l), r)
  BY CatAssociative
<1>4. QED
  BY <1>2, <1>3

\* The places in the order in which the samples pass them.
Way(a, b, c, d, e, f) == Cat(a, Cat(b, Cat(c, Cat(d, Cat(e, f)))))

LEMMA WayParts ==
    ASSUME NEW a \in Samples, NEW b \in Samples, NEW c \in Samples,
           NEW d \in Samples, NEW e \in Samples, NEW f \in Samples
    PROVE  /\ Cat(a, b) \in Samples /\ Cat(e, f) \in Samples
           /\ Cat(d, Cat(e, f)) \in Samples /\ Cat(c, Cat(d, Cat(e, f))) \in Samples
           /\ Way(a, b, c, d, e, f) = Cat(Cat(a, b), Cat(c, Cat(d, Cat(e, f))))
           /\ Way(a, b, c, d, e, f) = Cat(Cat(Cat(Cat(Cat(a, b), c), d), e), f)
           /\ Cat(Cat(Cat(Cat(a, b), c), d), e) \in Samples
<1>1. /\ Cat(a, b) \in Samples /\ Cat(Cat(a, b), c) \in Samples
      /\ Cat(Cat(Cat(a, b), c), d) \in Samples
      /\ Cat(Cat(Cat(Cat(a, b), c), d), e) \in Samples
  BY CatAssociative
<1>2. /\ Cat(e, f) \in Samples /\ Cat(d, Cat(e, f)) \in Samples
      /\ Cat(c, Cat(d, Cat(e, f))) \in Samples
  BY CatAssociative
<1>3. Cat(Cat(Cat(Cat(Cat(a, b), c), d), e), f) = Cat(Cat(Cat(Cat(a, b), c), d), Cat(e, f))
  BY <1>1, CatAssociative
<1>4. Cat(Cat(Cat(Cat(a, b), c), d), Cat(e, f)) = Cat(Cat(Cat(a, b), c), Cat(d, Cat(e, f)))
  BY <1>1, <1>2, CatAssociative
<1>5. Cat(Cat(Cat(a, b), c), Cat(d, Cat(e, f))) = Cat(Cat(a, b), Cat(c, Cat(d, Cat(e, f))))
  BY <1>1, <1>2, CatAssociative
<1>6. Way(a, b, c, d, e, f) = Cat(Cat(a, b), Cat(c, Cat(d, Cat(e, f))))
  BY <1>2, CatAssociative DEF Way
<1>7. QED
  BY <1>1, <1>2, <1>3, <1>4, <1>5, <1>6

\* A sequence p on its way and a set u given up make up the samples 1 .. c,
\* each in one place.
Flow(p, u, c) ==
    /\ p \in Samples /\ Distinct(p)
    /\ ToSet(p) \cap u = {}
    /\ ToSet(p) \cup u = 1 .. c

\* The callback brings the next samples, of which the ring takes the first part x.
LEMMA FlowGrows ==
    ASSUME NEW p, NEW u, NEW c \in Nat, Flow(p, u, c), NEW k \in Nat,
           NEW x \in Samples, NEW y \in Samples,
           Cat(x, y) = [i \in 1 .. k |-> c + i]
    PROVE  /\ Flow(Cat(p, x), u \cup ToSet(y), c + k)
           /\ Increasing(p) => Increasing(Cat(p, x))
<1> DEFINE data == [i \in 1 .. k |-> c + i]
<1>1. data \in Samples /\ Len(data) = k /\ \A i \in 1 .. k : data[i] = c + i
  BY DEF Samples
<1>2. ToSet(data) = c + 1 .. c + k
  <2>1. ToSet(data) = {data[i] : i \in 1 .. k}
    BY <1>1, Positions
  <2>2. ASSUME NEW z \in c + 1 .. c + k
        PROVE  z \in ToSet(data)
    <3>1. z - c \in 1 .. k /\ c + (z - c) = z
      OBVIOUS
    <3>2. QED
      BY <1>1, <2>1, <3>1
  <2>3. ASSUME NEW z \in ToSet(data)
        PROVE  z \in c + 1 .. c + k
    BY <1>1, <2>1
  <2>4. QED
    BY <2>2, <2>3
<1>3. Distinct(data) /\ Increasing(data)
  BY <1>1 DEF Distinct, Increasing
<1> HIDE DEF data
<1>4. Cat(x, y) = data
  BY DEF data
<1>5. /\ Distinct(x) /\ Increasing(x)
      /\ ToSet(x) \cap ToSet(y) = {} /\ ToSet(x) \cup ToSet(y) = c + 1 .. c + k
  BY <1>2, <1>3, <1>4, CatMeaning
<1>6. /\ p \in Samples /\ Distinct(p) /\ ToSet(p) \cap u = {}
      /\ ToSet(p) \cup u = 1 .. c
  BY DEF Flow
<1>7. (1 .. c) \cap (c + 1 .. c + k) = {} /\ (1 .. c) \cup (c + 1 .. c + k) = 1 .. c + k
  OBVIOUS
<1>8. Cat(p, x) \in Samples /\ ToSet(Cat(p, x)) = ToSet(p) \cup ToSet(x)
  BY <1>6, CatMeaning
<1>9. Distinct(Cat(p, x))
  <2>1. ToSet(p) \cap ToSet(x) = {}
    BY <1>5, <1>6, <1>7
  <2>2. QED
    BY <1>5, <1>6, <2>1, CatMeaning
<1>10. Flow(Cat(p, x), u \cup ToSet(y), c + k)
  <2>1. ToSet(Cat(p, x)) \cap (u \cup ToSet(y)) = {}
    BY <1>5, <1>6, <1>7, <1>8
  <2>2. ToSet(Cat(p, x)) \cup (u \cup ToSet(y)) = 1 .. c + k
    BY <1>5, <1>6, <1>7, <1>8
  <2>3. QED
    BY <1>8, <1>9, <2>1, <2>2 DEF Flow
<1>11. ASSUME Increasing(p)
       PROVE  Increasing(Cat(p, x))
  <2>1. \A v \in ToSet(p), w \in ToSet(x) : v < w
    <3> SUFFICES ASSUME NEW v \in ToSet(p), NEW w \in ToSet(x)
                 PROVE  v < w
      OBVIOUS
    <3>1. v \in 1 .. c /\ w \in c + 1 .. c + k
      BY <1>5, <1>6
    <3>2. QED
      BY <3>1
  <2>2. QED
    BY <1>5, <1>6, <1>11, <2>1, CatMeaning
<1>12. QED
  BY <1>10, <1>11

\* A part x is given up.
LEMMA FlowDrops ==
    ASSUME NEW a \in Samples, NEW x \in Samples, NEW b \in Samples,
           NEW u, NEW c, Flow(Cat(a, Cat(x, b)), u, c)
    PROVE  /\ Flow(Cat(a, b), u \cup ToSet(x), c)
           /\ Increasing(Cat(a, Cat(x, b))) => Increasing(Cat(a, b))
           /\ ToSet(a) \cap ToSet(x) = {}
<1>1. Cat(x, b) \in Samples /\ Cat(a, b) \in Samples
  BY CatMeaning
<1>2. /\ ToSet(Cat(x, b)) = ToSet(x) \cup ToSet(b)
      /\ ToSet(Cat(a, Cat(x, b))) = ToSet(a) \cup ToSet(Cat(x, b))
      /\ ToSet(Cat(a, b)) = ToSet(a) \cup ToSet(b)
  BY <1>1, CatMeaning
<1>3. /\ Distinct(a) /\ Distinct(Cat(x, b)) /\ ToSet(a) \cap ToSet(Cat(x, b)) = {}
  BY <1>1, CatMeaning DEF Flow
<1>4. Distinct(b) /\ ToSet(x) \cap ToSet(b) = {}
  BY <1>3, CatMeaning
<1>5. Distinct(Cat(a, b))
  <2>1. ToSet(a) \cap ToSet(b) = {}
    BY <1>2, <1>3
  <2>2. QED
    BY <1>3, <1>4, <2>1, CatMeaning
<1>6. Flow(Cat(a, b), u \cup ToSet(x), c)
  <2>1. /\ ToSet(Cat(a, Cat(x, b))) \cap u = {}
        /\ ToSet(Cat(a, Cat(x, b))) \cup u = 1 .. c
    BY DEF Flow
  <2>2. ToSet(Cat(a, b)) \cap (u \cup ToSet(x)) = {}
    BY <1>2, <1>3, <1>4, <2>1
  <2>3. ToSet(Cat(a, b)) \cup (u \cup ToSet(x)) = 1 .. c
    BY <1>2, <2>1
  <2>4. QED
    BY <1>1, <1>5, <2>2, <2>3 DEF Flow
<1>7. ASSUME Increasing(Cat(a, Cat(x, b)))
      PROVE  Increasing(Cat(a, b))
  <2>1. /\ Increasing(a) /\ Increasing(Cat(x, b))
        /\ \A v \in ToSet(a), w \in ToSet(Cat(x, b)) : v < w
    BY <1>1, <1>7, CatMeaning
  <2>2. Increasing(b)
    BY <2>1, CatMeaning
  <2>3. \A v \in ToSet(a), w \in ToSet(b) : v < w
    BY <1>2, <2>1
  <2>4. QED
    BY <2>1, <2>2, <2>3, CatMeaning
<1>8. QED
  BY <1>2, <1>3, <1>6, <1>7

\* A frame y passes by the block x that is being collected.
LEMMA FlowSwaps ==
    ASSUME NEW a \in Samples, NEW x \in Samples, NEW y \in Samples,
           NEW b \in Samples, NEW u, NEW c, Flow(Cat(a, Cat(x, Cat(y, b))), u, c)
    PROVE  Flow(Cat(a, Cat(y, Cat(x, b))), u, c)
<1>1. /\ Cat(y, b) \in Samples /\ Cat(x, b) \in Samples
      /\ Cat(x, Cat(y, b)) \in Samples /\ Cat(y, Cat(x, b)) \in Samples
      /\ Cat(a, Cat(y, Cat(x, b))) \in Samples
  BY CatMeaning
<1>2. /\ ToSet(Cat(y, b)) = ToSet(y) \cup ToSet(b)
      /\ ToSet(Cat(x, b)) = ToSet(x) \cup ToSet(b)
      /\ ToSet(Cat(x, Cat(y, b))) = ToSet(x) \cup ToSet(Cat(y, b))
      /\ ToSet(Cat(y, Cat(x, b))) = ToSet(y) \cup ToSet(Cat(x, b))
      /\ ToSet(Cat(a, Cat(x, Cat(y, b)))) = ToSet(a) \cup ToSet(Cat(x, Cat(y, b)))
      /\ ToSet(Cat(a, Cat(y, Cat(x, b)))) = ToSet(a) \cup ToSet(Cat(y, Cat(x, b)))
  BY <1>1, CatMeaning
<1>3. Distinct(a) /\ Distinct(Cat(x, Cat(y, b))) /\ ToSet(a) \cap ToSet(Cat(x, Cat(y, b))) = {}
  BY <1>1, CatMeaning DEF Flow
<1>4. Distinct(x) /\ Distinct(Cat(y, b)) /\ ToSet(x) \cap ToSet(Cat(y, b)) = {}
  BY <1>1, <1>3, CatMeaning
<1>5. Distinct(y) /\ Distinct(b) /\ ToSet(y) \cap ToSet(b) = {}
  BY <1>4, CatMeaning
<1>6. Distinct(Cat(x, b))
  <2>1. ToSet(x) \cap ToSet(b) = {}
    BY <1>2, <1>4
  <2>2. QED
    BY <1>4, <1>5, <2>1, CatMeaning
<1>7. Distinct(Cat(y, Cat(x, b)))
  <2>1. ToSet(y) \cap ToSet(Cat(x, b)) = {}
    BY <1>2, <1>4, <1>5
  <2>2. QED
    BY <1>1, <1>5, <1>6, <2>1, CatMeaning
<1>8. Distinct(Cat(a, Cat(y, Cat(x, b))))
  <2>1. ToSet(a) \cap ToSet(Cat(y, Cat(x, b))) = {}
    BY <1>2, <1>3
  <2>2. QED
    BY <1>1, <1>3, <1>7, <2>1, CatMeaning
<1>9. ToSet(Cat(a, Cat(y, Cat(x, b)))) = ToSet(Cat(a, Cat(x, Cat(y, b))))
  BY <1>2
<1>10. QED
  BY <1>1, <1>8, <1>9 DEF Flow

\* Every sample is in one place, and they are in order unless one passed by.
FlowInv ==
    /\ Flow(Pipeline, unsent, captured)
    /\ ~ bypassed => Increasing(Pipeline)

\* The pipeline before and after a step.
LEMMA Arrangement ==
    ASSUME TypeInv, TypeInv'
    PROVE  /\ Pipeline = Way(sent, playout, denoised, ns.accum, accum, ring)
           /\ Pipeline' = Way(sent', playout', denoised', ns'.accum, accum', ring')
           /\ sent \in Samples /\ playout \in Samples /\ denoised \in Samples
           /\ ns.accum \in Samples /\ accum \in Samples /\ ring \in Samples
<1>1. /\ sent \in Samples /\ playout \in Samples /\ denoised \in Samples
      /\ ns.accum \in Samples /\ accum \in Samples /\ ring \in Samples
  BY DEF TypeInv, Suppressors
<1>2. /\ sent' \in Samples /\ playout' \in Samples /\ denoised' \in Samples
      /\ ns'.accum \in Samples /\ accum' \in Samples /\ ring' \in Samples
  BY DEF TypeInv, Suppressors
<1>3. Pipeline = Cat(Cat(Cat(Cat(Cat(sent, playout), denoised), ns.accum), accum), ring)
  BY DEF Pipeline, Cat
<1>4. Pipeline' = Cat(Cat(Cat(Cat(Cat(sent', playout'), denoised'), ns'.accum),
                          accum'), ring')
  BY DEF Pipeline, Cat
<1>5. QED
  BY <1>1, <1>2, <1>3, <1>4, WayParts

LEMMA InitFlow == Init => FlowInv
<1> SUFFICES ASSUME Init PROVE FlowInv
  OBVIOUS
<1>1. /\ sent = <<>> /\ playout = <<>> /\ denoised = <<>> /\ ns.accum = <<>>
      /\ accum = <<>> /\ ring = <<>> /\ unsent = {} /\ captured = 0
  BY DEF Init
<1>2. Pipeline = <<>>
  BY <1>1 DEF Pipeline
<1>3. <<>> \in Samples /\ Len(<<>>) = 0 /\ ToSet(<<>>) = {}
  BY DEF Samples, ToSet
<1>4. Distinct(<<>>) /\ Increasing(<<>>)
  BY <1>3 DEF Distinct, Increasing
<1>5. QED
  BY <1>1, <1>2, <1>3, <1>4 DEF FlowInv, Flow

\* A step that leaves the pipeline, and what was given up, as it is.
LEMMA SameFlow ==
    ASSUME FlowInv, Pipeline' = Pipeline,
           UNCHANGED <<unsent, captured>>, bypassed => bypassed'
    PROVE  FlowInv'
  BY DEF FlowInv, Flow

LEMMA CaptureFlow ==
    ASSUME TypeInv, TypeInv', FlowInv, CaptureCallback
    PROVE  FlowInv'
<1> DEFINE data == [i \in 1 .. CallbackSize |-> captured + i]
<1>0. captured \in Nat /\ CallbackSize \in Nat
  BY DEF TypeInv
<1>1. data \in Samples /\ ring \in Samples /\ Len(ring) <= RingCapacity
  BY <1>0 DEF TypeInv, Samples
<1>2. /\ ring' = PushSlice(ring, data) /\ captured' = captured + CallbackSize
      /\ unsent' = unsent \cup (ToSet(data) \ ToSet(ring'))
      /\ UNCHANGED <<loop, playout, sent, bypassed>>
  BY DEF CaptureCallback
<1>3. PICK c, d \in Samples : data = Cat(c, d) /\ ring' = Cat(ring, c)
  <2> HIDE DEF data
  <2>1. PICK c, d \in Samples :
            /\ data = c \o d /\ PushSlice(ring, data) = ring \o c
            /\ Len(ring) + Len(c) <= RingCapacity
    BY <1>1, PushSliceSplits
  <2>2. QED
    BY <1>2, <2>1 DEF Cat
<1>4. PICK x \in Samples : Pipeline = Cat(x, ring) /\ Pipeline' = Cat(x, Cat(ring, c))
  <2>1. /\ sent \in Samples /\ playout \in Samples /\ denoised \in Samples
        /\ ns.accum \in Samples /\ accum \in Samples
    BY Arrangement
  <2>2. PICK x \in Samples : x = Cat(Cat(Cat(Cat(sent, playout), denoised), ns.accum), accum)
    BY <1>1, <2>1, WayParts
  <2>3. Pipeline = Cat(x, ring) /\ Pipeline' = Cat(x, ring')
    BY <1>2, <2>2 DEF Pipeline, Cat, loop
  <2>4. QED
    BY <1>3, <2>2, <2>3
<1>5. Pipeline' = Cat(Pipeline, c) /\ Cat(ring, c) \in Samples
  BY <1>1, <1>4, CatAssociative
<1>6. /\ Flow(Cat(Pipeline, c), unsent \cup ToSet(d), captured + CallbackSize)
      /\ Increasing(Pipeline) => Increasing(Cat(Pipeline, c))
  <2>1. Cat(c, d) = [i \in 1 .. CallbackSize |-> captured + i]
    BY <1>3
  <2>2. Flow(Pipeline, unsent, captured)
    BY DEF FlowInv
  <2> HIDE DEF data
  <2>3. QED
    BY <1>0, <2>1, <2>2, FlowGrows
<1> HIDE DEF data
<1>7. ToSet(data) \ ToSet(ring') = ToSet(d)
  <2>1. ToSet(data) = ToSet(c) \cup ToSet(d)
    BY <1>3, CatMeaning
  <2>2. ToSet(ring') = ToSet(ring) \cup ToSet(c)
    BY <1>1, <1>3, CatMeaning
  <2>3. ToSet(ring') \subseteq ToSet(Pipeline')
    <3>1. ToSet(Cat(x, Cat(ring, c))) = ToSet(x) \cup ToSet(Cat(ring, c))
      BY <1>4, <1>5, CatMeaning
    <3>2. QED
      BY <1>3, <1>4, <3>1
  <2>4. ToSet(Pipeline') \cap ToSet(d) = {}
    BY <1>5, <1>6 DEF Flow
  <2>5. QED
    BY <2>1, <2>2, <2>3, <2>4
<1>8. QED
  BY <1>2, <1>5, <1>6, <1>7 DEF FlowInv

LEMMA PlayoutFlow ==
    ASSUME TypeInv, TypeInv', FlowInv, PlayoutCallback
    PROVE  FlowInv'
<1>1. PICK t, l \in Samples :
        t = Taken(playout, CallbackSize) /\ l = Left(playout, CallbackSize)
        /\ playout = Cat(t, l)
  <2>1. playout \in Samples /\ CallbackSize \in Nat
    BY DEF TypeInv
  <2>2. QED
    BY <2>1, Split DEF Cat
<1>2. sent' = Cat(sent, t) /\ playout' = l
  BY <1>1 DEF PlayoutCallback, Cat
<1>3. /\ UNCHANGED <<denoised, ns, accum, ring>>
      /\ UNCHANGED <<unsent, captured, bypassed>>
  BY DEF PlayoutCallback, loop
<1>0. /\ sent \in Samples /\ denoised \in Samples /\ ns.accum \in Samples
      /\ accum \in Samples /\ ring \in Samples
  BY Arrangement
<1>4. PICK r \in Samples : r = Cat(denoised, Cat(ns.accum, Cat(accum, ring)))
  BY <1>0, CatAssociative
<1>5. Pipeline = Cat(sent, Cat(Cat(t, l), r)) /\ Pipeline' = Cat(Cat(sent, t), Cat(l, r))
  BY <1>1, <1>2, <1>3, <1>4, Arrangement DEF Way
<1>6. Pipeline' = Pipeline
  <2>1. Cat(Cat(sent, t), Cat(l, r)) = Cat(sent, Cat(Cat(t, l), r))
    BY <1>0, Moves
  <2>2. QED
    BY <1>5, <2>1
<1>7. QED
  BY <1>3, <1>6, SameFlow

LEMMA PopFlow ==
    ASSUME TypeInv, TypeInv', FlowInv, PopRing
    PROVE  FlowInv'
<1>1. PICK t, l \in Samples :
        t = Taken(ring, PopMax) /\ l = Left(ring, PopMax) /\ ring = Cat(t, l)
  <2>1. ring \in Samples /\ PopMax \in Nat
    BY DEF TypeInv
  <2>2. QED
    BY <2>1, Split DEF Cat
<1>2. accum' = Cat(accum, t) /\ ring' = l
  BY <1>1 DEF PopRing, Cat
<1>3. /\ UNCHANGED <<sent, playout, denoised, ns>>
      /\ UNCHANGED <<unsent, captured, bypassed>>
  BY DEF PopRing, history
<1>4. Cat(Cat(accum, t), l) = Cat(accum, Cat(t, l))
  BY <1>1, CatAssociative, Arrangement
<1>5. Pipeline' = Pipeline
  BY <1>1, <1>2, <1>3, <1>4, Arrangement DEF Way
<1>6. QED
  BY <1>3, <1>5, SameFlow

\* A frame passes, is collected, or completes the block.
LEMMA ProcessFlow ==
    ASSUME TypeInv, TypeInv', FlowInv, NEW voice \in BOOLEAN, ProcessFrame(voice)
    PROVE  FlowInv'
<1>0. /\ sent \in Samples /\ playout \in Samples /\ ns.accum \in Samples
      /\ accum \in Samples /\ ring \in Samples
  BY Arrangement
<1>1. PICK x, y \in Samples :
        /\ x = Taken(accum, FrameSamples) /\ y = Left(accum, FrameSamples)
        /\ accum = Cat(x, y) /\ Len(x) = FrameSamples
  <2>1. Len(accum) >= FrameSamples
    BY DEF ProcessFrame
  <2>2. QED
    BY <2>1, FrameTaken DEF Cat
<1>2. /\ denoised = <<>> /\ accum' = y
      /\ bypassed' = (bypassed \/ (~ ns.enabled /\ ns.accum # <<>>))
      /\ UNCHANGED <<sent, playout, ring, unsent, captured>>
  BY <1>1 DEF ProcessFrame
<1>3. Process(x, voice)
  BY <1>1 DEF ProcessFrame
<1>4. \/ ~ ns.enabled /\ denoised' = x /\ ns'.accum = ns.accum
      \/ denoised' = <<>> /\ ns'.accum = Cat(ns.accum, x)
      \/ denoised' = Cat(ns.accum, x) /\ ns'.accum = <<>>
  BY <1>1, <1>3, ProcessCases DEF Cat
<1>5. PICK n \in Samples : n = ns.accum
  BY <1>0
<1>6. PICK r \in Samples : r = Cat(y, ring)
  BY <1>0, CatAssociative
<1>7. PICK a \in Samples : a = Cat(sent, playout)
  BY <1>0, CatAssociative
<1>8. Cat(Cat(x, y), ring) = Cat(x, r)
  BY <1>0, <1>6, CatAssociative
<1>9. /\ Cat(x, r) \in Samples /\ Cat(n, Cat(x, r)) \in Samples
      /\ Cat(n, r) \in Samples /\ Cat(x, Cat(n, r)) \in Samples
  BY CatAssociative
<1>10. Pipeline = Cat(a, Cat(n, Cat(x, r)))
  <2>1. Pipeline = Cat(sent, Cat(playout, Cat(<<>>, Cat(n, Cat(x, r)))))
    BY <1>1, <1>2, <1>5, <1>8, Arrangement DEF Way
  <2>2. Cat(<<>>, Cat(n, Cat(x, r))) = Cat(n, Cat(x, r))
    BY <1>9, CatEmpty
  <2>3. Cat(Cat(sent, playout), Cat(n, Cat(x, r)))
            = Cat(sent, Cat(playout, Cat(n, Cat(x, r))))
    BY <1>0, <1>9, CatAssociative
  <2>4. QED
    BY <1>7, <2>1, <2>2, <2>3
<1>11. Pipeline' = Cat(sent, Cat(playout, Cat(denoised', Cat(ns'.accum, r))))
  BY <1>2, <1>6, Arrangement DEF Way
<1>12. ASSUME \/ denoised' = <<>> /\ ns'.accum = Cat(n, x)
              \/ denoised' = Cat(n, x) /\ ns'.accum = <<>>
       PROVE  FlowInv'
  <2>1. Cat(denoised', Cat(ns'.accum, r)) = Cat(n, Cat(x, r))
    <3>1. Cat(Cat(n, x), r) = Cat(n, Cat(x, r)) /\ Cat(Cat(n, x), r) \in Samples
      BY CatAssociative
    <3>2. Cat(<<>>, r) = r /\ Cat(<<>>, Cat(Cat(n, x), r)) = Cat(Cat(n, x), r)
      BY <3>1, CatEmpty
    <3>3. QED
      BY <1>12, <3>1, <3>2
  <2>2. Cat(Cat(sent, playout), Cat(n, Cat(x, r)))
            = Cat(sent, Cat(playout, Cat(n, Cat(x, r))))
    BY <1>0, <1>9, CatAssociative
  <2>3. Pipeline' = Pipeline
    BY <1>7, <1>10, <1>11, <2>1, <2>2
  <2>4. QED
    BY <1>2, <2>3, SameFlow
<1>13. ASSUME ~ ns.enabled, denoised' = x, ns'.accum = n
       PROVE  FlowInv'
  <2>1. Pipeline' = Cat(a, Cat(x, Cat(n, r)))
    <3>1. Cat(Cat(sent, playout), Cat(x, Cat(n, r)))
            = Cat(sent, Cat(playout, Cat(x, Cat(n, r))))
      BY <1>0, <1>9, CatAssociative
    <3>2. QED
      BY <1>7, <1>11, <1>13, <3>1
  <2>2. CASE n = <<>>
    <3>1. Cat(n, r) = r /\ Cat(n, Cat(x, r)) = Cat(x, r)
      BY <1>9, <2>2, CatEmpty
    <3>2. Pipeline' = Pipeline
      BY <1>10, <2>1, <3>1
    <3>3. QED
      BY <1>2, <3>2, SameFlow
  <2>3. CASE n # <<>>
    <3>1. Flow(Cat(a, Cat(n, Cat(x, r))), unsent, captured)
      BY <1>10 DEF FlowInv
    <3>2. Flow(Cat(a, Cat(x, Cat(n, r))), unsent, captured)
      BY <3>1, FlowSwaps
    <3>3. bypassed'
      BY <1>2, <1>5, <1>13, <2>3
    <3>4. QED
      BY <1>2, <2>1, <3>2, <3>3 DEF FlowInv
  <2>4. QED
    BY <2>2, <2>3
<1>14. QED
  <2>1. \/ ~ ns.enabled /\ denoised' = x /\ ns'.accum = n
        \/ denoised' = <<>> /\ ns'.accum = Cat(n, x)
        \/ denoised' = Cat(n, x) /\ ns'.accum = <<>>
    BY <1>4, <1>5
  <2>2. QED
    BY <2>1, <1>12, <1>13

\* The gate is open: the chunk is sent; shut: it is given up.
LEMMA HandleFlow ==
    ASSUME TypeInv, TypeInv', FlowInv, NEW loud \in BOOLEAN, HandleChunk(loud)
    PROVE  FlowInv'
<1>0. /\ sent \in Samples /\ playout \in Samples /\ ns.accum \in Samples
      /\ accum \in Samples /\ ring \in Samples
  BY Arrangement
<1>1. PICK x, y \in Samples :
        /\ x = Taken(denoised, FrameSamples) /\ y = Left(denoised, FrameSamples)
        /\ denoised = Cat(x, y)
  <2>1. denoised # <<>>
    BY DEF HandleChunk
  <2>2. QED
    BY <2>1, ChunkTaken DEF Cat
<1>2. /\ denoised' = y
      /\ UNCHANGED <<playout, ns, accum, ring, captured, bypassed>>
      /\ \/ sent' = Cat(sent, x) /\ unsent' = unsent
         \/ unsent' = unsent \cup ToSet(x) /\ sent' = sent
  BY <1>1 DEF HandleChunk, Cat
<1>3. playout = <<>>
  BY DEF HandleChunk, TypeInv
<1>4. PICK r \in Samples : r = Cat(ns.accum, Cat(accum, ring))
  BY <1>0, CatAssociative
<1>5. /\ Cat(y, r) \in Samples /\ Cat(x, Cat(y, r)) \in Samples
      /\ Cat(Cat(x, y), r) = Cat(x, Cat(y, r))
  BY CatAssociative
<1>6. Pipeline = Cat(sent, Cat(x, Cat(y, r)))
  <2>1. Pipeline = Cat(sent, Cat(<<>>, Cat(Cat(x, y), r)))
    BY <1>1, <1>3, <1>4, Arrangement DEF Way
  <2>2. QED
    BY <1>5, <2>1, CatEmpty
<1>7. Pipeline' = Cat(sent', Cat(y, r))
  <2>1. Pipeline' = Cat(sent', Cat(<<>>, Cat(y, r)))
    BY <1>2, <1>3, <1>4, Arrangement DEF Way
  <2>2. QED
    BY <1>5, <2>1, CatEmpty
<1>8. CASE sent' = Cat(sent, x) /\ unsent' = unsent
  <2>1. Cat(Cat(sent, x), Cat(y, r)) = Cat(sent, Cat(x, Cat(y, r)))
    BY <1>0, <1>5, CatAssociative
  <2>2. Pipeline' = Pipeline
    BY <1>6, <1>7, <1>8, <2>1
  <2>3. QED
    BY <1>2, <1>8, <2>2, SameFlow
<1>9. CASE unsent' = unsent \cup ToSet(x) /\ sent' = sent
  <2>1. Flow(Cat(sent, Cat(x, Cat(y, r))), unsent, captured)
    BY <1>6 DEF FlowInv
  <2>2. /\ Flow(Cat(sent, Cat(y, r)), unsent \cup ToSet(x), captured)
        /\ Increasing(Cat(sent, Cat(x, Cat(y, r)))) => Increasing(Cat(sent, Cat(y, r)))
    BY <1>0, <1>5, <2>1, FlowDrops
  <2>3. QED
    BY <1>2, <1>6, <1>7, <1>9, <2>2 DEF FlowInv
<1>10. QED
  BY <1>2, <1>8, <1>9

\* The loopback test: what the output ring has no room for is given up, and
\* the whole chunk when the codec fails.
LEMMA EchoFlow ==
    ASSUME TypeInv, TypeInv', FlowInv, NEW coded \in BOOLEAN, EchoChunk(coded)
    PROVE  FlowInv'
<1>0. /\ sent \in Samples /\ playout \in Samples /\ ns.accum \in Samples
      /\ accum \in Samples /\ ring \in Samples /\ Len(playout) <= RingCapacity
  BY Arrangement DEF TypeInv
<1>1. PICK x, y \in Samples :
        /\ x = Taken(denoised, FrameSamples) /\ y = Left(denoised, FrameSamples)
        /\ denoised = Cat(x, y)
  <2>1. denoised # <<>>
    BY DEF EchoChunk
  <2>2. QED
    BY <2>1, ChunkTaken DEF Cat
<1>2. /\ denoised' = y
      /\ playout' = PushSlice(playout, x) \/ playout' = playout
      /\ unsent' = unsent \cup (ToSet(x) \ ToSet(playout'))
      /\ UNCHANGED <<sent, ns, accum, ring, captured, bypassed>>
  BY <1>1 DEF EchoChunk
<1>3. PICK c, d \in Samples : x = Cat(c, d) /\ playout' = Cat(playout, c)
  <2>1. CASE playout' = PushSlice(playout, x)
    <3>1. PICK c, d \in Samples :
            /\ x = c \o d /\ PushSlice(playout, x) = playout \o c
            /\ Len(playout) + Len(c) <= RingCapacity
      BY <1>0, PushSliceSplits
    <3>2. QED
      BY <2>1, <3>1 DEF Cat
  <2>2. CASE playout' = playout
    <3>1. x = Cat(<<>>, x) /\ playout = Cat(playout, <<>>) /\ <<>> \in Samples
      BY <1>0, CatEmpty
    <3>2. QED
      BY <2>2, <3>1
  <2>3. QED
    BY <1>2, <2>1, <2>2
<1>4. PICK r \in Samples : r = Cat(ns.accum, Cat(accum, ring))
  BY <1>0, CatAssociative
<1>5. PICK q \in Samples : q = Cat(y, r)
  BY CatAssociative
<1>6. PICK b \in Samples : b = playout
  BY <1>0
<1>7. PICK a \in Samples : a = sent
  BY <1>0
<1>8. PICK p \in Samples : p = Cat(a, Cat(b, c)) /\ Cat(b, c) \in Samples
  BY CatAssociative
<1>9. Cat(d, q) \in Samples /\ Cat(c, Cat(d, q)) \in Samples
  BY CatAssociative
<1>10. Pipeline = Cat(p, Cat(d, q))
  <2>1. Pipeline = Cat(a, Cat(b, Cat(Cat(Cat(c, d), y), r)))
    BY <1>1, <1>3, <1>4, <1>6, <1>7, Arrangement DEF Way
  <2>2. Cat(Cat(Cat(c, d), y), r) = Cat(Cat(c, d), q)
    <3>1. Cat(c, d) \in Samples
      BY CatAssociative
    <3>2. Cat(Cat(Cat(c, d), y), r) = Cat(Cat(c, d), Cat(y, r))
      BY <3>1, CatAssociative
    <3>3. QED
      BY <1>5, <3>2
  <2>3. Cat(Cat(c, d), q) = Cat(c, Cat(d, q))
    BY CatAssociative
  <2>4. Cat(Cat(b, c), Cat(d, q)) = Cat(b, Cat(c, Cat(d, q)))
    BY <1>9, CatAssociative
  <2>5. Cat(Cat(a, Cat(b, c)), Cat(d, q)) = Cat(a, Cat(Cat(b, c), Cat(d, q)))
    BY <1>8, <1>9, CatAssociative
  <2>6. QED
    BY <1>8, <2>1, <2>2, <2>3, <2>4, <2>5
<1>11. Pipeline' = Cat(p, q)
  <2>1. Pipeline' = Cat(a, Cat(Cat(b, c), q))
    BY <1>2, <1>3, <1>4, <1>5, <1>6, <1>7, Arrangement DEF Way
  <2>2. Cat(Cat(a, Cat(b, c)), q) = Cat(a, Cat(Cat(b, c), q))
    BY <1>8, CatAssociative
  <2>3. QED
    BY <1>8, <2>1, <2>2
<1>12. Flow(Cat(p, Cat(d, q)), unsent, captured)
  BY <1>10 DEF FlowInv
<1>13. /\ Flow(Cat(p, q), unsent \cup ToSet(d), captured)
       /\ Increasing(Cat(p, Cat(d, q))) => Increasing(Cat(p, q))
       /\ ToSet(p) \cap ToSet(d) = {}
  BY <1>12, FlowDrops
<1>14. ToSet(x) \ ToSet(playout') = ToSet(d)
  <2>1. ToSet(x) = ToSet(c) \cup ToSet(d)
    BY <1>3, CatMeaning
  <2>2. ToSet(Cat(b, c)) = ToSet(b) \cup ToSet(c)
    BY CatMeaning
  <2>3. ToSet(Cat(a, Cat(b, c))) = ToSet(a) \cup ToSet(Cat(b, c))
    BY <1>8, CatMeaning
  <2>4. QED
    BY <1>3, <1>6, <1>8, <1>13, <2>1, <2>2, <2>3
<1>15. QED
  BY <1>2, <1>10, <1>11, <1>13, <1>14 DEF FlowInv

\* The steps of the user and of the loop's control move no sample.
LEMMA QuietFlow ==
    ASSUME TypeInv, FlowInv,
           \/ ToggleSuppression \/ (\E mode \in Modes : SelectMode(mode))
           \/ TogglePtt \/ Stop
           \/ SyncFlags \/ SyncMode \/ NextTurn \/ EndTurn
           \/ UNCHANGED vars
    PROVE  FlowInv'
<1>1. /\ UNCHANGED <<sent, playout, denoised, accum, ring>> /\ ns'.accum = ns.accum
      /\ UNCHANGED <<unsent, captured, bypassed>>
  <2>1. CASE \/ ToggleSuppression \/ (\E mode \in Modes : SelectMode(mode))
             \/ TogglePtt \/ Stop
    BY <2>1 DEF ToggleSuppression, SelectMode, TogglePtt, Stop, Click, loop
  <2>2. CASE SyncFlags
    BY <2>2 DEF SyncFlags, TypeInv, Suppressors
  <2>3. CASE SyncMode
    BY <2>3 DEF SyncMode
  <2>4. CASE NextTurn
    BY <2>4 DEF NextTurn, history
  <2>5. CASE EndTurn
    BY <2>5 DEF EndTurn, history
  <2>6. CASE UNCHANGED vars
    BY <2>6 DEF vars, loop, history
  <2>7. QED
    BY <2>1, <2>2, <2>3, <2>4, <2>5, <2>6
<1>2. Pipeline' = Pipeline
  BY <1>1 DEF Pipeline
<1>3. QED
  BY <1>1, <1>2, SameFlow

LEMMA StepFlow == TypeInv /\ TypeInv' /\ FlowInv /\ [Next]_vars => FlowInv'
<1> SUFFICES ASSUME TypeInv, TypeInv', FlowInv, [Next]_vars PROVE FlowInv'
  OBVIOUS
<1>1. CASE CaptureCallback
  BY <1>1, CaptureFlow
<1>2. CASE PlayoutCallback
  BY <1>2, PlayoutFlow
<1>3. CASE \/ ToggleSuppression \/ (\E mode \in Modes : SelectMode(mode))
           \/ TogglePtt \/ Stop
           \/ SyncFlags \/ SyncMode \/ NextTurn \/ EndTurn
           \/ UNCHANGED vars
  BY <1>3, QuietFlow
<1>4. CASE PopRing
  BY <1>4, PopFlow
<1>5. ASSUME NEW voice \in BOOLEAN, ProcessFrame(voice)
      PROVE  FlowInv'
  BY <1>5, ProcessFlow
<1>6. ASSUME NEW loud \in BOOLEAN, HandleChunk(loud)
      PROVE  FlowInv'
  BY <1>6, HandleFlow
<1>7. ASSUME NEW coded \in BOOLEAN, EchoChunk(coded)
      PROVE  FlowInv'
  BY <1>7, EchoFlow
<1>8. QED
  BY <1>1, <1>2, <1>3, <1>4, <1>5, <1>6, <1>7 DEF Next, LoopStep

\* In every state each sample delivered is in one place, and in order unless
\* a frame passed by a block that was being collected.
THEOREM FlowHolds == Spec => []FlowInv
<1>1. Init => FlowInv
  BY InitFlow
<1>2. TypeInv /\ TypeInv' /\ FlowInv /\ [Next]_vars => FlowInv'
  BY StepFlow
<1>3. QED
  BY <1>1, <1>2, TypesHold, PTL DEF Spec

\* Every sample the device delivered is in exactly one place: sent (or played)
\* once, given up, or on its way, for all sizes and all interleavings.
THEOREM AccountedCorrect == Spec => []Accounted
<1>1. FlowInv /\ TypeInv => Accounted
  <2> SUFFICES ASSUME FlowInv, TypeInv PROVE Accounted
    OBVIOUS
  <2>1. /\ Pipeline \in Samples /\ Distinct(Pipeline)
        /\ ToSet(Pipeline) \cap unsent = {}
        /\ ToSet(Pipeline) \cup unsent = 1 .. captured
    BY DEF FlowInv, Flow
  <2>2. IsFiniteSet(ToSet(Pipeline)) /\ Cardinality(ToSet(Pipeline)) = Len(Pipeline)
    BY <2>1, DistinctCounts
  <2>3. captured \in Nat
    BY DEF TypeInv
  <2>4. IsFiniteSet(1 .. captured) /\ Cardinality(1 .. captured) = captured
    BY <2>3, FS_Interval
  <2>5. IsFiniteSet(unsent)
    <3>1. unsent \subseteq 1 .. captured
      BY <2>1
    <3>2. QED
      BY <2>4, <3>1, FS_Subset
  <2>6. Cardinality(ToSet(Pipeline) \cup unsent)
            = Cardinality(ToSet(Pipeline)) + Cardinality(unsent)
              - Cardinality(ToSet(Pipeline) \cap unsent)
    BY <2>2, <2>5, FS_Union
  <2>7. Cardinality({}) = 0 /\ Cardinality(unsent) \in Nat /\ Len(Pipeline) \in Nat
    BY <2>1, <2>5, FS_EmptySet, FS_CardinalityType, Positions
  <2>8. Len(Pipeline) + Cardinality(unsent) = captured
    <3>1. captured = Len(Pipeline) + Cardinality(unsent) - 0
      BY <2>1, <2>2, <2>4, <2>6, <2>7
    <3>2. QED
      BY <2>3, <2>7, <3>1
  <2>9. QED
    BY <2>1, <2>8 DEF Accounted
<1>2. QED
  BY <1>1, FlowHolds, TypesHold, PTL

\* Samples are sent (or played) in the order of their capture, unless
\* suppression was switched off while it was collecting a block.
THEOREM InOrderCorrect == Spec => []InOrder
<1>1. FlowInv => InOrder
  <2> SUFFICES ASSUME FlowInv, ~ bypassed, NEW i \in 1 .. Len(Pipeline) - 1
               PROVE  Pipeline[i] < Pipeline[i + 1]
    BY DEF InOrder
  <2>1. Len(Pipeline) \in Nat /\ Increasing(Pipeline)
    BY Positions DEF FlowInv, Flow
  <2>2. i \in 1 .. Len(Pipeline) /\ i + 1 \in 1 .. Len(Pipeline) /\ i < i + 1
    BY <2>1
  <2>3. QED
    BY <2>1, <2>2 DEF Increasing
<1>2. QED
  BY <1>1, FlowHolds, PTL

-----------------------------------------------------------------------------
(* The gate and the controls *)

\* What the loop has loaded since the last click is still what the controls say.
ControlInv ==
    /\ synced \in 0 .. 2
    /\ synced = 1 => pc = "mode"
    /\ synced # 0 => ~ loopback /\ gate.ptt_active = shared.ptt_active
    /\ synced = 2 => gate.mode = shared.input_mode

\* The hold counter is what is left of the hold time.
HoldInv ==
    /\ quiet \in 0 .. HoldFrames + 1
    /\ quiet <= HoldFrames =>
            vad = [hold_counter |-> HoldFrames - quiet, is_active |-> TRUE]
    /\ quiet > HoldFrames => vad = [hold_counter |-> 0, is_active |-> FALSE]

LEMMA InitGate == Init => ControlInv /\ HoldInv
  BY DEF Init, ControlInv, HoldInv

\* detect counts the chunks since voice was found.
LEMMA DetectCounts ==
    ASSUME HoldInv, NEW loud \in BOOLEAN, HandleChunk(loud)
    PROVE  HoldInv' /\ (vad'.is_active <=> quiet' <= HoldFrames)
<1> DEFINE voice == loud /\ (ns.enabled => ns.voice)
<1>1. /\ vad' = Detect(voice)
      /\ quiet' = IF voice THEN 0 ELSE IF quiet > HoldFrames THEN quiet ELSE quiet + 1
  BY DEF HandleChunk
<1> HIDE DEF voice
<1>2. quiet \in Nat /\ HoldFrames \in Nat /\ quiet <= HoldFrames + 1
  BY DEF HoldInv
<1>3. CASE voice
  <2>1. quiet' = 0 /\ vad' = [hold_counter |-> HoldFrames, is_active |-> TRUE]
    BY <1>1, <1>3 DEF Detect
  <2>2. 0 <= HoldFrames /\ HoldFrames - 0 = HoldFrames /\ ~ (0 > HoldFrames)
        /\ 0 \in 0 .. HoldFrames + 1
    BY <1>2
  <2>3. QED
    BY <2>1, <2>2 DEF HoldInv
<1>4. CASE ~ voice /\ quiet < HoldFrames
  <2>1. /\ quiet <= HoldFrames /\ ~ (quiet > HoldFrames) /\ HoldFrames - quiet > 0
        /\ quiet + 1 <= HoldFrames /\ ~ (quiet + 1 > HoldFrames)
        /\ (HoldFrames - quiet) - 1 = HoldFrames - (quiet + 1)
        /\ quiet + 1 \in 0 .. HoldFrames + 1
    BY <1>2, <1>4
  <2>2. vad = [hold_counter |-> HoldFrames - quiet, is_active |-> TRUE]
    BY <2>1 DEF HoldInv
  <2>3. vad' = [hold_counter |-> (HoldFrames - quiet) - 1, is_active |-> TRUE]
    BY <1>1, <1>4, <2>1, <2>2 DEF Detect
  <2>4. quiet' = quiet + 1
    BY <1>1, <1>4, <2>1
  <2>5. QED
    BY <2>1, <2>3, <2>4 DEF HoldInv
<1>5. CASE ~ voice /\ ~ (quiet < HoldFrames)
  <2>1. quiet = HoldFrames \/ quiet = HoldFrames + 1
    BY <1>2, <1>5
  <2>2. /\ HoldFrames - HoldFrames = 0 /\ ~ (0 > 0) /\ HoldFrames + 1 > HoldFrames
        /\ HoldFrames <= HoldFrames /\ ~ (HoldFrames > HoldFrames)
        /\ ~ (HoldFrames + 1 <= HoldFrames) /\ HoldFrames + 1 \in 0 .. HoldFrames + 1
    BY <1>2
  <2>3. quiet' = HoldFrames + 1
    BY <1>1, <1>5, <2>1, <2>2
  <2>4. \/ vad = [hold_counter |-> 0, is_active |-> TRUE]
        \/ vad = [hold_counter |-> 0, is_active |-> FALSE]
    BY <2>1, <2>2 DEF HoldInv
  <2>5. vad' = [hold_counter |-> 0, is_active |-> FALSE]
    <3>1. vad.hold_counter = 0 /\ ~ (vad.hold_counter > 0)
      BY <2>4
    <3>2. vad' = [vad EXCEPT !.is_active = FALSE]
      BY <1>1, <1>5, <3>1 DEF Detect
    <3>3. CASE vad = [hold_counter |-> 0, is_active |-> TRUE]
      BY <3>2, <3>3
    <3>4. CASE vad = [hold_counter |-> 0, is_active |-> FALSE]
      BY <3>2, <3>4
    <3>5. QED
      BY <2>4, <3>3, <3>4
  <2>6. QED
    BY <2>2, <2>3, <2>5 DEF HoldInv
<1>6. QED
  BY <1>3, <1>4, <1>5

LEMMA StepGate ==
    TypeInv /\ ControlInv /\ HoldInv /\ [Next]_vars => ControlInv' /\ HoldInv'
<1> SUFFICES ASSUME TypeInv, ControlInv, HoldInv, [Next]_vars
             PROVE  ControlInv' /\ HoldInv'
  OBVIOUS
<1>1. CASE CaptureCallback
  BY <1>1 DEF CaptureCallback, ControlInv, HoldInv, loop
<1>2. CASE PlayoutCallback
  BY <1>2 DEF PlayoutCallback, ControlInv, HoldInv, loop
<1>3. CASE ToggleSuppression \/ (\E mode \in Modes : SelectMode(mode))
                \/ TogglePtt \/ Stop
  <2>1. synced' = 0 /\ UNCHANGED <<quiet, vad>>
    BY <1>3 DEF ToggleSuppression, SelectMode, TogglePtt, Stop, Click, loop
  <2>2. QED
    BY <2>1 DEF ControlInv, HoldInv
<1>4. CASE SyncFlags
  <2>1. gate'.ptt_active = shared.ptt_active /\ gate'.mode = gate.mode
    BY <1>4 DEF SyncFlags, TypeInv, Gates
  <2>2. QED
    BY <1>4, <2>1 DEF SyncFlags, ControlInv, HoldInv
<1>5. CASE SyncMode
  <2>1. gate'.ptt_active = gate.ptt_active /\ gate'.mode = shared.input_mode
    BY <1>5 DEF SyncMode, TypeInv, Gates
  <2>2. QED
    BY <1>5, <2>1 DEF SyncMode, ControlInv, HoldInv
<1>6. CASE NextTurn
  BY <1>6 DEF NextTurn, ControlInv, HoldInv, history
<1>7. CASE EndTurn
  <2>1. /\ shared'.ptt_active = shared.ptt_active
        /\ shared'.input_mode = shared.input_mode
    BY <1>7 DEF EndTurn, TypeInv, Controls
  <2>2. QED
    BY <1>7, <2>1 DEF EndTurn, ControlInv, HoldInv, history
<1>8. CASE PopRing
  BY <1>8 DEF PopRing, ControlInv, HoldInv, history
<1>9. ASSUME NEW voice \in BOOLEAN, ProcessFrame(voice)
      PROVE  ControlInv' /\ HoldInv'
  BY <1>9 DEF ProcessFrame, ControlInv, HoldInv
<1>10. ASSUME NEW loud \in BOOLEAN, HandleChunk(loud)
       PROVE  ControlInv' /\ HoldInv'
  <2>1. HoldInv'
    BY <1>10, DetectCounts
  <2>2. gate'.ptt_active = gate.ptt_active /\ gate'.mode = gate.mode
    BY <1>10 DEF HandleChunk, TypeInv, Gates
  <2>3. QED
    BY <1>10, <2>1, <2>2 DEF HandleChunk, ControlInv
<1>11. ASSUME NEW coded \in BOOLEAN, EchoChunk(coded)
       PROVE  ControlInv' /\ HoldInv'
  BY <1>11 DEF EchoChunk, ControlInv, HoldInv
<1>12. CASE UNCHANGED vars
  BY <1>12 DEF vars, loop, history, ControlInv, HoldInv
<1>13. QED
  BY <1>1, <1>2, <1>3, <1>4, <1>5, <1>6, <1>7, <1>8, <1>9, <1>10, <1>11, <1>12
     DEF Next, LoopStep

\* What the gate does with a chunk, from its own state.
LEMMA GateDecides ==
    ASSUME TypeInv, NEW loud \in BOOLEAN, HandleChunk(loud)
    PROVE  (sent' # sent) <=> ShouldTransmit(vad'.is_active)
<1>1. PICK x \in Samples : x = Taken(denoised, FrameSamples) /\ Len(x) = FrameSamples
  BY ChunkTaken DEF HandleChunk
<1>2. gate'.is_transmitting = ShouldTransmit(vad'.is_active)
  BY DEF HandleChunk, TypeInv, Gates
<1>3. IF gate'.is_transmitting THEN sent' = sent \o x ELSE sent' = sent
  BY <1>1 DEF HandleChunk
<1>4. sent \o x # sent
  <2>1. sent \in Samples /\ Len(sent) \in Nat
    BY Positions DEF TypeInv
  <2>2. Len(sent \o x) = Len(sent) + Len(x)
    BY <2>1, ConcatPositions
  <2>3. Len(sent) + FrameSamples # Len(sent)
    BY <2>1
  <2>4. QED
    BY <1>1, <2>2, <2>3
<1>5. QED
  BY <1>2, <1>3, <1>4

\* One turn after the user's last click the gate does what the controls say,
\* and voice activation sends exactly the chunks of the hold time.
THEOREM GateCorrect == Spec => GateFollowsControls
<1> DEFINE Decision ==
        (denoised # <<>> /\ denoised' # denoised /\ synced = 2) =>
            (sent' # sent) =
                CASE shared.input_mode = "AlwaysOn" -> TRUE
                  [] shared.input_mode = "PushToTalk" -> shared.ptt_active
                  [] shared.input_mode = "VoiceActivation" -> quiet' <= HoldFrames
<1>1. TypeInv /\ ControlInv /\ HoldInv /\ [Next]_vars => [Decision]_vars
  <2> SUFFICES ASSUME TypeInv, ControlInv, HoldInv, Next,
                      denoised # <<>>, denoised' # denoised, synced = 2
               PROVE  (sent' # sent) =
                        CASE shared.input_mode = "AlwaysOn" -> TRUE
                          [] shared.input_mode = "PushToTalk" -> shared.ptt_active
                          [] shared.input_mode = "VoiceActivation" -> quiet' <= HoldFrames
    OBVIOUS
  <2>1. PICK loud \in BOOLEAN : HandleChunk(loud)
    <3>1. ~ loopback
      BY DEF ControlInv
    <3>2. QED
      BY <3>1 DEF Next, LoopStep, CaptureCallback, PlayoutCallback, ToggleSuppression,
            SelectMode, TogglePtt, Stop, Click, SyncFlags, SyncMode, NextTurn, PopRing,
            ProcessFrame, EchoChunk, EndTurn, loop
  <2>2. /\ gate.mode = shared.input_mode /\ gate.ptt_active = shared.ptt_active
        /\ gate.mode \in Modes /\ gate.ptt_active \in BOOLEAN
    BY DEF ControlInv, TypeInv, Gates
  <2>3. vad'.is_active <=> quiet' <= HoldFrames
    BY <2>1, DetectCounts
  <2>4. vad'.is_active \in BOOLEAN
    <3>1. TypeInv'
      BY <2>1, HandleTypes
    <3>2. QED
      BY <3>1 DEF TypeInv, Detectors
  <2>5. (sent' # sent) <=> ShouldTransmit(vad'.is_active)
    BY <2>1, GateDecides
  <2>6. CASE gate.mode = "AlwaysOn"
    BY <2>2, <2>5, <2>6 DEF ShouldTransmit
  <2>7. CASE gate.mode = "PushToTalk"
    BY <2>2, <2>5, <2>7 DEF ShouldTransmit
  <2>8. CASE gate.mode = "VoiceActivation"
    BY <2>2, <2>3, <2>4, <2>5, <2>8 DEF ShouldTransmit
  <2>9. QED
    BY <2>2, <2>6, <2>7, <2>8 DEF Modes
<1>2. Init => ControlInv /\ HoldInv
  BY InitGate
<1>3. TypeInv /\ ControlInv /\ HoldInv /\ [Next]_vars => ControlInv' /\ HoldInv'
  BY StepGate
<1>4. QED
  BY <1>1, <1>2, <1>3, TypesHold, PTL DEF Spec, GateFollowsControls
=============================================================================
