---------------------------- MODULE JitterProofs ----------------------------
(***************************************************************************)
(* For every number of sequence numbers, every depth, every window of the  *)
(* replay filter and every length of the stream: the jitter buffer plays   *)
(* what it has in the order it was spoken, although it knows the frames by *)
(* numbers that wrap.                                                      *)
(*                                                                         *)
(* The argument: everything the buffer compares lies within half the       *)
(* numbers of each other (Window), where the wrapping difference of two    *)
(* numbers has the sign of the difference of the frames (WrappingDistance).*)
(***************************************************************************)
EXTENDS JitterStream, SequenceTheorems, WellFoundedInduction, TLAPS

USE JitterAssumption, StreamAssumption

(* Arithmetic modulo the sequence numbers *)

LEMMA DivMod ==
    ASSUME NEW S \in Nat \ {0}, NEW a \in Int
    PROVE  /\ a \div S \in Int /\ a % S \in 0 .. S - 1
           /\ a = S * (a \div S) + (a % S)
  OBVIOUS

\* Two numbers less than S apart that agree modulo S are equal.
LEMMA SameNumber ==
    ASSUME NEW S \in Nat \ {0}, NEW a \in Int, NEW b \in Int,
           a % S = b % S, a - b < S, b - a < S
    PROVE  a = b
<1> DEFINE q == a \div S
           p == b \div S
           r == a % S
<1>1. /\ q \in Int /\ p \in Int /\ r \in 0 .. S - 1
      /\ a = S * q + r /\ b = S * p + r
  BY DivMod
<1> HIDE DEF q, p, r
<1>2. q = p
  BY <1>1
<1>3. QED
  BY <1>1, <1>2

\* The difference modulo S of two numbers less than S apart.
LEMMA ModularDifference ==
    ASSUME NEW S \in Nat \ {0}, NEW a \in Int, NEW b \in Int,
           a - b < S, b - a < S
    PROVE  ((a % S) - (b % S)) % S = IF a >= b THEN a - b ELSE a - b + S
<1> DEFINE q == a \div S
           p == b \div S
           r == a % S
           t == b % S
           d == IF a >= b THEN a - b ELSE a - b + S
<1>1. /\ q \in Int /\ p \in Int /\ r \in 0 .. S - 1 /\ t \in 0 .. S - 1
      /\ a = S * q + r /\ b = S * p + t
  BY DivMod
<1> HIDE DEF q, p, r, t
<1>2. d \in 0 .. S - 1
  OBVIOUS
<1>3. r - t = d \/ r - t = d - S
  <2>1. S * (q - p) = S * q - S * p /\ S * (q - p + 1) = S * q - S * p + S
    BY <1>1
  <2>2. S * q \in Int /\ S * p \in Int
    BY <1>1
  <2>3. PICK k \in Int : d - (r - t) = S * k
    <3>1. CASE a >= b
      <4>1. q - p \in Int /\ d - (r - t) = S * (q - p)
        BY <1>1, <2>1, <2>2, <3>1
      <4>2. QED
        BY <4>1
    <3>2. CASE ~ (a >= b)
      <4>1. q - p + 1 \in Int /\ d - (r - t) = S * (q - p + 1)
        BY <1>1, <2>1, <2>2, <3>2
      <4>2. QED
        BY <4>1
    <3>3. QED
      BY <3>1, <3>2
  <2>4. - S < S * k /\ S * k < 2 * S
    BY <1>1, <1>2, <2>3
  <2>5. k = 0 \/ k = 1
    BY <2>4
  <2>6. QED
    BY <1>1, <1>2, <2>3, <2>5
<1>4. (r - t) % S = d
  BY <1>1, <1>2, <1>3
<1>5. QED
  BY <1>4 DEF r, t

\* Adding one wraps.
LEMMA ModularSuccessor ==
    ASSUME NEW S \in Nat \ {0}, NEW a \in Int
    PROVE  ((a % S) + 1) % S = (a + 1) % S
<1> DEFINE q == a \div S
           r == a % S
<1>1. q \in Int /\ r \in 0 .. S - 1 /\ a = S * q + r
  BY DivMod
<1> HIDE DEF q, r
<1>2. CASE r + 1 < S
  <2>1. a + 1 = S * q + (r + 1) /\ r + 1 \in 0 .. S - 1
    BY <1>1, <1>2
  <2>2. (a + 1) % S = r + 1
    BY <1>1, <2>1
  <2>3. (r + 1) % S = r + 1
    BY <2>1
  <2>4. QED
    BY <2>2, <2>3 DEF r
<1>3. CASE r + 1 = S
  <2>1. a + 1 = S * (q + 1) + 0
    BY <1>1, <1>3
  <2>2. (a + 1) % S = 0
    BY <1>1, <2>1
  <2>3. (r + 1) % S = 0
    BY <1>3
  <2>4. QED
    BY <2>2, <2>3 DEF r
<1>4. QED
  BY <1>1, <1>2, <1>3

LEMMA HalfBounds ==
    /\ SeqCount \in Nat \ {0} /\ Half \in Nat
    /\ 2 * Half < SeqCount /\ SeqCount <= 2 * Half + 2
  BY DEF Half

\* As long as two frames are no further apart than the numbers, the wrapping
\* difference of their numbers tells which is older.
LEMMA WrappingDistance ==
    ASSUME NEW a \in Int, NEW b \in Int, a - b < SeqCount, b - a < SeqCount
    PROVE  WrappingSub(a % SeqCount, b % SeqCount)
                = IF a >= b THEN a - b ELSE a - b + SeqCount
  BY HalfBounds, ModularDifference DEF WrappingSub

-----------------------------------------------------------------------------
(* What the library's operators on sequences do *)

LEMMA MinIsLeast ==
    ASSUME NEW T, T \subseteq Nat, T # {}
    PROVE  Min(T) \in T /\ \A y \in T : Min(T) <= y
<1> DEFINE R == {p \in Nat \X Nat : p[1] < p[2]}
<1>1. IsWellFoundedOn(R, Nat)
  BY NatLessThanWellFounded DEF OpToRel
<1>2. PICK x \in T : \A y \in T : ~ (<<y, x>> \in R)
  BY <1>1, WFMin
<1>3. ASSUME NEW y \in T
      PROVE  x <= y
  <2>1. x \in Nat /\ y \in Nat
    OBVIOUS
  <2>2. ~ (<<y, x>>[1] < <<y, x>>[2])
    BY <1>2, <2>1
  <2>3. QED
    BY <2>1, <2>2
<1>4. QED
  BY <1>3 DEF Min

\* The first position of a set of positions, 0 if there is none: the body of
\* SelectInSeq.
LEMMA FirstPosition ==
    ASSUME NEW n \in Nat, NEW I, I \subseteq 1 .. n
    PROVE  LET k == IF I # {} THEN Min(I) ELSE 0 IN
           /\ I = {} => k = 0
           /\ I # {} => k \in I /\ \A i \in 1 .. k - 1 : i \notin I
<1>1. CASE I # {}
  <2>1. I \subseteq Nat
    OBVIOUS
  <2>2. Min(I) \in I /\ \A y \in I : Min(I) <= y
    BY <1>1, <2>1, MinIsLeast
  <2>3. ASSUME NEW i \in 1 .. Min(I) - 1
        PROVE  i \notin I
    <3>1. Min(I) \in Nat
      BY <2>1, <2>2
    <3>2. i < Min(I) /\ i \in Nat
      BY <3>1
    <3>3. QED
      BY <2>2, <3>1, <3>2
  <2>4. QED
    BY <1>1, <2>2, <2>3
<1>2. QED
  BY <1>1

LEMMA InsertAtMeaning ==
    ASSUME NEW S, NEW s \in Seq(S), NEW e \in S, NEW p \in 1 .. Len(s) + 1
    PROVE  LET t == InsertAt(s, p, e) IN
           /\ t \in Seq(S) /\ Len(t) = Len(s) + 1
           /\ \A i \in 1 .. Len(s) + 1 :
                t[i] = IF i < p THEN s[i] ELSE IF i = p THEN e ELSE s[i - 1]
<1> DEFINE a == SubSeq(s, 1, p - 1)
           b == SubSeq(s, p, Len(s))
           o == <<e>>
           ao == a \o o
<1>0. Len(s) \in Nat /\ \A i \in 1 .. Len(s) : s[i] \in S
  OBVIOUS
<1>1. /\ a \in Seq(S) /\ Len(a) = p - 1
      /\ \A i \in 1 .. p - 1 : a[i] = s[i]
  BY <1>0, SubSeqProperties
<1>2. /\ b \in Seq(S) /\ Len(b) = Len(s) - p + 1
      /\ \A i \in 1 .. Len(s) - p + 1 : b[i] = s[p + i - 1]
  BY <1>0, SubSeqProperties
<1>3. o \in Seq(S) /\ Len(o) = 1 /\ o[1] = e
  OBVIOUS
<1> HIDE DEF a, b, o
<1>4. /\ ao \in Seq(S) /\ Len(ao) = Len(a) + Len(o)
      /\ \A i \in 1 .. Len(a) + Len(o) :
            ao[i] = IF i <= Len(a) THEN a[i] ELSE o[i - Len(a)]
  BY <1>1, <1>3, ConcatProperties
<1> HIDE DEF ao
<1>5. Len(ao) = p /\ \A i \in 1 .. p : ao[i] = IF i < p THEN s[i] ELSE e
  BY <1>0, <1>1, <1>3, <1>4, SMTT(30)
<1>6. /\ ao \o b \in Seq(S) /\ Len(ao \o b) = Len(ao) + Len(b)
      /\ \A i \in 1 .. Len(ao) + Len(b) :
            (ao \o b)[i] = IF i <= Len(ao) THEN ao[i] ELSE b[i - Len(ao)]
  BY <1>2, <1>4, ConcatProperties, ZenonT(60)
<1>7. InsertAt(s, p, e) = ao \o b
  BY DEF InsertAt, ao, a, b, o
<1>8. QED
  BY <1>0, <1>2, <1>5, <1>6, <1>7

LEMMA RemoveAtMeaning ==
    ASSUME NEW S, NEW s \in Seq(S), NEW p \in 1 .. Len(s)
    PROVE  LET t == RemoveAt(s, p) IN
           /\ t \in Seq(S) /\ Len(t) = Len(s) - 1
           /\ \A i \in 1 .. Len(s) - 1 : t[i] = IF i < p THEN s[i] ELSE s[i + 1]
<1> DEFINE a == SubSeq(s, 1, p - 1)
           b == SubSeq(s, p + 1, Len(s))
<1>0. Len(s) \in Nat /\ \A i \in 1 .. Len(s) : s[i] \in S
  OBVIOUS
<1>1. /\ a \in Seq(S) /\ Len(a) = p - 1
      /\ \A i \in 1 .. p - 1 : a[i] = s[i]
  BY <1>0, SubSeqProperties
<1>2. /\ b \in Seq(S) /\ Len(b) = Len(s) - p
      /\ \A i \in 1 .. Len(s) - p : b[i] = s[p + i]
  BY <1>0, SubSeqProperties
<1> HIDE DEF a, b
<1>3. /\ a \o b \in Seq(S) /\ Len(a \o b) = Len(a) + Len(b)
      /\ \A i \in 1 .. Len(a) + Len(b) :
            (a \o b)[i] = IF i <= Len(a) THEN a[i] ELSE b[i - Len(a)]
  BY <1>1, <1>2, ConcatProperties
<1>4. RemoveAt(s, p) = a \o b
  BY DEF RemoveAt, a, b
<1>5. Len(a \o b) = Len(s) - 1
  BY <1>0, <1>1, <1>2, <1>3
<1>6. ASSUME NEW i \in 1 .. Len(s) - 1
      PROVE  (a \o b)[i] = IF i < p THEN s[i] ELSE s[i + 1]
  <2>1. CASE i < p
    BY <1>0, <1>1, <1>2, <1>3, <2>1
  <2>2. CASE ~ (i < p)
    <3>1. (a \o b)[i] = b[i - (p - 1)]
      BY <1>0, <1>1, <1>2, <1>3, <2>2
    <3>2. i - (p - 1) \in 1 .. Len(s) - p /\ p + (i - (p - 1)) = i + 1
      BY <1>0, <2>2
    <3>3. QED
      BY <1>2, <2>2, <3>1, <3>2
  <2>3. QED
    BY <2>1, <2>2
<1>7. QED
  BY <1>3, <1>4, <1>5, <1>6
-----------------------------------------------------------------------------
(* The inductive invariant *)

Frames == [seq_num : 0 .. SeqCount - 1, pcm : 0 .. MaxSent]

Buffers ==
    [frames : Seq(Frames), target_depth : 1 .. MaxDepth,
     next_playout_seq : {NoSeq} \cup 0 .. SeqCount - 1,
     total_packets : Nat, late_packets : Nat,
     time_since_decrease : 0 .. Holdoff]

Types ==
    /\ jb \in Buffers
    /\ jb.late_packets <= jb.total_packets
    /\ Len(jb.frames) <= 2 * MaxDepth
    /\ sent \in 0 .. MaxSent /\ flight \subseteq 0 .. sent - 1
    /\ newest \in -1 .. sent - 1
    /\ due \in {NoSeq} \cup Nat /\ played \in {-1} \cup Nat

\* What is in the buffer: frames that arrived, in order, none of them overdue.
Content(frames) ==
    /\ \A k \in 1 .. Len(frames) :
        /\ frames[k].seq_num = frames[k].pcm % SeqCount
        /\ frames[k].pcm <= newest /\ frames[k].pcm \notin flight
        /\ due # NoSeq => frames[k].pcm >= due
    /\ \A k, l \in 1 .. Len(frames) : k < l => frames[k].pcm < frames[l].pcm

\* next_playout_seq is the number of the frame that is due, which is at most
\* the one after the newest; what was played comes before it.
Playout ==
    /\ jb.next_playout_seq = IF due = NoSeq THEN NoSeq ELSE due % SeqCount
    /\ due <= newest + 1
    /\ IF due = NoSeq THEN played = -1 ELSE played < due

\* Everything that may still have to be put in order lies within half the
\* sequence numbers.
Window ==
    IF due # NoSeq THEN sent - due <= Half
    ELSE /\ \A i \in flight : sent - i <= Half
         /\ \A k \in 1 .. Len(jb.frames) : sent - jb.frames[k].pcm <= Half

Inv == Types /\ Content(jb.frames) /\ Playout /\ Window

\* The types of the parts of the buffer.
LEMMA BufferTypes ==
    ASSUME Types
    PROVE  /\ jb.frames \in Seq(Frames) /\ Len(jb.frames) \in Nat
           /\ DOMAIN jb.frames = 1 .. Len(jb.frames)
           /\ \A k \in 1 .. Len(jb.frames) :
                jb.frames[k] \in Frames /\ jb.frames[k].pcm \in Nat
           /\ jb.total_packets \in Nat /\ jb.late_packets \in Nat
           /\ jb.target_depth \in 1 .. MaxDepth
           /\ jb.time_since_decrease \in 0 .. Holdoff
           /\ sent \in Nat /\ newest \in Int /\ due \in Int /\ played \in Int
           /\ \A i \in flight : i \in Nat /\ i < sent
<1>1. jb.frames \in Seq(Frames)
  BY DEF Types, Buffers
<1>2. \A k \in 1 .. Len(jb.frames) : jb.frames[k] \in Frames
  BY <1>1
<1>3. \A f \in Frames : f.pcm \in Nat
  BY DEF Frames
<1>4. QED
  BY <1>1, <1>2, <1>3 DEF Types, Buffers, NoSeq

LEMMA InitInv == Init => Inv
<1> SUFFICES ASSUME Init PROVE Inv
  OBVIOUS
<1>1. jb.frames = <<>> /\ Len(jb.frames) = 0 /\ jb.next_playout_seq = NoSeq
  BY DEF Init, NewBuffer
<1>2. NewBuffer \in Buffers
  BY DEF NewBuffer, Buffers
<1>3. Types
  BY <1>1, <1>2 DEF Init, Types, NewBuffer
<1>4. QED
  BY <1>1, <1>3 DEF Init, Inv, Content, Playout, Window, NoSeq

\* What the wait of the sender means: nothing that Oldest looks at is half
\* the numbers behind.
LEMMA OldestIsLeast ==
    ASSUME Types
    PROVE  IF due # NoSeq THEN Oldest = due
           ELSE /\ Oldest \in Nat /\ Oldest <= sent
                /\ \A i \in flight : Oldest <= i
                /\ \A k \in 1 .. Len(jb.frames) : Oldest <= jb.frames[k].pcm
<1> DEFINE T == {sent} \cup flight \cup {jb.frames[k].pcm : k \in DOMAIN jb.frames}
<1>1. T \subseteq Nat /\ T # {}
  BY BufferTypes
<1>2. /\ sent \in T /\ flight \subseteq T
      /\ \A k \in 1 .. Len(jb.frames) : jb.frames[k].pcm \in T
  BY BufferTypes
<1>3. due = NoSeq => Oldest = Min(T)
  BY DEF Oldest
<1> HIDE DEF T
<1>4. Min(T) \in T /\ \A y \in T : Min(T) <= y
  BY <1>1, MinIsLeast
<1>5. QED
  BY <1>1, <1>2, <1>3, <1>4 DEF Oldest

LEMMA SendStep == Inv /\ Send => Inv'
<1> SUFFICES ASSUME Inv, Send PROVE Inv'
  OBVIOUS
<1>0. Types /\ Content(jb.frames) /\ Playout /\ Window
  BY DEF Inv
<1>1. /\ Len(jb.frames) \in Nat /\ sent \in Nat /\ newest \in Int /\ due \in Int
      /\ \A k \in 1 .. Len(jb.frames) : jb.frames[k].pcm \in Nat
      /\ \A i \in flight : i \in Nat /\ i < sent
  BY <1>0, BufferTypes
<1>2. /\ sent' = sent + 1 /\ flight' = flight \cup {sent} /\ sent < MaxSent
      /\ UNCHANGED <<jb, newest, due, played>>
  BY DEF Send
<1>3. Types'
  <2>1. flight' \subseteq 0 .. sent' - 1 /\ sent' \in 0 .. MaxSent
    BY <1>1, <1>2
  <2>2. newest' \in -1 .. sent' - 1
    BY <1>0, <1>1, <1>2 DEF Types
  <2>3. QED
    BY <1>0, <1>2, <2>1, <2>2 DEF Types
<1>4. Content(jb.frames)'
  BY <1>0, <1>1, <1>2 DEF Content, Types
<1>5. Playout'
  BY <1>0, <1>2 DEF Playout
<1>6. Window'
  <2>1. CASE due # NoSeq
    <3>1. Oldest = due
      BY <1>0, <2>1, OldestIsLeast
    <3>2. QED
      BY <1>1, <1>2, <2>1, <3>1, HalfBounds DEF Window, Send, WithinHalf
  <2>2. CASE due = NoSeq
    <3>1. /\ Oldest \in Nat /\ Oldest <= sent /\ \A i \in flight : Oldest <= i
          /\ \A k \in 1 .. Len(jb.frames) : Oldest <= jb.frames[k].pcm
      BY <1>0, <2>2, OldestIsLeast
    <3>2. sent - Oldest < Half
      BY DEF Send, WithinHalf
    <3>3. \A i \in flight' : sent' - i <= Half
      BY <1>1, <1>2, <3>1, <3>2, HalfBounds
    <3>4. \A k \in 1 .. Len(jb.frames) : sent' - jb.frames[k].pcm <= Half
      BY <1>1, <1>2, <3>1, <3>2, HalfBounds
    <3>5. QED
      BY <1>2, <2>2, <3>3, <3>4 DEF Window
  <2>3. QED
    BY <2>1, <2>2
<1>7. QED
  BY <1>3, <1>4, <1>5, <1>6 DEF Inv

LEMMA DropStep ==
    ASSUME NEW i \in flight, Inv, Drop(i)
    PROVE  Inv'
  BY BufferTypes DEF Inv, Drop, Types, Content, Playout, Window

\* What adapt and push do to the statistics leaves a buffer.
LEMMA StatisticsType ==
    ASSUME NEW b \in Buffers, NEW d \in 1 .. MaxDepth, NEW t \in 0 .. Holdoff,
           NEW n \in Nat, NEW l \in Nat
    PROVE  /\ [b EXCEPT !.time_since_decrease = t] \in Buffers
           /\ [b EXCEPT !.target_depth = d, !.time_since_decrease = t,
                        !.total_packets = n, !.late_packets = l] \in Buffers
  BY DEF Buffers

LEMMA AdaptStep == Inv /\ AdaptTick => Inv'
<1> SUFFICES ASSUME Inv, AdaptTick PROVE Inv'
  OBVIOUS
<1>0. Types /\ jb \in Buffers
  BY DEF Inv, Types
<1>1. /\ jb.target_depth \in 1 .. MaxDepth
      /\ jb.time_since_decrease \in 0 .. Holdoff
  BY <1>0, BufferTypes
<1>2. Elapsed(jb) \in 0 .. Holdoff
  BY <1>1 DEF Elapsed
<1>3. Adapt(jb) \in Buffers /\ Adapt(jb).late_packets <= Adapt(jb).total_packets
  <2>1. CASE Increases(jb)
    <3>1. jb.target_depth + 1 \in 1 .. MaxDepth
      BY <1>1, <2>1 DEF Increases
    <3>2. Adapt(jb) \in Buffers
      BY <1>0, <1>2, <2>1, <3>1, StatisticsType DEF Adapt
    <3>3. Adapt(jb).late_packets = 0 /\ Adapt(jb).total_packets = 0
      BY <1>0, <2>1 DEF Adapt, Buffers
    <3>4. QED
      BY <3>2, <3>3
  <2>2. CASE ~ Increases(jb) /\ Decreases(jb)
    <3>1. jb.target_depth - 1 \in 1 .. MaxDepth /\ 0 \in 0 .. Holdoff
      BY <1>1, <2>2 DEF Decreases
    <3>2. Adapt(jb) \in Buffers
      BY <1>0, <2>2, <3>1, StatisticsType DEF Adapt
    <3>3. Adapt(jb).late_packets = 0 /\ Adapt(jb).total_packets = 0
      BY <1>0, <2>2 DEF Adapt, Buffers
    <3>4. QED
      BY <3>2, <3>3
  <2>3. CASE ~ Increases(jb) /\ ~ Decreases(jb)
    <3>1. Adapt(jb) \in Buffers
      BY <1>0, <1>1, <1>2, <2>3, StatisticsType DEF Adapt
    <3>2. /\ Adapt(jb).late_packets = jb.late_packets
          /\ Adapt(jb).total_packets = jb.total_packets
      BY <1>0, <2>3 DEF Adapt, Buffers
    <3>3. QED
      BY <1>0, <3>1, <3>2 DEF Types
  <2>4. QED
    BY <2>1, <2>2, <2>3
<1>4. /\ Adapt(jb).frames = jb.frames
      /\ Adapt(jb).next_playout_seq = jb.next_playout_seq
  BY <1>0 DEF Buffers, Adapt
<1>5. Types'
  BY <1>0, <1>3, <1>4 DEF Types, AdaptTick
<1>6. QED
  BY <1>4, <1>5 DEF Inv, AdaptTick, Content, Playout, Window

-----------------------------------------------------------------------------
(* push *)

\* The replay filter keeps away what is so old that it would look new: of the
\* packets it lets through, push takes exactly the overdue ones for late.
LEMMA LateMeansOverdue ==
    ASSUME Inv, NEW i \in flight, newest - i < ReplayWindow
    PROVE  IsLate(jb, i % SeqCount) <=> (due # NoSeq /\ i < due)
<1>0. Types /\ Playout /\ Window
  BY DEF Inv
<1>1. /\ i \in Nat /\ i < sent /\ sent \in Nat /\ newest \in Int /\ due \in Int
  BY <1>0, BufferTypes
<1>2. CASE due = NoSeq
  BY <1>0, <1>2 DEF Playout, IsLate
<1>3. CASE due # NoSeq
  <2>1. due \in Nat /\ due % SeqCount # NoSeq
        /\ jb.next_playout_seq = due % SeqCount
    BY <1>0, <1>3, HalfBounds DEF Types, Playout, NoSeq
  <2>2. IsLate(jb, i % SeqCount)
            <=> WrappingSub(i % SeqCount, due % SeqCount) > Half
    BY <2>1 DEF IsLate
  <2>3. i - due < Half /\ due - i <= ReplayWindow
    BY <1>0, <1>1, <1>3, HalfBounds DEF Playout, Window
  <2>4. WrappingSub(i % SeqCount, due % SeqCount)
            = IF i >= due THEN i - due ELSE i - due + SeqCount
    <3>1. /\ i \in Int /\ due \in Int
          /\ i - due < SeqCount /\ due - i < SeqCount
      BY <1>1, <2>3, HalfBounds
    <3>2. QED
      BY <3>1, WrappingDistance
  <2>5. QED
    BY <1>1, <1>3, <2>2, <2>3, <2>4, HalfBounds
<1>4. QED
  BY <1>2, <1>3

\* The sorted insertion of push: among frames less than half the numbers
\* away, in order, the place found is the one between older and newer.
LEMMA InsertPosMeaning ==
    ASSUME NEW frames \in Seq(Frames), NEW i \in Nat,
           \A k \in 1 .. Len(frames) :
                /\ frames[k].seq_num = frames[k].pcm % SeqCount
                /\ frames[k].pcm # i
                /\ frames[k].pcm - i < Half /\ i - frames[k].pcm < Half,
           \A k, l \in 1 .. Len(frames) : k < l => frames[k].pcm < frames[l].pcm
    PROVE  LET p == InsertPos(frames, i % SeqCount) IN
           /\ p \in 1 .. Len(frames) + 1
           /\ \A k \in 1 .. p - 1 : frames[k].pcm < i
           /\ \A k \in p .. Len(frames) : frames[k].pcm > i
<1> DEFINE n == Len(frames)
           I == {k \in 1 .. n :
                    WrappingSub(frames[k].seq_num, i % SeqCount) \in 1 .. Half - 1}
           p == InsertPos(frames, i % SeqCount)
<1>0. n \in Nat /\ \A k \in 1 .. n : frames[k] \in Frames /\ frames[k].pcm \in Nat
  <2>1. n \in Nat /\ \A k \in 1 .. n : frames[k] \in Frames
    OBVIOUS
  <2>2. QED
    BY <2>1 DEF Frames
<1>1. \A k \in 1 .. n : k \in I <=> frames[k].pcm > i
  <2> SUFFICES ASSUME NEW k \in 1 .. n
               PROVE  k \in I <=> frames[k].pcm > i
    OBVIOUS
  <2>1. PICK f \in Nat : f = frames[k].pcm
    BY <1>0
  <2>2. f # i /\ f - i < Half /\ i - f < Half
    BY <2>1
  <2>3. f \in Int /\ i \in Int /\ f - i < SeqCount /\ i - f < SeqCount
    BY <2>2, HalfBounds
  <2>4. WrappingSub(f % SeqCount, i % SeqCount)
            = IF f >= i THEN f - i ELSE f - i + SeqCount
    BY <2>3, WrappingDistance
  <2>5. PICK w : w = WrappingSub(f % SeqCount, i % SeqCount)
    OBVIOUS
  <2>6. w \in 1 .. Half - 1 <=> f > i
    BY <2>2, <2>4, <2>5, HalfBounds
  <2>7. frames[k].seq_num = f % SeqCount
    BY <2>1
  <2>8. QED
    BY <2>1, <2>5, <2>6, <2>7
<1>2. p = IF I = {} THEN n + 1 ELSE Min(I)
  <2>1. SelectInSeq(frames,
            LAMBDA f : WrappingSub(f.seq_num, i % SeqCount) \in 1 .. Half - 1)
          = IF I # {} THEN Min(I) ELSE 0
    BY DEF SelectInSeq
  <2>2. I # {} => Min(I) \in Nat \ {0}
    <3>1. I \subseteq Nat /\ I \subseteq 1 .. n
      BY <1>0
    <3> HIDE DEF I
    <3>2. I # {} => Min(I) \in I
      BY <3>1, MinIsLeast
    <3>3. ASSUME I # {}
          PROVE  Min(I) \in Nat \ {0}
      <4>1. Min(I) \in 1 .. n
        BY <3>1, <3>2, <3>3
      <4>2. QED
        BY <1>0, <4>1
    <3>4. QED
      BY <3>3
  <2>3. QED
    BY <2>1, <2>2 DEF InsertPos
<1>3. I \subseteq 1 .. n
  OBVIOUS
<1> HIDE DEF I, p, n
<1>4. CASE I = {}
  <2>1. p = n + 1
    BY <1>2, <1>4
  <2>2. \A k \in 1 .. n : frames[k].pcm < i
    BY <1>0, <1>1, <1>4 DEF n
  <2>3. QED
    BY <1>0, <2>1, <2>2 DEF p, n
<1>5. CASE I # {}
  <2>1. p \in I /\ \A k \in 1 .. p - 1 : k \notin I
    BY <1>0, <1>2, <1>3, <1>5, FirstPosition
  <2>2. p \in 1 .. n
    BY <1>3, <2>1
  <2>3. \A k \in 1 .. p - 1 : frames[k].pcm < i
    <3>1. \A k \in 1 .. p - 1 : k \in 1 .. n
      BY <1>0, <2>2
    <3>2. QED
      BY <1>0, <1>1, <2>1, <3>1 DEF n
  <2>4. \A k \in p .. n : frames[k].pcm > i
    <3>1. frames[p].pcm > i
      BY <1>1, <2>1, <2>2
    <3>2. \A k \in p .. n : k \in 1 .. n /\ (k # p => p < k)
      BY <1>0, <2>2
    <3>3. QED
      BY <1>0, <2>2, <3>1, <3>2 DEF n
  <2>5. QED
    BY <1>0, <2>2, <2>3, <2>4 DEF p, n
<1>6. QED
  BY <1>4, <1>5

\* A frame put between the older and the newer ones leaves them in order.
LEMMA InsertSorted ==
    ASSUME NEW frames \in Seq(Frames), NEW e \in Frames,
           NEW p \in 1 .. Len(frames) + 1,
           \A k \in 1 .. p - 1 : frames[k].pcm < e.pcm,
           \A k \in p .. Len(frames) : frames[k].pcm > e.pcm,
           \A k, l \in 1 .. Len(frames) : k < l => frames[k].pcm < frames[l].pcm,
           NEW g, g = InsertAt(frames, p, e)
    PROVE  /\ g \in Seq(Frames) /\ Len(g) = Len(frames) + 1
           /\ \A k \in 1 .. Len(g) :
                g[k] = e \/ \E j \in 1 .. Len(frames) : g[k] = frames[j]
           /\ \A k, l \in 1 .. Len(g) : k < l => g[k].pcm < g[l].pcm
<1> DEFINE n == Len(frames)
<1>0. n \in Nat /\ \A k \in 1 .. n : frames[k] \in Frames
  OBVIOUS
<1>1. \A f \in Frames : f.pcm \in Nat
  BY DEF Frames
<1>2. /\ g \in Seq(Frames) /\ Len(g) = n + 1
      /\ \A k \in 1 .. n + 1 :
            g[k] = IF k < p THEN frames[k] ELSE IF k = p THEN e ELSE frames[k - 1]
  BY InsertAtMeaning, SMTT(30)
<1>3. ASSUME NEW k \in 1 .. n + 1
      PROVE  \/ k < p /\ k \in 1 .. n /\ g[k] = frames[k]
             \/ k = p /\ g[k] = e
             \/ k > p /\ k - 1 \in p .. n /\ k - 1 \in 1 .. n /\ g[k] = frames[k - 1]
  BY <1>0, <1>2
<1>4. ASSUME NEW k \in 1 .. n + 1
      PROVE  g[k] = e \/ \E j \in 1 .. n : g[k] = frames[j]
  BY <1>3
<1>5. ASSUME NEW k \in 1 .. n + 1, NEW l \in 1 .. n + 1, k < l
      PROVE  g[k].pcm < g[l].pcm
  <2>1. CASE k < p /\ l < p
    <3>1. k \in 1 .. n /\ l \in 1 .. n /\ g[k] = frames[k] /\ g[l] = frames[l]
      BY <1>0, <1>2, <2>1
    <3>2. QED
      BY <1>5, <3>1
  <2>2. CASE k < p /\ l = p
    <3>1. k \in 1 .. p - 1 /\ g[k] = frames[k] /\ g[l] = e
      BY <1>0, <1>2, <2>2
    <3>2. QED
      BY <3>1
  <2>3. CASE k < p /\ l > p
    <3>1. /\ k \in 1 .. p - 1 /\ g[k] = frames[k] /\ k \in 1 .. n
          /\ l - 1 \in p .. n /\ g[l] = frames[l - 1] /\ l - 1 \in 1 .. n
      BY <1>0, <1>2, <2>3
    <3>2. frames[k].pcm < e.pcm /\ frames[l - 1].pcm > e.pcm
      BY <3>1
    <3>3. /\ frames[k].pcm \in Nat /\ frames[l - 1].pcm \in Nat
          /\ e.pcm \in Nat
      BY <1>0, <1>1, <3>1
    <3>4. QED
      BY <3>1, <3>2, <3>3
  <2>4. CASE k = p /\ l > p
    <3>1. /\ g[k] = e /\ l - 1 \in p .. n /\ l - 1 \in 1 .. n
          /\ g[l] = frames[l - 1]
      BY <1>0, <1>2, <2>4
    <3>2. frames[l - 1].pcm > e.pcm
      BY <3>1
    <3>3. frames[l - 1].pcm \in Nat /\ e.pcm \in Nat
      BY <1>0, <1>1, <3>1
    <3>4. QED
      BY <3>1, <3>2, <3>3
  <2>5. CASE k > p
    <3>1. /\ k - 1 \in 1 .. n /\ l - 1 \in 1 .. n /\ k - 1 < l - 1
          /\ g[k] = frames[k - 1] /\ g[l] = frames[l - 1]
      BY <1>0, <1>2, <1>5, <2>5
    <3>2. QED
      BY <3>1
  <2>6. QED
    BY <1>5, <2>1, <2>2, <2>3, <2>4, <2>5
<1>6. QED
  BY <1>2, <1>4, <1>5

\* The fields of the buffer after a push.
LEMMA PushFields ==
    ASSUME NEW b \in Buffers, NEW q, NEW i, NEW g \in Seq(Frames),
           g = IF Keeps(b, q)
               THEN InsertAt(b.frames, InsertPos(b.frames, q),
                             [seq_num |-> q, pcm |-> i])
               ELSE b.frames
    PROVE  LET c == Push(b, q, i) IN
           /\ c \in Buffers /\ c.frames = g
           /\ c.next_playout_seq = b.next_playout_seq
           /\ c.total_packets = b.total_packets + 1
           /\ c.late_packets = IF IsLate(b, q) THEN b.late_packets + 1
                               ELSE b.late_packets
<1> DEFINE l == IF IsLate(b, q) THEN b.late_packets + 1 ELSE b.late_packets
<1>1. b.total_packets + 1 \in Nat /\ l \in Nat
  BY DEF Buffers
<1>2. Push(b, q, i) = [b EXCEPT !.total_packets = b.total_packets + 1,
                                !.late_packets = l, !.frames = g]
  BY DEF Push
<1> HIDE DEF l
<1>3. [b EXCEPT !.total_packets = b.total_packets + 1,
                !.late_packets = l, !.frames = g] \in Buffers
  BY <1>1 DEF Buffers
<1>4. QED
  BY <1>1, <1>2, <1>3 DEF Buffers, l

\* The frames push leaves: the old ones, and perhaps the new one in its place.
LEMMA PushedFrames ==
    ASSUME Inv, NEW i \in flight, newest - i < ReplayWindow
    PROVE  \E g \in Seq(Frames) :
            /\ g = IF Keeps(jb, i % SeqCount)
                   THEN InsertAt(jb.frames, InsertPos(jb.frames, i % SeqCount),
                                 [seq_num |-> i % SeqCount, pcm |-> i])
                   ELSE jb.frames
            /\ Len(g) \in Nat /\ Len(g) <= 2 * MaxDepth
            /\ \A k \in 1 .. Len(g) :
                \/ /\ g[k] = [seq_num |-> i % SeqCount, pcm |-> i]
                   /\ due # NoSeq => i >= due
                \/ \E j \in 1 .. Len(jb.frames) : g[k] = jb.frames[j]
            /\ \A k, l \in 1 .. Len(g) : k < l => g[k].pcm < g[l].pcm
<1> DEFINE f == jb.frames
<1>0. Types /\ Content(f) /\ Playout /\ Window
  BY DEF Inv
<1>1. /\ f \in Seq(Frames) /\ Len(f) \in Nat
      /\ \A k \in 1 .. Len(f) : f[k] \in Frames /\ f[k].pcm \in Nat
      /\ i \in Nat /\ i < sent /\ sent \in Nat /\ newest \in Int /\ due \in Int
  BY <1>0, BufferTypes
<1>2. i \in Nat /\ i < sent /\ sent \in Nat /\ due \in Int
  BY <1>1
<1>3. CASE ~ Keeps(jb, i % SeqCount)
  BY <1>0, <1>1, <1>3 DEF Types, Content
<1>4. CASE Keeps(jb, i % SeqCount)
  <2>1. due # NoSeq => i >= due
    BY <1>1, <1>4, LateMeansOverdue DEF Keeps
  <2>2. ASSUME NEW k \in 1 .. Len(f)
        PROVE  /\ f[k].seq_num = f[k].pcm % SeqCount
               /\ f[k].pcm # i
               /\ f[k].pcm - i < Half /\ i - f[k].pcm < Half
    <3>1. /\ f[k].seq_num = f[k].pcm % SeqCount
          /\ f[k].pcm <= newest /\ f[k].pcm \notin flight
          /\ due # NoSeq => f[k].pcm >= due
      BY <1>0 DEF Content
    <3>2. newest < sent
      BY <1>0, <1>1 DEF Types
    <3>3. f[k].pcm # i
      BY <3>1
    <3>4. PICK c \in Nat : c = f[k].pcm
      BY <1>1
    <3>5. c - i < Half /\ i - c < Half
      <4>1. CASE due # NoSeq
        <5>1. sent - due <= Half /\ i >= due /\ c >= due /\ c < sent
          BY <1>0, <1>1, <2>1, <3>1, <3>2, <3>4, <4>1 DEF Window
        <5>2. QED
          BY <1>2, <5>1, HalfBounds
      <4>2. CASE due = NoSeq
        <5>1. sent - i <= Half /\ sent - c <= Half /\ c < sent
          BY <1>0, <1>1, <3>1, <3>2, <3>4, <4>2 DEF Window
        <5>2. QED
          BY <1>2, <5>1, HalfBounds
      <4>3. QED
        BY <4>1, <4>2
    <3>6. QED
      BY <3>1, <3>3, <3>4, <3>5
  <2>3. \A k, l \in 1 .. Len(f) : k < l => f[k].pcm < f[l].pcm
    BY <1>0 DEF Content
  <2>4. i % SeqCount \in 0 .. SeqCount - 1 /\ i \in 0 .. MaxSent
    BY <1>0, <1>1, HalfBounds DEF Types
  <2>5. PICK e \in Frames :
            e = [seq_num |-> i % SeqCount, pcm |-> i] /\ e.pcm = i
    <3>1. [seq_num |-> i % SeqCount, pcm |-> i] \in Frames
      BY <2>4 DEF Frames
    <3>2. QED
      BY <3>1
  <2>6. PICK p : p = InsertPos(f, i % SeqCount)
    OBVIOUS
  <2> HIDE DEF f
  <2>7. /\ p \in 1 .. Len(f) + 1
        /\ \A k \in 1 .. p - 1 : f[k].pcm < i
        /\ \A k \in p .. Len(f) : f[k].pcm > i
    <3>1. \A k \in 1 .. Len(f) :
                /\ f[k].seq_num = f[k].pcm % SeqCount
                /\ f[k].pcm # i
                /\ f[k].pcm - i < Half /\ i - f[k].pcm < Half
      BY <2>2
    <3>2. f \in Seq(Frames) /\ i \in Nat
      BY <1>1
    <3>3. QED
      BY <2>3, <2>6, <3>1, <3>2, InsertPosMeaning
  <2>8. PICK g : g = InsertAt(f, p, e)
    OBVIOUS
  <2>9. /\ \A k \in 1 .. p - 1 : f[k].pcm < e.pcm
        /\ \A k \in p .. Len(f) : f[k].pcm > e.pcm
    BY <2>5, <2>7
  <2>10. /\ g \in Seq(Frames) /\ Len(g) = Len(f) + 1
         /\ \A k \in 1 .. Len(g) :
                g[k] = e \/ \E j \in 1 .. Len(f) : g[k] = f[j]
         /\ \A k, l \in 1 .. Len(g) : k < l => g[k].pcm < g[l].pcm
    BY <1>1, <2>3, <2>7, <2>8, <2>9, InsertSorted
  <2>11. Len(g) \in Nat /\ Len(g) <= 2 * MaxDepth
    BY <1>1, <1>4, <2>10 DEF Keeps, f
  <2>12. QED
    BY <1>4, <2>1, <2>5, <2>6, <2>8, <2>10, <2>11, SMTT(30) DEF f
<1>5. QED
  BY <1>3, <1>4

LEMMA DeliverStep ==
    ASSUME NEW i \in flight, Inv, Deliver(i)
    PROVE  Inv'
<1>0. Types /\ Content(jb.frames) /\ Playout /\ Window
  BY DEF Inv
<1>1. /\ Len(jb.frames) \in Nat
      /\ \A k \in 1 .. Len(jb.frames) : jb.frames[k].pcm \in Nat
      /\ i \in Nat /\ i < sent /\ sent \in Nat /\ newest \in Int /\ due \in Int
      /\ jb.total_packets \in Nat /\ jb.late_packets \in Nat
  BY <1>0, BufferTypes
<1>2. /\ newest - i < ReplayWindow /\ jb' = Push(jb, i % SeqCount, i)
      /\ flight' = flight \ {i} /\ newest' = IF i > newest THEN i ELSE newest
      /\ UNCHANGED <<sent, due, played>>
  BY DEF Deliver
<1>3. PICK g \in Seq(Frames) :
            /\ g = IF Keeps(jb, i % SeqCount)
                   THEN InsertAt(jb.frames, InsertPos(jb.frames, i % SeqCount),
                                 [seq_num |-> i % SeqCount, pcm |-> i])
                   ELSE jb.frames
            /\ Len(g) \in Nat /\ Len(g) <= 2 * MaxDepth
            /\ \A k \in 1 .. Len(g) :
                \/ /\ g[k] = [seq_num |-> i % SeqCount, pcm |-> i]
                   /\ due # NoSeq => i >= due
                \/ \E j \in 1 .. Len(jb.frames) : g[k] = jb.frames[j]
            /\ \A k, l \in 1 .. Len(g) : k < l => g[k].pcm < g[l].pcm
  BY <1>2, PushedFrames
<1>4. /\ jb' \in Buffers /\ jb'.frames = g
      /\ jb'.next_playout_seq = jb.next_playout_seq
      /\ jb'.total_packets = jb.total_packets + 1
      /\ jb'.late_packets \in {jb.late_packets, jb.late_packets + 1}
  <2>1. jb \in Buffers
    BY <1>0 DEF Types
  <2>2. QED
    BY <1>2, <1>3, <2>1, PushFields
<1>5. /\ newest' \in -1 .. sent - 1 /\ newest' >= newest /\ newest' >= i
      /\ newest' \in Int
  BY <1>0, <1>1, <1>2 DEF Types
<1>6. Types'
  <2>1. jb'.late_packets <= jb'.total_packets
    BY <1>0, <1>1, <1>4, SMTT(30) DEF Types
  <2>2. QED
    BY <1>0, <1>2, <1>3, <1>4, <1>5, <2>1 DEF Types
<1>7. ASSUME NEW k \in 1 .. Len(g)
      PROVE  /\ g[k].seq_num = g[k].pcm % SeqCount
             /\ g[k].pcm <= newest' /\ g[k].pcm \notin flight'
             /\ due # NoSeq => g[k].pcm >= due
             /\ due = NoSeq => sent - g[k].pcm <= Half
  <2>1. CASE /\ g[k] = [seq_num |-> i % SeqCount, pcm |-> i]
             /\ due # NoSeq => i >= due
    <3>1. g[k].pcm = i /\ g[k].seq_num = i % SeqCount
      BY <2>1
    <3>2. due = NoSeq => sent - i <= Half
      BY <1>0 DEF Window
    <3>3. QED
      BY <1>2, <1>5, <2>1, <3>1, <3>2
  <2>2. ASSUME NEW j \in 1 .. Len(jb.frames), g[k] = jb.frames[j]
        PROVE  /\ g[k].seq_num = g[k].pcm % SeqCount
               /\ g[k].pcm <= newest' /\ g[k].pcm \notin flight'
               /\ due # NoSeq => g[k].pcm >= due
               /\ due = NoSeq => sent - g[k].pcm <= Half
    <3>1. /\ g[k].seq_num = g[k].pcm % SeqCount
          /\ g[k].pcm <= newest /\ g[k].pcm \notin flight
          /\ due # NoSeq => g[k].pcm >= due
      BY <1>0, <2>2 DEF Content
    <3>2. due = NoSeq => sent - g[k].pcm <= Half
      BY <1>0, <2>2 DEF Window
    <3>3. g[k].pcm \in Nat
      BY <1>1, <2>2
    <3>4. g[k].pcm <= newest'
      BY <1>1, <1>5, <3>1, <3>3
    <3>5. QED
      BY <1>2, <3>1, <3>2, <3>4
  <2>3. QED
    BY <1>3, <2>1, <2>2
<1>8. Content(jb.frames)'
  BY <1>2, <1>3, <1>4, <1>7 DEF Content
<1>9. Playout'
  BY <1>0, <1>1, <1>2, <1>4, <1>5 DEF Playout
<1>10. Window'
  BY <1>0, <1>2, <1>4, <1>7 DEF Window
<1>11. QED
  BY <1>6, <1>8, <1>9, <1>10 DEF Inv

-----------------------------------------------------------------------------
(* pop *)

\* Past its early returns pop looks for one frame e, the one that is due or,
\* at the first playout, the oldest.  Nothing in the buffer is older, and a
\* number in the buffer is that of e only if the frame is e.
LEMMA PopLooksFor ==
    ASSUME Inv, Plays(jb)
    PROVE  \E e \in Nat :
            /\ e = IF due = NoSeq THEN jb.frames[1].pcm ELSE due
            /\ Expected(jb) = e % SeqCount
            /\ e <= newest /\ sent - e <= Half
            /\ played < e
            /\ \A k \in 1 .. Len(jb.frames) :
                /\ jb.frames[k].pcm >= e
                /\ jb.frames[k].seq_num = Expected(jb) <=> jb.frames[k].pcm = e
<1> DEFINE f == jb.frames
<1>0. Types /\ Content(f) /\ Playout /\ Window
  BY DEF Inv
<1>1. /\ f \in Seq(Frames) /\ Len(f) \in Nat
      /\ \A k \in 1 .. Len(f) : f[k] \in Frames /\ f[k].pcm \in Nat
  BY <1>0, BufferTypes
<1>2. sent \in Nat /\ newest \in Int /\ due \in Int /\ played \in Int
      /\ newest < sent
  BY <1>0, BufferTypes DEF Types
<1>3. 1 \in 1 .. Len(f)
  BY <1>1 DEF Plays
<1>4. \A k \in 1 .. Len(f) :
        /\ f[k].seq_num = f[k].pcm % SeqCount
        /\ f[k].pcm <= newest /\ f[k].pcm \notin flight
        /\ due # NoSeq => f[k].pcm >= due
  BY <1>0 DEF Content
<1>5. PICK e \in Nat :
        /\ e = IF due = NoSeq THEN f[1].pcm ELSE due
        /\ Expected(jb) = e % SeqCount
  <2>1. CASE due = NoSeq
    BY <1>0, <1>1, <1>3, <1>4, <2>1 DEF Expected, Playout
  <2>2. CASE due # NoSeq
    <3>1. due \in Nat /\ due % SeqCount # NoSeq
      BY <1>0, <2>2, HalfBounds DEF Types, NoSeq
    <3>2. QED
      BY <1>0, <2>2, <3>1 DEF Expected, Playout
  <2>3. QED
    BY <2>1, <2>2
<1>6. \A k \in 1 .. Len(f) : f[k].pcm >= e
  <2>1. CASE due # NoSeq
    BY <1>4, <1>5, <2>1
  <2>2. CASE due = NoSeq
    <3>1. \A k \in 1 .. Len(f) : 1 < k => f[1].pcm < f[k].pcm
      BY <1>0, <1>3 DEF Content
    <3>2. QED
      BY <1>1, <1>3, <1>5, <2>2, <3>1
  <2>3. QED
    BY <2>1, <2>2
<1>7. e <= newest
  <2>1. f[1].pcm \in Nat /\ f[1].pcm <= newest /\ f[1].pcm >= e
    BY <1>1, <1>3, <1>4, <1>6
  <2>2. QED
    BY <1>2, <2>1
<1>8. sent - e <= Half
  BY <1>0, <1>3, <1>5 DEF Window
<1>9. played < e
  BY <1>0, <1>2, <1>5 DEF Playout
<1>10. ASSUME NEW k \in 1 .. Len(f)
       PROVE  f[k].seq_num = Expected(jb) <=> f[k].pcm = e
  <2>1. PICK c \in Nat : c = f[k].pcm /\ f[k].seq_num = c % SeqCount
    BY <1>1, <1>4
  <2>2. c >= e /\ c <= newest
    BY <1>4, <1>6, <2>1
  <2>3. c - e < SeqCount /\ e - c < SeqCount
    BY <1>2, <1>8, <2>2, HalfBounds
  <2>4. c % SeqCount = e % SeqCount => c = e
    <3>1. c \in Int /\ e \in Int /\ SeqCount \in Nat \ {0}
      BY HalfBounds
    <3>2. QED
      BY <2>3, <3>1, SameNumber
  <2>5. QED
    BY <1>5, <2>1, <2>4
<1>11. QED
  BY <1>5, <1>6, <1>7, <1>8, <1>9, <1>10

\* pop returns a frame exactly if the one it looks for is there, and then
\* that one.
LEMMA PopFinds ==
    ASSUME Inv, Plays(jb), NEW e \in Nat,
           \A k \in 1 .. Len(jb.frames) :
                jb.frames[k].seq_num = Expected(jb) <=> jb.frames[k].pcm = e
    PROVE  /\ Pops(jb) <=> \E k \in 1 .. Len(jb.frames) : jb.frames[k].pcm = e
           /\ Pops(jb) => /\ PopIndex(jb) \in 1 .. Len(jb.frames)
                          /\ jb.frames[PopIndex(jb)].pcm = e
<1>1. Len(jb.frames) \in Nat /\ DOMAIN jb.frames = 1 .. Len(jb.frames)
  BY BufferTypes DEF Inv
<1>2. Pops(jb) <=> \E k \in 1 .. Len(jb.frames) : jb.frames[k].pcm = e
  BY <1>1 DEF Pops, HasFrame
<1>3. ASSUME Pops(jb)
      PROVE  /\ PopIndex(jb) \in 1 .. Len(jb.frames)
             /\ jb.frames[PopIndex(jb)].pcm = e
  <2> DEFINE I == {k \in 1 .. Len(jb.frames) : jb.frames[k].seq_num = Expected(jb)}
  <2>1. I # {} /\ I \subseteq 1 .. Len(jb.frames)
    BY <1>1, <1>3 DEF Pops, HasFrame
  <2>2. PopIndex(jb) = IF I # {} THEN Min(I) ELSE 0
    BY DEF PopIndex, SelectInSeq
  <2>3. PopIndex(jb) \in I
    <3> HIDE DEF I
    <3>1. QED
      BY <1>1, <2>1, <2>2, FirstPosition, ZenonT(60)
  <2>4. QED
    BY <2>3
<1>4. QED
  BY <1>2, <1>3

LEMMA PlayoutStep == Inv /\ PlayoutTick => Inv'
<1> SUFFICES ASSUME Inv, PlayoutTick PROVE Inv'
  OBVIOUS
<1> DEFINE f == jb.frames
<1>0. Types /\ Content(f) /\ Playout /\ Window
  BY DEF Inv
<1>1. UNCHANGED <<sent, flight, newest>> /\ jb' = Pop(jb)
  BY DEF PlayoutTick
<1>2. CASE ~ Plays(jb)
  <2>1. UNCHANGED vars
    BY <1>2 DEF PlayoutTick, Pop, Pops, vars
  <2>2. QED
    BY <1>0, <2>1 DEF Inv, Types, Content, Playout, Window, vars
<1>3. CASE Plays(jb)
  <2>1. PICK e \in Nat :
            /\ e = IF due = NoSeq THEN f[1].pcm ELSE due
            /\ Expected(jb) = e % SeqCount
            /\ e <= newest /\ sent - e <= Half
            /\ played < e
            /\ \A k \in 1 .. Len(f) :
                /\ f[k].pcm >= e
                /\ f[k].seq_num = Expected(jb) <=> f[k].pcm = e
    BY <1>3, PopLooksFor
  <2>2. /\ Pops(jb) <=> \E k \in 1 .. Len(f) : f[k].pcm = e
        /\ Pops(jb) => PopIndex(jb) \in 1 .. Len(f) /\ f[PopIndex(jb)].pcm = e
    BY <1>3, <2>1, PopFinds
  <2>3. due' = e + 1 /\ due' # NoSeq /\ due' \in Nat
    BY <1>3, <2>1 DEF PlayoutTick, NoSeq
  <2>4. played' \in {played, e} /\ played' < due'
    <3>1. played' = IF Pops(jb) THEN e ELSE played
      BY <2>2 DEF PlayoutTick
    <3>2. played \in Int
      BY <1>0, BufferTypes
    <3>3. QED
      BY <2>1, <2>3, <3>1, <3>2
  <2>5. /\ f \in Seq(Frames) /\ Len(f) \in Nat
        /\ \A k \in 1 .. Len(f) : f[k] \in Frames /\ f[k].pcm \in Nat
    BY <1>0, BufferTypes
  <2>6. \A k, l \in 1 .. Len(f) : k < l => f[k].pcm < f[l].pcm
    BY <1>0 DEF Content
  <2>7. PICK g \in Seq(Frames) :
            /\ g = IF Pops(jb) THEN RemoveAt(f, PopIndex(jb)) ELSE f
            /\ Len(g) \in Nat /\ Len(g) <= Len(f)
            /\ \A k \in 1 .. Len(g) : \E j \in 1 .. Len(f) :
                    g[k] = f[j] /\ f[j].pcm # e
            /\ \A k, l \in 1 .. Len(g) : k < l => g[k].pcm < g[l].pcm
    <3>1. CASE ~ Pops(jb)
      BY <2>2, <2>5, <2>6, <3>1
    <3>2. CASE Pops(jb)
      <4>1. PICK p \in 1 .. Len(f) : p = PopIndex(jb) /\ f[p].pcm = e
        BY <2>2, <3>2
      <4>2. PICK g : g = RemoveAt(f, p)
        OBVIOUS
      <4> HIDE DEF f
      <4>3. /\ g \in Seq(Frames) /\ Len(g) = Len(f) - 1
            /\ \A k \in 1 .. Len(f) - 1 : g[k] = IF k < p THEN f[k] ELSE f[k + 1]
        BY <2>5, <4>2, RemoveAtMeaning
      <4>4. ASSUME NEW k \in 1 .. Len(g)
            PROVE  \E j \in 1 .. Len(f) : g[k] = f[j] /\ f[j].pcm # e
        <5>1. PICK j \in 1 .. Len(f) : j # p /\ g[k] = f[j]
          BY <2>5, <4>3
        <5>2. j < p \/ p < j
          BY <5>1
        <5>3. f[j].pcm < f[p].pcm \/ f[p].pcm < f[j].pcm
          BY <2>6, <5>2
        <5>4. QED
          BY <2>5, <4>1, <5>1, <5>3
      <4>5. ASSUME NEW k \in 1 .. Len(g), NEW l \in 1 .. Len(g), k < l
            PROVE  g[k].pcm < g[l].pcm
        <5>1. PICK j \in 1 .. Len(f), m \in 1 .. Len(f) :
                    j < m /\ g[k] = f[j] /\ g[l] = f[m]
          BY <2>5, <4>3, <4>5, SMTT(30)
        <5>2. QED
          BY <2>6, <5>1
      <4>6. Len(g) \in Nat /\ Len(g) <= Len(f)
        BY <2>5, <4>3
      <4>7. g = IF Pops(jb) THEN RemoveAt(f, PopIndex(jb)) ELSE f
        BY <3>2, <4>1, <4>2
      <4>8. QED
        BY <4>3, <4>4, <4>5, <4>6, <4>7
    <3>3. QED
      BY <3>1, <3>2
  <2>8. /\ jb' \in Buffers /\ jb'.frames = g
        /\ jb'.next_playout_seq = due' % SeqCount
        /\ jb'.late_packets = jb.late_packets
        /\ jb'.total_packets = jb.total_packets
    <3>1. PICK q : q = (Expected(jb) + 1) % SeqCount
      OBVIOUS
    <3>2. q = due' % SeqCount /\ q \in 0 .. SeqCount - 1
      <4>1. SeqCount \in Nat \ {0} /\ e \in Int
        BY HalfBounds
      <4>2. ((e % SeqCount) + 1) % SeqCount = (e + 1) % SeqCount
        BY <4>1, ModularSuccessor
      <4>3. (e + 1) % SeqCount \in 0 .. SeqCount - 1
        BY <4>1
      <4>4. QED
        BY <2>1, <2>3, <3>1, <4>2, <4>3
    <3>3. jb' = [jb EXCEPT !.next_playout_seq = q, !.frames = g]
      BY <1>1, <1>3, <2>7, <3>1 DEF Pop
    <3>4. jb \in Buffers
      BY <1>0 DEF Types
    <3>5. [jb EXCEPT !.next_playout_seq = q, !.frames = g] \in Buffers
      BY <3>2, <3>4 DEF Buffers
    <3>6. QED
      BY <3>2, <3>3, <3>4, <3>5 DEF Buffers
  <2>9. Types'
    <3>1. Len(g) <= 2 * MaxDepth
      BY <1>0, <2>5, <2>7 DEF Types
    <3>2. played' \in {-1} \cup Nat
      BY <1>0, <2>4 DEF Types
    <3>3. QED
      BY <1>0, <1>1, <2>3, <2>8, <3>1, <3>2 DEF Types
  <2>10. Content(jb.frames)'
    <3>1. ASSUME NEW k \in 1 .. Len(g)
          PROVE  /\ g[k].seq_num = g[k].pcm % SeqCount
                 /\ g[k].pcm <= newest /\ g[k].pcm \notin flight
                 /\ g[k].pcm >= due'
      <4>1. PICK j \in 1 .. Len(f) : g[k] = f[j] /\ f[j].pcm # e
        BY <2>7
      <4>2. /\ f[j].seq_num = f[j].pcm % SeqCount
            /\ f[j].pcm <= newest /\ f[j].pcm \notin flight
        BY <1>0 DEF Content
      <4>3. f[j].pcm >= e /\ f[j].pcm \in Nat
        BY <2>1, <2>5
      <4>4. f[j].pcm >= e + 1
        BY <4>1, <4>3
      <4>5. QED
        BY <2>3, <4>1, <4>2, <4>4
    <3>2. QED
      BY <1>1, <2>7, <2>8, <3>1 DEF Content
  <2>11. Playout'
    <3>1. newest \in Int
      BY <1>0, BufferTypes
    <3>2. due' <= newest' + 1
      BY <1>1, <2>1, <2>3, <3>1
    <3>3. QED
      BY <2>3, <2>4, <2>8, <3>2 DEF Playout
  <2>12. Window'
    <3>1. sent \in Nat
      BY <1>0, BufferTypes
    <3>2. sent' - due' <= Half
      <4>1. sent - e <= Half /\ sent' = sent
        BY <1>1, <2>1
      <4>2. QED
        BY <2>3, <3>1, <4>1, HalfBounds
    <3>3. QED
      BY <2>3, <3>2 DEF Window
  <2>13. QED
    BY <2>9, <2>10, <2>11, <2>12 DEF Inv
<1>4. QED
  BY <1>2, <1>3

-----------------------------------------------------------------------------
LEMMA InductionStep == Inv /\ [Next]_vars => Inv'
<1> SUFFICES ASSUME Inv, [Next]_vars PROVE Inv'
  OBVIOUS
<1>1. CASE Send
  BY <1>1, SendStep
<1>2. ASSUME NEW i \in flight, Deliver(i)
      PROVE  Inv'
  BY <1>2, DeliverStep
<1>3. ASSUME NEW i \in flight, Drop(i)
      PROVE  Inv'
  BY <1>3, DropStep
<1>4. CASE PlayoutTick
  BY <1>4, PlayoutStep
<1>5. CASE AdaptTick
  BY <1>5, AdaptStep
<1>6. CASE UNCHANGED vars
  BY <1>6 DEF Inv, Types, Content, Playout, Window, vars
<1>7. QED
  BY <1>1, <1>2, <1>3, <1>4, <1>5, <1>6 DEF Next

\* The inductive invariant holds in every state.
THEOREM Invariant == Spec => []Inv
<1>1. Init => Inv
  BY InitInv
<1>2. Inv /\ [Next]_vars => Inv'
  BY InductionStep
<1>3. QED
  BY <1>1, <1>2, PTL DEF Spec

\* The fields of the buffer keep their ranges: the depth stays between 1 and
\* MAX_DEPTH, no more than twice as many frames are held, and a frame keeps
\* the number it was sent with.
THEOREM TypeCorrect == Spec => []TypeOK
<1>1. Inv => TypeOK
  <2> SUFFICES ASSUME Inv PROVE TypeOK
    OBVIOUS
  <2>1. Types /\ Content(jb.frames)
    BY DEF Inv
  <2>2. ASSUME NEW k \in DOMAIN jb.frames
        PROVE  /\ jb.frames[k].pcm \in 0 .. MaxSent
               /\ jb.frames[k].seq_num = jb.frames[k].pcm % SeqCount
    <3>1. k \in 1 .. Len(jb.frames) /\ jb.frames[k] \in Frames
      BY <2>1, BufferTypes
    <3>2. QED
      BY <2>1, <3>1 DEF Content, Frames
  <2>3. /\ jb.target_depth \in 1 .. MaxDepth
        /\ jb.next_playout_seq \in {NoSeq} \cup 0 .. SeqCount - 1
        /\ jb.time_since_decrease \in 0 .. Holdoff
        /\ Len(jb.frames) <= 2 * MaxDepth
    BY <2>1 DEF Types, Buffers
  <2>4. jb.late_packets \in 0 .. jb.total_packets
    BY <2>1 DEF Types, Buffers
  <2>5. QED
    BY <2>2, <2>3, <2>4 DEF TypeOK
<1>2. QED
  BY <1>1, Invariant, PTL

\* The buffer is sorted by age and holds nothing overdue, across any number of
\* wraps of the sequence numbers.
THEOREM SortedCorrect == Spec => []SortedFresh
<1>1. Inv => SortedFresh
  BY BufferTypes DEF Inv, Content, SortedFresh
<1>2. QED
  BY <1>1, Invariant, PTL

\* What pop plays, in one step.
LEMMA PlayedFrame ==
    ASSUME Inv, PlayoutTick, Plays(jb)
    PROVE  \E e \in Nat :
            /\ e = IF due = NoSeq THEN jb.frames[1].pcm ELSE due
            /\ played < e
            /\ played' = IF \E k \in 1 .. Len(jb.frames) : jb.frames[k].pcm = e
                         THEN e ELSE played
<1>1. PICK e \in Nat :
        /\ e = IF due = NoSeq THEN jb.frames[1].pcm ELSE due
        /\ played < e
        /\ \A k \in 1 .. Len(jb.frames) :
            jb.frames[k].seq_num = Expected(jb) <=> jb.frames[k].pcm = e
  BY PopLooksFor
<1>2. /\ Pops(jb) <=> \E k \in 1 .. Len(jb.frames) : jb.frames[k].pcm = e
      /\ Pops(jb) => jb.frames[PopIndex(jb)].pcm = e
  BY <1>1, PopFinds
<1>3. QED
  BY <1>1, <1>2 DEF PlayoutTick

\* Only the tick of the playout moves what is due or was played.
LEMMA OnlyTickPlays ==
    ASSUME [Next]_vars
    PROVE  \/ due' = due /\ played' = played
           \/ PlayoutTick /\ Plays(jb)
  BY DEF Next, vars, Send, Deliver, Drop, AdaptTick, PlayoutTick, Pops

\* Frames are played in the order they were spoken, each at most once and in
\* its own slot.
THEOREM OrderCorrect == Spec => PlayedInOrder
<1>1. Inv /\ [Next]_vars => [played' # played =>
                                /\ played' > played
                                /\ due # NoSeq => played' = due]_vars
  <2> SUFFICES ASSUME Inv, [Next]_vars, played' # played
               PROVE  played' > played /\ (due # NoSeq => played' = due)
    OBVIOUS
  <2>1. PlayoutTick /\ Plays(jb)
    BY OnlyTickPlays
  <2>2. PICK e \in Nat :
            /\ e = IF due = NoSeq THEN jb.frames[1].pcm ELSE due
            /\ played < e
            /\ played' = IF \E k \in 1 .. Len(jb.frames) : jb.frames[k].pcm = e
                         THEN e ELSE played
    BY <2>1, PlayedFrame
  <2>3. played \in Int
    BY BufferTypes DEF Inv
  <2>4. QED
    BY <2>2, <2>3
<1>2. QED
  BY <1>1, Invariant, PTL DEF Spec, PlayedInOrder

\* The playout passes over no frame that the buffer holds.
THEOREM NoSkipCorrect == Spec => NoFrameSkipped
<1>1. Inv /\ [Next]_vars
        => [due # NoSeq /\ due' = due + 1 /\
            (\E k \in DOMAIN jb.frames : jb.frames[k].pcm = due)
                => played' = due]_vars
  <2> SUFFICES ASSUME Inv, [Next]_vars, due # NoSeq, due' = due + 1,
                      \E k \in DOMAIN jb.frames : jb.frames[k].pcm = due
               PROVE  played' = due
    OBVIOUS
  <2>1. due \in Int /\ DOMAIN jb.frames = 1 .. Len(jb.frames)
    BY BufferTypes DEF Inv
  <2>2. due' # due
    BY <2>1
  <2>3. PlayoutTick /\ Plays(jb)
    BY <2>2, OnlyTickPlays
  <2>4. PICK e \in Nat :
            /\ e = IF due = NoSeq THEN jb.frames[1].pcm ELSE due
            /\ played' = IF \E k \in 1 .. Len(jb.frames) : jb.frames[k].pcm = e
                         THEN e ELSE played
    BY <2>3, PlayedFrame
  <2>5. QED
    BY <2>1, <2>4
<1>2. QED
  BY <1>1, Invariant, PTL DEF Spec, NoFrameSkipped
=============================================================================
