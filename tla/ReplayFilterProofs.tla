------------------------- MODULE ReplayFilterProofs -------------------------
(***************************************************************************)
(* For every window size and every number of counters: the filter lets     *)
(* each counter through at most once, and it implements ReplayWindow.      *)
(***************************************************************************)
EXTENDS ReplayFilterSpec, TLAPS

USE WindowAssumption, MaxCounterAssumption

\* The shift the code performs is below the word's width, where it moves
\* every bit up and loses exactly the ones that leave the word.
LEMMA ShiftLeftMeaning ==
    ASSUME NEW bitmap \in SUBSET Bits,
           NEW k \in Nat, k < WindowSize
    PROVE  ShiftLeft(bitmap, k) = {i \in Bits : i - k \in bitmap}
<1>1. k % WindowSize = k
  OBVIOUS
<1>2. QED
  BY <1>1 DEF ShiftLeft

\* The two branches of check_and_accept that change the filter.
LEMMA AcceptMeaning ==
    ASSUME NEW f \in Filters, NEW c \in Nat, Acceptable(f, c)
    PROVE  LET g == CheckAndAccept(f, c) IN
           /\ c > f.highest =>
                /\ g.highest = c
                /\ g.bitmap = {0} \cup {i \in Bits :
                                  i - (c - f.highest) \in f.bitmap}
           /\ c <= f.highest =>
                /\ g.highest = f.highest
                /\ g.bitmap = f.bitmap \cup {f.highest - c}
                /\ f.highest - c \in Bits \ f.bitmap
           /\ g = [highest |-> g.highest, bitmap |-> g.bitmap]
<1>0. f = [highest |-> f.highest, bitmap |-> f.bitmap]
      /\ f.highest \in Nat /\ f.bitmap \in SUBSET Bits /\ c \in Nat
  BY DEF Filters
<1>1. CASE c > f.highest
  <2>1. CheckAndAccept(f, c) = Slide(f, c)
    BY <1>1 DEF CheckAndAccept
  <2>2. CASE c - f.highest >= WindowSize
    <3>1. {i \in Bits : i - (c - f.highest) \in f.bitmap} = {}
      BY <1>0, <1>1, <2>2 DEF Bits
    <3>2. QED
      BY <1>0, <1>1, <2>1, <2>2, <3>1 DEF Slide
  <2>3. CASE c - f.highest < WindowSize
    <3>1. ShiftLeft(f.bitmap, c - f.highest)
             = {i \in Bits : i - (c - f.highest) \in f.bitmap}
      BY <1>0, <1>1, <2>3, ShiftLeftMeaning
    <3>2. QED
      BY <1>0, <1>1, <2>1, <2>3, <3>1 DEF Slide
  <2>4. QED
    BY <1>0, <2>2, <2>3
<1>2. CASE c <= f.highest
  <2>1. CheckAndAccept(f, c)
           = [f EXCEPT !.bitmap = @ \cup {f.highest - c}]
    BY <1>0, <1>2 DEF CheckAndAccept
  <2>2. f.highest - c \in Bits \ f.bitmap
    BY <1>0, <1>2 DEF Acceptable, Bits
  <2>3. QED
    BY <1>0, <1>2, <2>1, <2>2
<1>3. QED
  BY <1>0, <1>1, <1>2

LEMMA AcceptType ==
    ASSUME NEW f \in Filters, NEW c \in Nat
    PROVE  CheckAndAccept(f, c) \in Filters
<1>1. CASE ~ Acceptable(f, c)
  BY <1>1 DEF CheckAndAccept
<1>2. CASE Acceptable(f, c)
  <2>1. f.highest \in Nat /\ f.bitmap \in SUBSET Bits /\ 0 \in Bits
    BY DEF Filters, Bits
  <2>2. QED
    BY <1>2, <2>1, AcceptMeaning DEF Filters
<1>3. QED
  BY <1>1, <1>2

LEMMA CounterTypes ==
    ASSUME TypeOK, NEW c \in Counters
    PROVE  filter \in Filters /\ c \in Nat
BY DEF TypeOK, Counters, Filters

\* Type correctness of the filter, the delivery counts and the verdicts.
THEOREM TypeCorrect == Spec => []TypeOK
<1>1. Init => TypeOK
  <2> SUFFICES ASSUME Init PROVE TypeOK
    OBVIOUS
  <2>1. 0 \in Counters
    BY DEF Counters
  <2>2. filter \in [highest : Counters, bitmap : SUBSET Bits]
    BY <2>1 DEF Init, NewFilter
  <2>3. delivered \in [Counters -> Nat] /\ verdict \in Counters \X BOOLEAN
    BY <2>1 DEF Init
  <2>4. QED
    BY <2>2, <2>3 DEF TypeOK
<1>2. TypeOK /\ [Next]_vars => TypeOK'
  <2> SUFFICES ASSUME TypeOK, [Next]_vars PROVE TypeOK'
    OBVIOUS
  <2>1. ASSUME NEW c \in Counters, Receive(c) PROVE TypeOK'
    <3>1. verdict' \in Counters \X BOOLEAN
      BY <2>1 DEF Receive, Acceptable
    <3>2. delivered' \in [Counters -> Nat]
      BY <2>1 DEF Receive, TypeOK
    <3>3. filter' \in [highest : Counters, bitmap : SUBSET Bits]
      <4>1. filter' = CheckAndAccept(filter, c)
        BY <2>1 DEF Receive
      <4>2. filter' \in Filters
        BY <4>1, CounterTypes, AcceptType
      <4>3. filter'.highest \in {c, filter.highest}
        BY <4>1 DEF CheckAndAccept, Slide
      <4>4. filter'.highest \in Counters
        BY <2>1, <4>3 DEF TypeOK
      <4>5. QED
        BY <4>2, <4>4 DEF Filters
    <3>4. QED
      BY <3>1, <3>2, <3>3 DEF TypeOK
  <2>2. CASE UNCHANGED vars
    BY <2>2 DEF vars, TypeOK
  <2>3. QED
    BY <2>1, <2>2 DEF Next
<1>3. QED
  BY <1>1, <1>2, PTL DEF Spec

\* The bitmap remembers exactly the accepted counters of the window: the
\* invariant the other two results rest on, inductive on its own.
THEOREM BitmapCorrect == Spec => []BitmapRecordsWindow
<1>1. Init => BitmapRecordsWindow
  BY DEF Init, NewFilter, BitmapRecordsWindow, Counters, Bits
<1>2. TypeOK /\ BitmapRecordsWindow /\ [Next]_vars => BitmapRecordsWindow'
  <2> SUFFICES ASSUME TypeOK, BitmapRecordsWindow, [Next]_vars
               PROVE  BitmapRecordsWindow'
    OBVIOUS
  <2>1. ASSUME NEW c \in Counters, Receive(c) PROVE BitmapRecordsWindow'
    <3>1. CASE ~ Acceptable(filter, c)
      BY <2>1, <3>1 DEF Receive, CheckAndAccept, BitmapRecordsWindow
    <3>2. CASE Acceptable(filter, c) /\ c > filter.highest
      <4>1. filter'.highest = c
            /\ filter'.bitmap = {0} \cup {i \in Bits :
                                  i - (c - filter.highest) \in filter.bitmap}
        BY <2>1, <3>2, AcceptMeaning, CounterTypes DEF Receive
      <4>2. /\ delivered' = [delivered EXCEPT ![c] = @ + 1]
            /\ delivered \in [Counters -> Nat]
            /\ filter.highest \in Counters
            /\ filter.bitmap \in SUBSET Bits
        BY <2>1, <3>2 DEF Receive, TypeOK
      <4>3. ASSUME NEW i \in Bits
            PROVE  i \in filter'.bitmap <=>
                       /\ filter'.highest - i \in Counters
                       /\ delivered'[filter'.highest - i] > 0
        <5>1. CASE i = 0
          BY <4>1, <4>2, <5>1 DEF Counters
        <5>2. CASE i # 0
          <6> DEFINE j == i - (c - filter.highest)
          <6>1. c - i = filter.highest - j /\ j \in Int /\ c - i \in Int
            BY <4>2 DEF Counters, Bits
          <6>2. i \in filter'.bitmap <=> j \in filter.bitmap
            BY <4>1, <5>2
          <6>3. c - i # c
            BY <5>2 DEF Bits, Counters
          <6>4. CASE j \in Bits
            <7>1. j \in filter.bitmap <=>
                     /\ filter.highest - j \in Counters
                     /\ delivered[filter.highest - j] > 0
              BY <6>4 DEF BitmapRecordsWindow
            <7>2. c - i \in Counters => delivered'[c - i] = delivered[c - i]
              BY <4>2, <6>3
            <7>3. filter'.highest - i = c - i /\ filter.highest - j = c - i
              BY <4>1, <6>1
            <7>4. i \in filter'.bitmap <=>
                     c - i \in Counters /\ delivered[c - i] > 0
              <8> HIDE DEF j
              <8> QED
                BY <6>2, <7>1, <7>3
            <7>5. QED
              BY <7>2, <7>3, <7>4
          <6>5. CASE j \notin Bits
            <7>1. j < 0
              <8>1. /\ filter.highest \in Int /\ c \in Int /\ i \in Int
                    /\ WindowSize \in Int /\ c > filter.highest
                    /\ i <= WindowSize - 1
                BY <3>2, <4>2 DEF Bits, Counters
              <8>2. j \in Int /\ j <= WindowSize - 1
                BY <8>1
              <8> HIDE DEF j
              <8>3. QED
                BY <6>5, <8>1, <8>2 DEF Bits
            <7>2. c - i > filter.highest
              BY <6>1, <7>1, <4>2 DEF Counters
            <7>3. c - i \in Counters => delivered[c - i] = 0
              BY <7>2, <4>2 DEF BitmapRecordsWindow, Counters
            <7>4. c - i \in Counters => delivered'[c - i] = 0
              BY <4>2, <6>3, <7>3
            <7>5. QED
              BY <4>1, <4>2, <6>2, <6>5, <7>4
          <6>6. QED
            BY <6>4, <6>5
        <5>3. QED
          BY <5>1, <5>2
      <4>4. ASSUME NEW d \in Counters, delivered'[d] > 0
            PROVE  d <= filter'.highest
        BY <3>2, <4>1, <4>2, <4>4 DEF BitmapRecordsWindow, Counters
      <4>5. delivered'[filter'.highest] > 0
        BY <4>1, <4>2
      <4>6. QED
        BY <4>3, <4>4, <4>5 DEF BitmapRecordsWindow
    <3>3. CASE Acceptable(filter, c) /\ c <= filter.highest
      <4>1. /\ filter'.highest = filter.highest
            /\ filter'.bitmap = filter.bitmap \cup {filter.highest - c}
            /\ filter.highest - c \in Bits \ filter.bitmap
        BY <2>1, <3>3, AcceptMeaning, CounterTypes DEF Receive
      <4>2. /\ delivered' = [delivered EXCEPT ![c] = @ + 1]
            /\ delivered \in [Counters -> Nat]
            /\ filter.highest \in Counters
        BY <2>1, <3>3 DEF Receive, TypeOK
      <4>3. ASSUME NEW i \in Bits
            PROVE  i \in filter'.bitmap <=>
                       /\ filter'.highest - i \in Counters
                       /\ delivered'[filter'.highest - i] > 0
        <5>1. CASE i = filter.highest - c
          BY <4>1, <4>2, <5>1, SMTT(30) DEF Counters
        <5>2. CASE i # filter.highest - c
          <6>1. filter.highest - i # c
            BY <5>2, <4>2 DEF Counters, Bits
          <6>2. i \in filter'.bitmap <=> i \in filter.bitmap
            BY <4>1, <5>2
          <6>3. filter.highest - i \in Counters
                  => delivered'[filter.highest - i] = delivered[filter.highest - i]
            BY <4>2, <6>1
          <6>4. QED
            BY <4>1, <6>2, <6>3 DEF BitmapRecordsWindow
        <5>3. QED
          BY <5>1, <5>2
      <4>4. ASSUME NEW d \in Counters, delivered'[d] > 0
            PROVE  d <= filter'.highest
        BY <3>3, <4>1, <4>2, <4>4 DEF BitmapRecordsWindow, Counters
      <4>5. filter'.highest > 0 => delivered'[filter'.highest] > 0
        BY <4>1, <4>2 DEF BitmapRecordsWindow
      <4>6. QED
        BY <4>3, <4>4, <4>5 DEF BitmapRecordsWindow
    <3>4. QED
      BY <3>1, <3>2, <3>3 DEF TypeOK, Counters
  <2>2. CASE UNCHANGED vars
    BY <2>2 DEF vars, BitmapRecordsWindow
  <2>3. QED
    BY <2>1, <2>2 DEF Next
<1>3. QED
  BY <1>1, <1>2, TypeCorrect, PTL DEF Spec

\* A verdict of the code is the verdict of the abstract window.
LEMMA VerdictsAgree ==
    ASSUME TypeOK, BitmapRecordsWindow, NEW c \in Counters
    PROVE  Acceptable(filter, c) <=> /\ c \notin Seen
                                     /\ \A s \in Seen : s - c < WindowSize
<1>0. /\ delivered \in [Counters -> Nat]
      /\ filter.highest \in Counters
      /\ filter.bitmap \in SUBSET Bits
  BY DEF TypeOK
<1>1. \A s \in Seen : s <= filter.highest
  BY DEF Seen, BitmapRecordsWindow
<1>2. CASE c > filter.highest
  BY <1>0, <1>1, <1>2 DEF Acceptable, Seen, Counters
<1>3. CASE c <= filter.highest /\ filter.highest - c >= WindowSize
  <2>1. filter.highest \in Seen
    BY <1>0, <1>3 DEF BitmapRecordsWindow, Seen, Counters
  <2>2. QED
    BY <1>0, <1>3, <2>1 DEF Acceptable, Counters
<1>4. CASE c <= filter.highest /\ filter.highest - c < WindowSize
  <2>1. filter.highest - c \in Bits /\ filter.highest - (filter.highest - c) = c
    BY <1>0, <1>4 DEF Bits, Counters
  <2>2. filter.highest - c \in filter.bitmap <=> c \in Seen
    BY <2>1 DEF BitmapRecordsWindow, Seen
  <2>3. \A s \in Seen : s - c < WindowSize
    BY <1>0, <1>1, <1>4 DEF Seen, Counters
  <2>4. QED
    BY <1>0, <1>4, <2>2, <2>3 DEF Acceptable, Counters
<1>5. QED
  BY <1>0, <1>2, <1>3, <1>4 DEF Counters

\* No counter is ever accepted twice.
THEOREM AtMostOnceCorrect == Spec => []AtMostOnce
<1>1. Init => AtMostOnce
  BY DEF Init, AtMostOnce
<1>2. TypeOK /\ BitmapRecordsWindow /\ AtMostOnce /\ [Next]_vars => AtMostOnce'
  <2> SUFFICES ASSUME TypeOK, BitmapRecordsWindow, AtMostOnce, [Next]_vars
               PROVE  AtMostOnce'
    OBVIOUS
  <2>1. ASSUME NEW c \in Counters, Receive(c) PROVE AtMostOnce'
    <3>1. Acceptable(filter, c) => delivered[c] = 0
      BY VerdictsAgree DEF Seen, TypeOK
    <3>2. QED
      BY <2>1, <3>1 DEF Receive, AtMostOnce, TypeOK
  <2>2. CASE UNCHANGED vars
    BY <2>2 DEF vars, AtMostOnce
  <2>3. QED
    BY <2>1, <2>2 DEF Next
<1>3. QED
  BY <1>1, <1>2, TypeCorrect, BitmapCorrect, PTL DEF Spec

\* The filter implements the bitmap-free window: every step of the receiver
\* is a step of ReplayWindow with the same verdict.
THEOREM Refinement == Spec => ImplementsWindow
<1>1. Init => Window!Init
  BY DEF Init, Window!Init, Seen
<1>2. TypeOK /\ BitmapRecordsWindow /\ [Next]_vars => [Window!Next]_(Window!vars)
  <2> SUFFICES ASSUME TypeOK, BitmapRecordsWindow, [Next]_vars
               PROVE  [Window!Next]_(Window!vars)
    OBVIOUS
  <2>1. ASSUME NEW c \in Counters, Receive(c) PROVE Window!Receive(c)
    <3>1. Acceptable(filter, c) <=> Window!Fresh(c)
      BY VerdictsAgree DEF Window!Fresh
    <3>2. verdict' = <<c, Window!Fresh(c)>>
      <4>1. Acceptable(filter, c) = Window!Fresh(c)
        BY <3>1 DEF Acceptable, Window!Fresh
      <4>2. QED
        BY <2>1, <4>1 DEF Receive
    <3>3. Seen' = IF Window!Fresh(c) THEN Seen \cup {c} ELSE Seen
      BY <2>1, <3>1 DEF Receive, Seen, TypeOK
    <3>4. QED
      BY <3>2, <3>3 DEF Window!Receive
  <2>2. CASE UNCHANGED vars
    BY <2>2 DEF vars, Window!vars, Seen
  <2>3. QED
    BY <2>1, <2>2 DEF Next, Window!Next, Counters
<1>3. QED
  BY <1>1, <1>2, TypeCorrect, BitmapCorrect, PTL
     DEF Spec, ImplementsWindow, Window!Spec
=============================================================================
