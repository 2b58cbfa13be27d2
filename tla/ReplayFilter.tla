---------------------------- MODULE ReplayFilter ----------------------------
(***************************************************************************)
(* The sliding-window replay filter of vc-core/src/crypto.rs               *)
(* (struct ReplayFilter), as operators on a record                         *)
(*                                                                         *)
(*   [highest |-> largest counter accepted so far, 0 at the start,         *)
(*    bitmap  |-> the set of the positions of the bits that are set].      *)
(*                                                                         *)
(* Bit i stands for the counter highest - i.  The word has exactly         *)
(* WindowSize bits (64 in the code, where the window is as wide as the     *)
(* u64 that holds it).                                                     *)
(***************************************************************************)
EXTENDS Integers

CONSTANT WindowSize     \* SLIDING_WINDOW_SIZE

ASSUME WindowAssumption == WindowSize \in Nat \ {0}

Bits == 0 .. WindowSize - 1

\* What a bitmap and a counter (u32, here any natural number) can be.
Filters == [highest : Nat, bitmap : SUBSET Bits]

\* ReplayFilter::new
NewFilter == [highest |-> 0, bitmap |-> {}]

\* A plausible mistake: the word is wider than the window.
MutantShiftLeft(bitmap, amount) == {i + (amount % WindowSize) : i \in bitmap}

\* The left shift of a WindowSize-bit word.  The hardware reduces the amount
\* modulo the width, which is why the code has to test for large shifts.
ShiftLeft(bitmap, amount) ==
    {i \in Bits : i - (amount % WindowSize) \in bitmap}

\* A plausible mistake: the shift is done without testing its amount.
MutantSlideUnguarded(f, c) ==
    [highest |-> c, bitmap |-> ShiftLeft(f.bitmap, c - f.highest) \cup {0}]

\* A plausible mistake: the bits are moved but the new highest is not marked.
MutantSlideUnmarked(f, c) ==
    [highest |-> c,
     bitmap  |-> IF c - f.highest >= WindowSize
                 THEN {}
                 ELSE ShiftLeft(f.bitmap, c - f.highest)]

\* The branch counter > highest: the window slides up to the new counter.
Slide(f, c) ==
    [highest |-> c,
     bitmap  |-> (IF c - f.highest >= WindowSize
                  THEN {}
                  ELSE ShiftLeft(f.bitmap, c - f.highest)) \cup {0}]

\* A plausible mistake: the last counter of the window counts as too old.
MutantAcceptableNarrow(f, c) ==
    \/ c > f.highest
    \/ /\ f.highest - c < WindowSize - 1
       /\ f.highest - c \notin f.bitmap

\* The verdict of check_and_accept.
Acceptable(f, c) ==
    \/ c > f.highest
    \/ /\ f.highest - c < WindowSize            \* else too old
       /\ f.highest - c \notin f.bitmap         \* else duplicate

\* The filter check_and_accept leaves behind.
CheckAndAccept(f, c) ==
    IF ~ Acceptable(f, c) THEN f
    ELSE IF c > f.highest THEN Slide(f, c)
    ELSE [f EXCEPT !.bitmap = @ \cup {f.highest - c}]
=============================================================================
