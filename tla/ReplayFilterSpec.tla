-------------------------- MODULE ReplayFilterSpec --------------------------
(***************************************************************************)
(* A receiver that passes every packet of a stream through one             *)
(* ReplayFilter.  The network may reorder, repeat and lose packets at      *)
(* will: any counter may arrive at any time.                               *)
(***************************************************************************)
EXTENDS ReplayFilter

CONSTANT MaxCounter     \* bound on the counters (u32::MAX in the code)

ASSUME MaxCounterAssumption == MaxCounter \in Nat

Counters == 0 .. MaxCounter

VARIABLES
    filter,     \* the ReplayFilter
    delivered,  \* how many packets with each counter were let through
    verdict     \* <<counter, accepted>> of the last packet

vars == <<filter, delivered, verdict>>

TypeOK ==
    /\ filter \in [highest : Counters, bitmap : SUBSET Bits]
    /\ delivered \in [Counters -> Nat]
    /\ verdict \in Counters \X BOOLEAN

Init ==
    /\ filter = NewFilter
    /\ delivered = [c \in Counters |-> 0]
    /\ verdict = <<0, FALSE>>

\* One packet with an authentic header reaches check_and_accept.
Receive(c) ==
    /\ filter' = CheckAndAccept(filter, c)
    /\ delivered' = IF Acceptable(filter, c)
                    THEN [delivered EXCEPT ![c] = @ + 1]
                    ELSE delivered
    /\ verdict' = <<c, Acceptable(filter, c)>>

Next == \E c \in Counters : Receive(c)

Spec == Init /\ [][Next]_vars

-----------------------------------------------------------------------------
Seen == {c \in Counters : delivered[c] > 0}

\* No packet is played twice, however often and however late the network
\* repeats it: check_and_accept returns true at most once per counter.
AtMostOnce == \A c \in Counters : delivered[c] <= 1

\* The bitmap is the memory of the window: bit i is set exactly when the
\* counter highest - i was accepted, and nothing above highest ever was
\* (the comment on ReplayFilter::bitmap).
BitmapRecordsWindow ==
    /\ \A i \in Bits : i \in filter.bitmap <=>
                            /\ filter.highest - i \in Counters
                            /\ delivered[filter.highest - i] > 0
    /\ \A c \in Counters : delivered[c] > 0 => c <= filter.highest
    /\ filter.highest > 0 => delivered[filter.highest] > 0

\* The filter implements the bitmap-free window: it also never rejects a
\* packet that is inside the window and was not accepted before.
Window == INSTANCE ReplayWindow WITH seen <- Seen

ImplementsWindow == Window!Spec
=============================================================================
