---------------------------- MODULE ReplayWindow ----------------------------
(***************************************************************************)
(* What the replay filter promises, with no bitmap and no highest counter: *)
(* a packet is accepted exactly when its counter was never accepted before *)
(* and no accepted counter is a whole window ahead of it.                  *)
(***************************************************************************)
EXTENDS Integers

CONSTANTS
    WindowSize,     \* how far behind the newest accepted counter one may be
    MaxCounter      \* the counters are 0 .. MaxCounter

VARIABLES
    seen,           \* the counters accepted so far
    verdict         \* <<counter, accepted>> of the last packet

vars == <<seen, verdict>>

Init == /\ seen = {}
        /\ verdict = <<0, FALSE>>

Fresh(c) == /\ c \notin seen
            /\ \A s \in seen : s - c < WindowSize

Receive(c) ==
    /\ verdict' = <<c, Fresh(c)>>
    /\ seen' = IF Fresh(c) THEN seen \cup {c} ELSE seen

Next == \E c \in 0 .. MaxCounter : Receive(c)

Spec == Init /\ [][Next]_vars
=============================================================================
