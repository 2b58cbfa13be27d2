---------------------------- MODULE JitterClock -----------------------------
(***************************************************************************)
(* A steady stream through the jitter buffer: in every frame period (2.5   *)
(* ms) the sender sends one frame, which arrives at once or is lost, and   *)
(* the playout pops once.  Only MaxLost frames are lost in all, at any     *)
(* time and in any pattern; after that the network is perfect.             *)
(*                                                                         *)
(* The statistics are cleared after each push: they only feed adapt, which *)
(* changes target_depth, which pop does not look at once playout began.    *)
(***************************************************************************)
EXTENDS JitterBuffer

CONSTANT MaxLost    \* frames lost in all

VARIABLES
    jb,         \* the JitterBuffer
    seq,        \* sequence number of the next frame
    lost,       \* frames lost so far
    arrived,    \* the frame of this period was sent, the pop is to come
    concealed   \* the last pop returned None: PLC fills the period

vars == <<jb, seq, lost, arrived, concealed>>

Init ==
    /\ jb = NewBuffer
    /\ seq = 0 /\ lost = 0
    /\ arrived = FALSE /\ concealed = TRUE

Forget(b) == [b EXCEPT !.total_packets = 0, !.late_packets = 0]

Arrive ==
    /\ ~ arrived /\ arrived' = TRUE
    /\ jb' = Forget(Push(jb, seq, seq))
    /\ seq' = (seq + 1) % SeqCount
    /\ UNCHANGED <<lost, concealed>>

Lose ==
    /\ ~ arrived /\ arrived' = TRUE
    /\ lost < MaxLost /\ lost' = lost + 1
    /\ seq' = (seq + 1) % SeqCount
    /\ UNCHANGED <<jb, concealed>>

PlayoutTick ==
    /\ arrived /\ arrived' = FALSE
    /\ jb' = Pop(jb)
    /\ concealed' = ~ Pops(jb)
    /\ UNCHANGED <<seq, lost>>

Next == Arrive \/ Lose \/ PlayoutTick

Spec == Init /\ [][Next]_vars

\* Frames keep being captured and the playout clock keeps ticking.
FairSpec == Spec /\ WF_vars(Next)

-----------------------------------------------------------------------------
\* README.md: "Adaptive jitter buffer - 1-4 frames (2.5-10ms), auto-tunes to
\* network conditions".  After the losses are over the playout is free of gaps
\* again.  A frame lost while the buffer is empty delays all later ones by one
\* slot for good; after 2 * MaxDepth of them the buffer is always full when a
\* frame arrives and turns it down, and the gap that this leaves keeps it full.
PlayoutRecovers == <>[](~ concealed)
=============================================================================
