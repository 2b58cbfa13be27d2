---------------------------- MODULE JitterStream ----------------------------
(***************************************************************************)
(* The audio of one peer through a network that loses and reorders packets *)
(* into its JitterBuffer, and out of it at the ticks of the playout        *)
(* (lib.rs: send and playout sections of the loop, handler of AUDIO).      *)
(*                                                                         *)
(* Frame i carries the sequence number i modulo SeqCount (next_seq wraps).   *)
(* The replay filter in front of the buffer lets a packet through once,    *)
(* and only if it is less than ReplayWindow behind the newest; here that   *)
(* is a guard of Deliver (ReplayWindow.tla).                               *)
(***************************************************************************)
EXTENDS JitterBuffer

CONSTANTS
    ReplayWindow,   \* SLIDING_WINDOW_SIZE
    MaxSent,        \* bound: frames sent
    MaxFlight       \* bound: packets in flight

VARIABLES
    jb,             \* the JitterBuffer
    sent,           \* number of frames sent: the next one is frame sent
    flight,         \* the frames in flight
    newest,         \* newest frame delivered, -1 at the start
    due,            \* the frame that next_playout_seq stands for, or NoSeq
    played          \* the last frame played, -1 at the start

vars == <<jb, sent, flight, newest, due, played>>

\* The window (64) is much smaller than half the sequence numbers (2^16).
ASSUME StreamAssumption ==
    /\ ReplayWindow \in Nat /\ MaxSent \in Nat /\ MaxFlight \in Nat
    /\ 2 * ReplayWindow < SeqCount

Init ==
    /\ jb = NewBuffer
    /\ sent = 0 /\ flight = {} /\ newest = -1
    /\ due = NoSeq /\ played = -1

\* The oldest frame the receiver may still have to put in order.
Oldest == IF due # NoSeq THEN due
          ELSE Min({sent} \cup flight \cup
                   {jb.frames[i].pcm : i \in DOMAIN jb.frames})

\* An assumption on the environment, not a check of the code: the sender is
\* never half the sequence numbers (32768 frames, 82 seconds of speech) ahead
\* of that frame.  Only a loss of all audio for so long, while KEEPALIVE and
\* PING get through and keep the peer connected, would leave it.
WithinHalf == sent - Oldest < Half

Send ==
    /\ sent < MaxSent /\ Cardinality(flight) < MaxFlight /\ WithinHalf
    /\ flight' = flight \cup {sent}
    /\ sent' = sent + 1
    /\ UNCHANGED <<jb, newest, due, played>>

Deliver(i) ==
    /\ i \in flight /\ newest - i < ReplayWindow
    /\ jb' = Push(jb, i % SeqCount, i)
    /\ flight' = flight \ {i}
    /\ newest' = IF i > newest THEN i ELSE newest
    /\ UNCHANGED <<sent, due, played>>

\* Lost, or turned down by the replay filter as too old.
Drop(i) ==
    /\ i \in flight
    /\ flight' = flight \ {i}
    /\ UNCHANGED <<jb, sent, newest, due, played>>

\* A tick of the playout section.
PlayoutTick ==
    /\ jb' = Pop(jb)
    /\ due' = IF ~ Plays(jb) THEN due
              ELSE IF due = NoSeq THEN jb.frames[1].pcm + 1 ELSE due + 1
    /\ played' = IF Pops(jb) THEN jb.frames[PopIndex(jb)].pcm ELSE played
    /\ UNCHANGED <<sent, flight, newest>>

\* The adaptation section, every half second.
AdaptTick ==
    /\ jb' = Adapt(jb)
    /\ UNCHANGED <<sent, flight, newest, due, played>>

Next ==
    \/ Send
    \/ \E i \in flight : Deliver(i) \/ Drop(i)
    \/ PlayoutTick
    \/ AdaptTick

Spec == Init /\ [][Next]_vars

-----------------------------------------------------------------------------
TypeOK ==
    /\ jb.target_depth \in 1 .. MaxDepth
    /\ jb.next_playout_seq \in {NoSeq} \cup 0 .. SeqCount - 1
    /\ jb.late_packets \in 0 .. jb.total_packets
    /\ jb.time_since_decrease \in 0 .. Holdoff
    /\ Len(jb.frames) <= 2 * MaxDepth
    /\ \A k \in DOMAIN jb.frames :
        /\ jb.frames[k].pcm \in 0 .. MaxSent
        /\ jb.frames[k].seq_num = jb.frames[k].pcm % SeqCount

\* The buffer is sorted by the age of the frames, not by their numbers, and it
\* holds no frame that should have been played: also across the wrap of the
\* sequence numbers ("Buffered frames, sorted by sequence number").
SortedFresh ==
    /\ \A k, l \in DOMAIN jb.frames : k < l => jb.frames[k].pcm < jb.frames[l].pcm
    /\ due # NoSeq => \A k \in DOMAIN jb.frames : jb.frames[k].pcm >= due

\* Frames are played in the order they were spoken, each at most once, and a
\* frame is played in its own slot: it is the one that is due.
PlayedInOrder ==
    [][played' # played =>
        /\ played' > played
        /\ due # NoSeq => played' = due]_vars

\* A frame that arrives before its turn to a buffer with room is played when
\* its turn comes: the playout skips no frame it has.
NoFrameSkipped ==
    [][due # NoSeq /\ due' = due + 1 /\
        (\E k \in DOMAIN jb.frames : jb.frames[k].pcm = due)
            => played' = due]_vars
=============================================================================
