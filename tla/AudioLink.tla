----------------------------- MODULE AudioLink ------------------------------
(***************************************************************************)
(* The audio from one peer, A, to another, B, while the two upgrade from   *)
(* the passphrase key (PSK) to the key of their own (PFS): the send        *)
(* section of the loop, the handlers of AUDIO and KEY_EXCHANGE, and the    *)
(* part of the ping section that offers the key (vc-core/src/lib.rs).      *)
(*                                                                         *)
(* A's two contexts count their packets separately, and B has a replay     *)
(* filter for each.  Frames are numbered from 0; the frame number is the   *)
(* seq_num of the packet.  Packets of either kind are reordered and        *)
(* repeated at will by the network, audio packets without bound.  Neither  *)
(* side restarts, so both derive the same key (Mesh, KeyAgreement).  The   *)
(* frames are far fewer than the 2^32 counters of a context, and decode    *)
(* (Opus) takes every payload that was authenticated.                      *)
(*                                                                         *)
(* One of the two may be a joiner whose first PEER_LIST is still on its    *)
(* way: the host, which has it Connected since its JOIN, sends it audio    *)
(* and its key, and a joiner without a session id can open neither.        *)
(***************************************************************************)
EXTENDS ReplayFilter

CONSTANTS
    MaxFrames,      \* bound: audio frames sent
    MaxOther,       \* bound: other packets of A under the PSK context
    MaxKxLost,      \* bound: KEY_EXCHANGEs lost
    MaxKxDups,      \* bound: KEY_EXCHANGEs delivered twice
    MaxRelists      \* bound: repeated PEER_LISTs delivered to A

ASSUME LinkAssumption ==
    /\ MaxFrames \in Nat /\ MaxOther \in Nat
    /\ MaxKxLost \in Nat /\ MaxKxDups \in Nat /\ MaxRelists \in Nat

Frames == 0 .. MaxFrames - 1
Contexts == {"psk", "pfs"}
Nodes == {"A", "B"}
Other(n) == CHOOSE p \in Nodes : p # n

VARIABLES
    kx_sent,        \* kx_sent[n]: n's KEY_EXCHANGE went out to the other
    kx_received,    \* kx_received[n]: n has the other's key, peer_crypto is set
    member,         \* member[n]: n has got a PEER_LIST, or is the host
    refused,        \* refused[n]: n dropped a KEY_EXCHANGE, being no member yet
    connected,      \* A's entry for B is Connected
    next_seq,       \* A's number for the next frame to B
    send_counter,   \* A's send counter of each context
    filter,         \* B's replay filters: replay_filter, peer_replay_filter
    pushed,         \* pushed[i]: how often frame i was put into B's buffer
    air,            \* audio packets in flight
    kx,             \* kx[n]: a KEY_EXCHANGE to n is in flight
    used            \* how much of each bound is used up

vars == <<kx_sent, kx_received, member, refused, connected, next_seq,
          send_counter, filter, pushed, air, kx, used>>

keys == <<kx_sent, kx_received, kx, member, refused>>
link == <<connected, next_seq, air>>
ears == <<filter, pushed>>

Init ==
    /\ kx_sent = [n \in Nodes |-> FALSE]
    /\ kx_received = [n \in Nodes |-> FALSE]
    /\ kx = [n \in Nodes |-> FALSE]
    /\ member \in [Nodes -> BOOLEAN] /\ \E n \in Nodes : member[n]
    /\ refused = [n \in Nodes |-> FALSE]
    /\ connected = member["A"] /\ next_seq = 0
    /\ send_counter = [c \in Contexts |-> 0]
    /\ filter = [c \in Contexts |-> NewFilter]
    /\ pushed = [i \in Frames |-> 0]
    /\ air = {}
    /\ used = [other |-> 0, lost |-> 0, dups |-> 0, relists |-> 0]

-----------------------------------------------------------------------------
(* Keys *)

\* The ping section offers n's key once.
OfferKey(n) ==
    /\ member[n] /\ ~ kx_sent[n]
    /\ n = "A" => connected
    /\ kx_sent' = [kx_sent EXCEPT ![n] = TRUE]
    /\ kx' = [kx EXCEPT ![Other(n)] = TRUE]
    /\ UNCHANGED <<kx_received, member, refused, link, ears, send_counter, used>>

\* A plausible mistake: the filter starts over with the context.
MutantRecvKeyExchangeResets(n) ==
    /\ kx[n] /\ member[n]
    /\ \E again \in {0, 1} :
        /\ used.dups + again <= MaxKxDups
        /\ used' = [used EXCEPT !.dups = @ + again]
        /\ kx' = [kx EXCEPT ![n] = again = 1, ![Other(n)] = @ \/ ~ kx_sent[n]]
    /\ kx_received' = [kx_received EXCEPT ![n] = TRUE]
    /\ kx_sent' = [kx_sent EXCEPT ![n] = TRUE]
    /\ send_counter' = IF n = "A" THEN [send_counter EXCEPT !["pfs"] = 0]
                       ELSE send_counter
    /\ filter' = IF n = "B" THEN [filter EXCEPT !["pfs"] = NewFilter] ELSE filter
    /\ UNCHANGED <<member, refused, link, pushed>>

\* A plausible mistake: our key is taken for sent, but it is not.
MutantRecvKeyExchangeMute(n) ==
    /\ kx[n] /\ member[n]
    /\ \E again \in {0, 1} :
        /\ used.dups + again <= MaxKxDups
        /\ used' = [used EXCEPT !.dups = @ + again]
        /\ kx' = [kx EXCEPT ![n] = again = 1]
    /\ kx_received' = [kx_received EXCEPT ![n] = TRUE]
    /\ kx_sent' = [kx_sent EXCEPT ![n] = TRUE]
    /\ send_counter' = IF n = "A" THEN [send_counter EXCEPT !["pfs"] = 0]
                       ELSE send_counter
    /\ UNCHANGED <<member, refused, link, ears>>

\* Every KEY_EXCHANGE makes a new context, whose counter is 0; the filters
\* stay.  Our key goes back if it did not go out yet.
RecvKeyExchange(n) ==
    /\ kx[n] /\ member[n]
    /\ \E again \in {0, 1} :
        /\ used.dups + again <= MaxKxDups
        /\ used' = [used EXCEPT !.dups = @ + again]
        /\ kx' = [kx EXCEPT ![n] = again = 1, ![Other(n)] = @ \/ ~ kx_sent[n]]
    /\ kx_received' = [kx_received EXCEPT ![n] = TRUE]
    /\ kx_sent' = [kx_sent EXCEPT ![n] = TRUE]
    /\ send_counter' = IF n = "A" THEN [send_counter EXCEPT !["pfs"] = 0]
                       ELSE send_counter
    /\ UNCHANGED <<member, refused, link, ears>>

\* A KEY_EXCHANGE that overtakes the PEER_LIST: it does not open under the
\* all-zero session id, and the handler returns.
RefuseKeyExchange(n) ==
    /\ kx[n] /\ ~ member[n]
    /\ \E again \in {0, 1} :
        /\ used.dups + again <= MaxKxDups
        /\ used' = [used EXCEPT !.dups = @ + again]
        /\ kx' = [kx EXCEPT ![n] = again = 1]
    /\ refused' = [refused EXCEPT ![n] = TRUE]
    /\ UNCHANGED <<kx_sent, kx_received, member, link, ears, send_counter>>

LoseKeyExchange(n) ==
    /\ kx[n] /\ used.lost < MaxKxLost
    /\ kx' = [kx EXCEPT ![n] = FALSE]
    /\ used' = [used EXCEPT !.lost = @ + 1]
    /\ UNCHANGED <<kx_sent, kx_received, member, refused, link, ears, send_counter>>

-----------------------------------------------------------------------------
(* Audio *)

UsesPeerKey(n) == kx_sent[n] /\ kx_received[n]

\* A frame that passed A's gate is sealed and sent to B.
SendAudio ==
    LET ctx == IF UsesPeerKey("A") THEN "pfs" ELSE "psk"
    IN  /\ connected /\ next_seq < MaxFrames
        /\ air' = air \cup {[ctx |-> ctx, seq |-> next_seq,
                             counter |-> send_counter[ctx]]}
        /\ send_counter' = [send_counter EXCEPT ![ctx] = @ + 1]
        /\ next_seq' = next_seq + 1
        /\ UNCHANGED <<keys, connected, ears, used>>

\* A KEEPALIVE, PING or PONG, or audio for a third peer: the PSK context is
\* shared by all of them.
SendOther ==
    /\ member["A"] /\ used.other < MaxOther
    /\ used' = [used EXCEPT !.other = @ + 1]
    /\ send_counter' = [send_counter EXCEPT !["psk"] = @ + 1]
    /\ UNCHANGED <<keys, link, ears>>

\* B can open the packet: under the peer's key if it has one, else, or if that
\* fails, under the passphrase and the session id.
Opens(p) == member["B"] /\ (p.ctx = "psk" \/ kx_received["B"])

\* A plausible mistake: one filter for both contexts.
MutantFilterOf(p) == "psk"

\* The filter that a packet passes: the one of the context that opened it.
FilterOf(p) == p.ctx

Heard(p) == Opens(p) /\ Acceptable(filter[FilterOf(p)], p.counter)

\* B handles an AUDIO packet; a copy of it may still be in flight.
RecvAudio(p) ==
    /\ p \in air
    /\ \E copies \in {{}, {p}} : air' = (air \ {p}) \cup copies
    /\ filter' = IF Opens(p)
                 THEN [filter EXCEPT ![FilterOf(p)] = CheckAndAccept(@, p.counter)]
                 ELSE filter
    /\ pushed' = IF Heard(p) THEN [pushed EXCEPT ![p.seq] = @ + 1] ELSE pushed
    /\ UNCHANGED <<keys, connected, next_seq, send_counter, used>>

LoseAudio(p) ==
    /\ p \in air /\ air' = air \ {p}
    /\ UNCHANGED <<keys, connected, next_seq, ears, send_counter, used>>

-----------------------------------------------------------------------------
(* PEER_LIST *)

\* The first one makes n a member.  A then has a fresh PSK context, which its
\* counter shows already, and waits for the HELLO_ACK of B.
RecvPeerList(n) ==
    /\ ~ member[n] /\ member' = [member EXCEPT ![n] = TRUE]
    /\ UNCHANGED <<kx_sent, kx_received, kx, refused, link, ears, send_counter, used>>

\* A is a joiner whose PEER_LIST arrives once more: a new PSK context, and a
\* HELLO to B, which is not Connected meanwhile.
RecvPeerListAgain ==
    /\ member["A"] /\ used.relists < MaxRelists
    /\ used' = [used EXCEPT !.relists = @ + 1]
    /\ send_counter' = [send_counter EXCEPT !["psk"] = 0]
    /\ connected' = FALSE
    /\ UNCHANGED <<keys, next_seq, air, ears>>

RecvHelloAck ==
    /\ member["A"] /\ ~ connected /\ connected' = TRUE
    /\ UNCHANGED <<keys, next_seq, air, ears, send_counter, used>>

Next ==
    \/ \E n \in Nodes : \/ OfferKey(n) \/ RecvKeyExchange(n)
                        \/ RefuseKeyExchange(n) \/ LoseKeyExchange(n)
                        \/ RecvPeerList(n)
    \/ \E p \in air : RecvAudio(p) \/ LoseAudio(p)
    \/ SendAudio
    \/ SendOther
    \/ RecvPeerListAgain
    \/ RecvHelloAck

Spec == Init /\ [][Next]_vars

-----------------------------------------------------------------------------
Packets == [ctx : Contexts, seq : Frames, counter : Nat]

TypeOK ==
    /\ kx_sent \in [Nodes -> BOOLEAN] /\ kx_received \in [Nodes -> BOOLEAN]
    /\ kx \in [Nodes -> BOOLEAN] /\ connected \in BOOLEAN
    /\ member \in [Nodes -> BOOLEAN] /\ refused \in [Nodes -> BOOLEAN]
    /\ next_seq \in 0 .. MaxFrames
    /\ send_counter \in [Contexts -> Nat]
    /\ filter \in [Contexts -> Filters]
    /\ pushed \in [Frames -> Nat]
    /\ air \subseteq Packets
    /\ used \in [other : Nat, lost : Nat, dups : Nat, relists : Nat]

\* No frame gets into the jitter buffer twice: not by a copy that arrives after
\* the upgrade, nor by one that arrives after a new context was made.
PushedOnce == \A i \in Frames : pushed[i] <= 1

\* lib.rs in the handler of AUDIO: "we track replay state per-context to avoid
\* rejecting legitimate PFS packets whose counter restarts from 0 after
\* upgrade".  A frame that B can open, that it has not got before and that was
\* not overtaken by a window of packets is let through.  This holds until a
\* KEY_EXCHANGE or a PEER_LIST is repeated, which sets a counter back to 0.
FreshHeard ==
    [][\A p \in air :
        /\ used.dups = 0 /\ used.relists = 0
        /\ RecvAudio(p) /\ Opens(p) /\ pushed[p.seq] = 0
        /\ \A i \in Frames : pushed[i] > 0 => i - p.seq < WindowSize - MaxOther
        => pushed'[p.seq] = 1]_vars

\* A seals audio with their own key only when B has that key, too, or is about
\* to get it, whoever begins and however often keys arrive.  There are two ways
\* to leave B with a key it cannot open, and no others: a KEY_EXCHANGE is lost,
\* or B drops A's, which overtook its PEER_LIST.  kx_sent keeps A from sending
\* it again.  A key that A drops in the same way does no harm to this audio.
UpgradeSafe ==
    UsesPeerKey("A") => \/ kx_received["B"] \/ kx["B"]
                        \/ used.lost > 0 \/ refused["B"]
=============================================================================
