-------------------------- MODULE AudioLinkProofs ---------------------------
(***************************************************************************)
(* For every window size, every number of frames and every number of       *)
(* repeated KEY_EXCHANGEs and PEER_LISTs: no frame is put into the jitter  *)
(* buffer twice, although the counters of both contexts may start over.    *)
(***************************************************************************)
EXTENDS AudioLink, TLAPS

USE LinkAssumption, WindowAssumption

(* What a filter remembers *)

\* The window that slides marks the new counter and keeps the bits that do not
\* leave it.
LEMMA SlideMeaning ==
    ASSUME NEW f \in Filters, NEW c \in Nat, c > f.highest
    PROVE  /\ Slide(f, c) \in Filters /\ Slide(f, c).highest = c
           /\ Slide(f, c).bitmap = {0} \cup {i \in Bits : i - (c - f.highest) \in f.bitmap}
<1>1. PICK h \in Nat, b \in SUBSET Bits : f.highest = h /\ f.bitmap = b
  BY DEF Filters
<1>2. c - h \in Nat /\ 0 \in Bits
  BY <1>1 DEF Bits
<1>3. CASE c - h >= WindowSize
  <2>1. Slide(f, c) = [highest |-> c, bitmap |-> {} \cup {0}]
    BY <1>1, <1>3 DEF Slide
  <2>2. {i \in Bits : i - (c - h) \in b} = {}
    BY <1>2, <1>3 DEF Bits
  <2>3. QED
    BY <1>1, <1>2, <2>1, <2>2 DEF Filters
<1>4. CASE c - h < WindowSize
  <2>1. (c - h) % WindowSize = c - h
    BY <1>2, <1>4
  <2>2. Slide(f, c) = [highest |-> c, bitmap |-> {i \in Bits : i - (c - h) \in b} \cup {0}]
    <3>1. ~ (c - h >= WindowSize)
      BY <1>2, <1>4
    <3>2. QED
      BY <1>1, <2>1, <3>1 DEF Slide, ShiftLeft
  <2>3. QED
    BY <1>1, <1>2, <2>2 DEF Filters
<1>5. QED
  BY <1>2, <1>3, <1>4

\* A counter that check_and_accept has seen is not acceptable afterwards,
\* whether it was let through or turned down, and it stays so whatever other
\* counters arrive: no later packet makes the filter forget.
LEMMA FilterRemembers ==
    ASSUME NEW f \in Filters, NEW c \in Nat
    PROVE  /\ CheckAndAccept(f, c) \in Filters
           /\ ~ Acceptable(CheckAndAccept(f, c), c)
           /\ \A d \in Nat : ~ Acceptable(f, d) => ~ Acceptable(CheckAndAccept(f, c), d)
<1>1. f.highest \in Nat /\ f.bitmap \in SUBSET Bits
  BY DEF Filters
<1>2. CASE ~ Acceptable(f, c)
  BY <1>2 DEF CheckAndAccept
<1>3. CASE Acceptable(f, c) /\ c > f.highest
  <2>1. PICK g \in Filters : /\ g = Slide(f, c) /\ g.highest = c /\ 0 \in g.bitmap
                             /\ \A i \in Bits : i - (c - f.highest) \in f.bitmap
                                                    => i \in g.bitmap
    BY <1>3, SlideMeaning
  <2>2. CheckAndAccept(f, c) = g
    BY <1>3, <2>1 DEF CheckAndAccept
  <2>3. ~ Acceptable(g, c)
    BY <2>1 DEF Acceptable
  <2>4. ASSUME NEW d \in Nat, ~ Acceptable(f, d)
        PROVE  ~ Acceptable(g, d)
    <3>1. /\ d <= f.highest
          /\ f.highest - d >= WindowSize \/ f.highest - d \in f.bitmap
      BY <1>1, <2>4 DEF Acceptable
    <3>2. CASE f.highest - d >= WindowSize
      <4>1. ~ (d > c) /\ ~ (c - d < WindowSize)
        BY <1>1, <1>3, <3>1, <3>2
      <4>2. QED
        BY <2>1, <4>1 DEF Acceptable
    <3>3. CASE f.highest - d \in f.bitmap
      <4>1. /\ (c - d) - (c - f.highest) = f.highest - d /\ ~ (d > c)
            /\ c - d < WindowSize => c - d \in Bits
        BY <1>1, <1>3, <3>1 DEF Bits
      <4>2. c - d < WindowSize => c - d \in g.bitmap
        BY <2>1, <3>3, <4>1
      <4>3. QED
        BY <2>1, <4>1, <4>2 DEF Acceptable
    <3>4. QED
      BY <3>1, <3>2, <3>3
  <2>5. QED
    BY <2>1, <2>2, <2>3, <2>4
<1>4. CASE Acceptable(f, c) /\ ~ (c > f.highest)
  <2>1. PICK g : g = [highest |-> f.highest, bitmap |-> f.bitmap \cup {f.highest - c}]
    OBVIOUS
  <2>2. CheckAndAccept(f, c) = g
    BY <1>4, <2>1 DEF CheckAndAccept, Filters
  <2>3. f.highest - c \in Bits
    BY <1>1, <1>4 DEF Acceptable, Bits
  <2>4. g \in Filters
    BY <1>1, <2>1, <2>3 DEF Filters
  <2>5. ~ Acceptable(g, c)
    BY <1>4, <2>1 DEF Acceptable
  <2>6. \A d \in Nat : ~ Acceptable(f, d) => ~ Acceptable(g, d)
    BY <2>1 DEF Acceptable
  <2>7. QED
    BY <2>2, <2>4, <2>5, <2>6
<1>5. QED
  BY <1>2, <1>3, <1>4

-----------------------------------------------------------------------------
\* Types are preserved by every step.
THEOREM TypeCorrect == Spec => []TypeOK
<1>1. Init => TypeOK
  <2> SUFFICES ASSUME Init PROVE TypeOK
    OBVIOUS
  <2>1. NewFilter \in Filters
    BY DEF NewFilter, Filters
  <2>2. /\ member \in [Nodes -> BOOLEAN] /\ connected \in BOOLEAN
    BY DEF Init, Nodes
  <2>3. QED
    BY <2>1, <2>2 DEF Init, TypeOK
<1>2. TypeOK /\ [Next]_vars => TypeOK'
  <2> SUFFICES ASSUME TypeOK, [Next]_vars PROVE TypeOK'
    OBVIOUS
  <2>1. ASSUME NEW n \in Nodes, OfferKey(n) PROVE TypeOK'
    BY <2>1 DEF OfferKey, TypeOK, link, ears
  <2>2. ASSUME NEW n \in Nodes, RecvKeyExchange(n) PROVE TypeOK'
    <3>1. kx' \in [Nodes -> BOOLEAN]
      BY <2>2 DEF RecvKeyExchange, TypeOK
    <3>2. send_counter' \in [Contexts -> Nat]
      BY <2>2 DEF RecvKeyExchange, TypeOK
    <3>3. QED
      BY <2>2, <3>1, <3>2 DEF RecvKeyExchange, TypeOK, link, ears
  <2>3. ASSUME NEW n \in Nodes, LoseKeyExchange(n) PROVE TypeOK'
    BY <2>3 DEF LoseKeyExchange, TypeOK, link, ears
  <2>4. ASSUME NEW p \in air, RecvAudio(p) PROVE TypeOK'
    <3>1. p \in Packets /\ p.ctx \in Contexts /\ p.counter \in Nat
          /\ p.seq \in Frames /\ FilterOf(p) \in Contexts
      BY DEF TypeOK, Packets, FilterOf
    <3>2. CheckAndAccept(filter[FilterOf(p)], p.counter) \in Filters
      BY <3>1, FilterRemembers DEF TypeOK
    <3>3. filter' \in [Contexts -> Filters]
      BY <2>4, <3>1, <3>2 DEF RecvAudio, TypeOK
    <3>4. pushed' \in [Frames -> Nat]
      BY <2>4, <3>1 DEF RecvAudio, TypeOK
    <3>5. air' \subseteq Packets
      BY <2>4, <3>1 DEF RecvAudio, TypeOK
    <3>6. QED
      BY <2>4, <3>3, <3>4, <3>5 DEF RecvAudio, TypeOK, keys
  <2>5. ASSUME NEW p \in air, LoseAudio(p) PROVE TypeOK'
    BY <2>5 DEF LoseAudio, TypeOK, keys, ears
  <2>6. CASE SendAudio
    <3> DEFINE ctx == IF UsesPeerKey("A") THEN "pfs" ELSE "psk"
    <3>1. ctx \in Contexts /\ next_seq \in Frames /\ send_counter[ctx] \in Nat
      BY <2>6 DEF SendAudio, TypeOK, Contexts, Frames
    <3>2. air' \subseteq Packets
      BY <2>6, <3>1 DEF SendAudio, TypeOK, Packets
    <3>3. send_counter' \in [Contexts -> Nat] /\ next_seq' \in 0 .. MaxFrames
      BY <2>6, <3>1 DEF SendAudio, TypeOK
    <3>4. QED
      BY <2>6, <3>2, <3>3 DEF SendAudio, TypeOK, keys, ears
  <2>7. CASE SendOther
    <3>1. send_counter' \in [Contexts -> Nat]
      BY <2>7 DEF SendOther, TypeOK, Contexts
    <3>2. used' \in [other : Nat, lost : Nat, dups : Nat, relists : Nat]
      BY <2>7 DEF SendOther, TypeOK
    <3>3. QED
      BY <2>7, <3>1, <3>2 DEF SendOther, TypeOK, keys, link, ears
  <2>8. CASE RecvPeerListAgain
    <3>1. send_counter' \in [Contexts -> Nat]
      BY <2>8 DEF RecvPeerListAgain, TypeOK, Contexts
    <3>2. used' \in [other : Nat, lost : Nat, dups : Nat, relists : Nat]
      BY <2>8 DEF RecvPeerListAgain, TypeOK
    <3>3. QED
      BY <2>8, <3>1, <3>2 DEF RecvPeerListAgain, TypeOK, keys, ears
  <2>9. CASE RecvHelloAck
    BY <2>9 DEF RecvHelloAck, TypeOK, keys, ears
  <2>10. ASSUME NEW n \in Nodes, RefuseKeyExchange(n) PROVE TypeOK'
    <3>1. kx' \in [Nodes -> BOOLEAN] /\ refused' \in [Nodes -> BOOLEAN]
      BY <2>10 DEF RefuseKeyExchange, TypeOK
    <3>2. used' \in [other : Nat, lost : Nat, dups : Nat, relists : Nat]
      BY <2>10 DEF RefuseKeyExchange, TypeOK
    <3>3. QED
      BY <2>10, <3>1, <3>2 DEF RefuseKeyExchange, TypeOK, link, ears
  <2>11. ASSUME NEW n \in Nodes, RecvPeerList(n) PROVE TypeOK'
    BY <2>11 DEF RecvPeerList, TypeOK, link, ears
  <2>12. CASE UNCHANGED vars
    BY <2>12 DEF vars, TypeOK
  <2>13. QED
    BY <2>1, <2>2, <2>3, <2>4, <2>5, <2>6, <2>7, <2>8, <2>9, <2>10, <2>11, <2>12 DEF Next
<1>3. QED
  BY <1>1, <1>2, PTL DEF Spec

-----------------------------------------------------------------------------
\* A frame has one packet at most, and it was sent before.
OnePacketPerFrame ==
    /\ \A p \in air : p.seq < next_seq
    /\ \A p, q \in air : p.seq = q.seq => p = q

\* The frame that is pushed was sent; a copy of its packet is of no more use.
PushedIsSpent ==
    /\ \A i \in Frames : pushed[i] > 0 => i < next_seq
    /\ \A p \in air : pushed[p.seq] > 0
                        => ~ Acceptable(filter[p.ctx], p.counter)

\* The inductive invariant.  PushedOnce says nothing of the filters, so it does
\* not survive a step on its own.
LinkInv == OnePacketPerFrame /\ PushedIsSpent /\ PushedOnce

\* The steps that neither handle audio nor send it leave the invariant alone.
LEMMA QuietSteps ==
    ASSUME LinkInv, UNCHANGED <<next_seq, air, filter, pushed>>
    PROVE  LinkInv'
BY DEF LinkInv, OnePacketPerFrame, PushedIsSpent, PushedOnce

LEMMA SendKeepsLinkInv ==
    ASSUME TypeOK, LinkInv, SendAudio
    PROVE  LinkInv'
<1> DEFINE ctx == IF UsesPeerKey("A") THEN "pfs" ELSE "psk"
           new == [ctx |-> ctx, seq |-> next_seq, counter |-> send_counter[ctx]]
<1>1. /\ air' = air \cup {new} /\ new.seq = next_seq
      /\ next_seq' = next_seq + 1 /\ next_seq \in Nat /\ next_seq \in Frames
      /\ filter' = filter /\ pushed' = pushed
      /\ \A p \in air : p.seq \in Nat
      /\ pushed \in [Frames -> Nat]
  BY DEF SendAudio, TypeOK, ears, Packets, Frames
<1>2. OnePacketPerFrame'
  BY <1>1 DEF LinkInv, OnePacketPerFrame
<1>3. PushedIsSpent'
  <2>1. ~ pushed[next_seq] > 0
    BY <1>1 DEF LinkInv, PushedIsSpent
  <2>2. \A i \in Frames : pushed'[i] > 0 => i < next_seq'
    BY <1>1 DEF LinkInv, PushedIsSpent, Frames
  <2>3. \A p \in air' : pushed'[p.seq] > 0
                          => ~ Acceptable(filter'[p.ctx], p.counter)
    BY <1>1, <2>1 DEF LinkInv, PushedIsSpent
  <2>4. QED
    BY <2>2, <2>3 DEF PushedIsSpent
<1>4. PushedOnce'
  BY <1>1 DEF LinkInv, PushedOnce
<1>5. QED
  BY <1>2, <1>3, <1>4 DEF LinkInv

LEMMA RecvKeepsLinkInv ==
    ASSUME TypeOK, LinkInv, NEW p \in air, RecvAudio(p)
    PROVE  LinkInv'
<1>1. /\ air' \subseteq air /\ next_seq' = next_seq
      /\ \A q \in air : /\ q.ctx \in Contexts /\ q.seq \in Frames
                        /\ q.counter \in Nat
      /\ pushed \in [Frames -> Nat] /\ filter \in [Contexts -> Filters]
  BY DEF RecvAudio, TypeOK, Packets
<1>2. OnePacketPerFrame'
  BY <1>1 DEF LinkInv, OnePacketPerFrame
<1>3. /\ filter' = IF Opens(p)
                   THEN [filter EXCEPT ![p.ctx] =
                            CheckAndAccept(filter[p.ctx], p.counter)]
                   ELSE filter
      /\ pushed' = IF Opens(p) /\ Acceptable(filter[p.ctx], p.counter)
                   THEN [pushed EXCEPT ![p.seq] = @ + 1] ELSE pushed
  BY DEF RecvAudio, FilterOf, Heard
<1>4. CASE pushed' = pushed
  <2>1. ASSUME NEW q \in air', pushed'[q.seq] > 0
        PROVE  ~ Acceptable(filter'[q.ctx], q.counter)
    <3>1. ~ Acceptable(filter[q.ctx], q.counter) /\ q \in air
      BY <1>1, <1>4, <2>1 DEF LinkInv, PushedIsSpent
    <3>2. CASE Opens(p) /\ q.ctx = p.ctx
      BY <1>1, <1>3, <3>1, <3>2, FilterRemembers
    <3>3. CASE ~ (Opens(p) /\ q.ctx = p.ctx)
      BY <1>1, <1>3, <3>1, <3>3
    <3>4. QED
      BY <3>2, <3>3
  <2>2. QED
    BY <1>1, <1>2, <1>4, <2>1 DEF LinkInv, PushedIsSpent, PushedOnce
<1>5. CASE pushed' # pushed
  <2>1. /\ Opens(p) /\ Acceptable(filter[p.ctx], p.counter)
        /\ pushed' = [pushed EXCEPT ![p.seq] = @ + 1]
        /\ filter' = [filter EXCEPT ![p.ctx] =
                        CheckAndAccept(filter[p.ctx], p.counter)]
    BY <1>3, <1>5
  <2>2. pushed[p.seq] = 0
    BY <1>1, <2>1 DEF LinkInv, PushedIsSpent
  <2>3. PushedOnce'
    BY <1>1, <2>1, <2>2 DEF LinkInv, PushedOnce
  <2>4. \A i \in Frames : pushed'[i] > 0 => i < next_seq'
    BY <1>1, <2>1 DEF LinkInv, PushedIsSpent, OnePacketPerFrame
  <2>5. ASSUME NEW q \in air', pushed'[q.seq] > 0
        PROVE  ~ Acceptable(filter'[q.ctx], q.counter)
    <3>1. CASE q.seq = p.seq
      <4>1. q = p
        BY <1>1, <3>1 DEF LinkInv, OnePacketPerFrame
      <4>2. ~ Acceptable(CheckAndAccept(filter[p.ctx], p.counter), p.counter)
        BY <1>1, FilterRemembers
      <4>3. QED
        BY <1>1, <2>1, <4>1, <4>2
    <3>2. CASE q.seq # p.seq
      <4>1. ~ Acceptable(filter[q.ctx], q.counter) /\ q \in air
        BY <1>1, <2>1, <2>5, <3>2 DEF LinkInv, PushedIsSpent
      <4>2. CASE q.ctx = p.ctx
        BY <1>1, <2>1, <4>1, <4>2, FilterRemembers
      <4>3. CASE q.ctx # p.ctx
        BY <1>1, <2>1, <4>1, <4>3
      <4>4. QED
        BY <4>2, <4>3
    <3>3. QED
      BY <3>1, <3>2
  <2>6. QED
    BY <1>2, <2>3, <2>4, <2>5 DEF LinkInv, PushedIsSpent
<1>6. QED
  BY <1>4, <1>5

\* PushedOnce: the handler of AUDIO puts no frame into the jitter buffer twice.
THEOREM PushedOnceCorrect == Spec => []PushedOnce
<1>1. Init => LinkInv
  BY DEF Init, LinkInv, OnePacketPerFrame, PushedIsSpent, PushedOnce
<1>2. TypeOK /\ LinkInv /\ [Next]_vars => LinkInv'
  <2> SUFFICES ASSUME TypeOK, LinkInv, [Next]_vars PROVE LinkInv'
    OBVIOUS
  <2>1. ASSUME NEW n \in Nodes,
               \/ OfferKey(n) \/ RecvKeyExchange(n) \/ RefuseKeyExchange(n)
               \/ LoseKeyExchange(n) \/ RecvPeerList(n)
        PROVE  LinkInv'
    BY <2>1, QuietSteps DEF OfferKey, RecvKeyExchange, RefuseKeyExchange,
                            LoseKeyExchange, RecvPeerList, link, ears
  <2>2. ASSUME NEW p \in air, RecvAudio(p) PROVE LinkInv'
    BY <2>2, RecvKeepsLinkInv
  <2>3. ASSUME NEW p \in air, LoseAudio(p) PROVE LinkInv'
    <3>1. air' \subseteq air /\ UNCHANGED <<next_seq, filter, pushed>>
      BY <2>3 DEF LoseAudio, ears
    <3>2. QED
      BY <3>1 DEF LinkInv, OnePacketPerFrame, PushedIsSpent, PushedOnce
  <2>4. CASE SendAudio
    BY <2>4, SendKeepsLinkInv
  <2>5. CASE SendOther \/ RecvPeerListAgain \/ RecvHelloAck
    BY <2>5, QuietSteps DEF SendOther, RecvPeerListAgain, RecvHelloAck, link, ears
  <2>6. CASE UNCHANGED vars
    BY <2>6, QuietSteps DEF vars
  <2>7. QED
    BY <2>1, <2>2, <2>3, <2>4, <2>5, <2>6 DEF Next
<1>3. LinkInv => PushedOnce
  BY DEF LinkInv
<1>4. QED
  BY <1>1, <1>2, <1>3, TypeCorrect, PTL DEF Spec
-----------------------------------------------------------------------------
\* A's key reached B or is on its way, unless a KEY_EXCHANGE was lost or B was
\* not a member when it came.
KeyOnTheWay ==
    kx_sent["A"] => \/ kx_received["B"] \/ kx["B"]
                    \/ used.lost > 0 \/ refused["B"]

\* UpgradeSafe: A never seals audio with a key that B will not get, whoever
\* begins and however often keys arrive, but for the two known causes: a
\* KEY_EXCHANGE was lost, or B dropped one that overtook its PEER_LIST.
THEOREM UpgradeSafeCorrect == Spec => []UpgradeSafe
<1>1. Init => KeyOnTheWay
  BY DEF Init, KeyOnTheWay, Nodes
<1>2. TypeOK /\ KeyOnTheWay /\ [Next]_vars => KeyOnTheWay'
  <2> SUFFICES ASSUME TypeOK, KeyOnTheWay, [Next]_vars PROVE KeyOnTheWay'
    OBVIOUS
  <2>0. Other("A") = "B" /\ Other("B") = "A"
    BY DEF Other, Nodes
  <2>1. ASSUME NEW n \in Nodes, OfferKey(n) PROVE KeyOnTheWay'
    BY <2>0, <2>1 DEF OfferKey, KeyOnTheWay, TypeOK, Nodes
  <2>2. ASSUME NEW n \in Nodes, RecvKeyExchange(n) PROVE KeyOnTheWay'
    <3>1. CASE n = "A"
      BY <2>0, <2>2, <3>1 DEF RecvKeyExchange, KeyOnTheWay, TypeOK, Nodes
    <3>2. CASE n = "B"
      BY <2>2, <3>2 DEF RecvKeyExchange, KeyOnTheWay, TypeOK, Nodes
    <3>3. QED
      BY <3>1, <3>2 DEF Nodes
  <2>3. ASSUME NEW n \in Nodes, LoseKeyExchange(n) PROVE KeyOnTheWay'
    <3>1. used.lost \in Nat /\ used'.lost = used.lost + 1
      BY <2>3 DEF LoseKeyExchange, TypeOK
    <3>2. QED
      BY <3>1 DEF KeyOnTheWay
  <2>4. ASSUME NEW p \in air, RecvAudio(p) \/ LoseAudio(p) PROVE KeyOnTheWay'
    BY <2>4 DEF RecvAudio, LoseAudio, keys, KeyOnTheWay
  <2>5. CASE SendAudio \/ SendOther \/ RecvPeerListAgain \/ RecvHelloAck
    BY <2>5 DEF SendAudio, SendOther, RecvPeerListAgain, RecvHelloAck, keys,
                KeyOnTheWay, TypeOK
  <2>6. ASSUME NEW n \in Nodes, RefuseKeyExchange(n) PROVE KeyOnTheWay'
    <3>1. /\ UNCHANGED <<kx_sent, kx_received>> /\ used'.lost = used.lost
          /\ refused' = [refused EXCEPT ![n] = TRUE]
          /\ n # "B" => kx'["B"] = kx["B"]
      BY <2>6 DEF RefuseKeyExchange, TypeOK, Nodes
    <3>2. refused'["B"] = (refused["B"] \/ n = "B")
      BY <3>1 DEF TypeOK, Nodes
    <3>3. QED
      BY <3>1, <3>2 DEF KeyOnTheWay
  <2>7. ASSUME NEW n \in Nodes, RecvPeerList(n) PROVE KeyOnTheWay'
    BY <2>7 DEF RecvPeerList, KeyOnTheWay
  <2>8. CASE UNCHANGED vars
    BY <2>8 DEF vars, KeyOnTheWay
  <2>9. QED
    BY <2>1, <2>2, <2>3, <2>4, <2>5, <2>6, <2>7, <2>8 DEF Next
<1>3. KeyOnTheWay => UpgradeSafe
  BY DEF KeyOnTheWay, UpgradeSafe, UsesPeerKey
<1>4. QED
  BY <1>1, <1>2, <1>3, TypeCorrect, PTL DEF Spec
-----------------------------------------------------------------------------
(* Until a KEY_EXCHANGE or PEER_LIST is repeated *)

Clean == used.dups = 0 /\ used.relists = 0

\* A makes one context from B's one KEY_EXCHANGE, and has offered its own key.
KeyInv ==
    used.dups = 0 =>
        /\ kx["A"] => kx_sent["B"]
        /\ kx_received["A"] => kx_sent["A"] /\ kx_sent["B"] /\ ~ kx["A"]

\* Frame i went out as number num[i] of context kind[i].  Under the passphrase
\* the numbers run ahead of the frames by the other packets; under the peer's
\* key they lag behind by the frames sent before the upgrade.
Numbering(num, kind, base) ==
    /\ \A p \in air : /\ p.seq < next_seq
                      /\ p.counter = num[p.seq] /\ p.ctx = kind[p.seq]
    /\ \A i \in Frames : i < next_seq /\ kind[i] = "psk" =>
            i <= num[i] /\ num[i] <= i + used.other /\ num[i] < send_counter["psk"]
    /\ \A i, j \in Frames :
            i < j /\ j < next_seq /\ kind[i] = "psk" /\ kind[j] = "psk" => num[i] < num[j]
    /\ \A i \in Frames : i < next_seq /\ kind[i] = "pfs" => num[i] + base = i
    /\ UsesPeerKey("A") => send_counter["pfs"] + base = next_seq
    /\ ~ UsesPeerKey("A") =>
            /\ send_counter["psk"] = next_seq + used.other
            /\ \A i \in Frames : i < next_seq => kind[i] = "psk"

\* Number n of context c was a frame that B has got.
Got(num, kind, c, n) ==
    \E j \in Frames : j < next_seq /\ pushed[j] > 0 /\ kind[j] = c /\ num[j] = n

\* The filters remember nothing but what B has got.
Memory(num, kind) ==
    \A c \in Contexts :
        /\ filter[c] = NewFilter \/ Got(num, kind, c, filter[c].highest)
        /\ \A b \in filter[c].bitmap : Got(num, kind, c, filter[c].highest - b)

Numbered ==
    \E num \in [Frames -> Nat], kind \in [Frames -> Contexts], base \in Nat :
        Numbering(num, kind, base) /\ Memory(num, kind)

\* The inductive invariant: what A has sent is numbered, as long as it is clean.
FreshInv == used.other <= MaxOther /\ KeyInv /\ (Clean => Numbered)

LEMMA StepKeys == TypeOK /\ KeyInv /\ [Next]_vars => KeyInv'
<1> SUFFICES ASSUME TypeOK, KeyInv, [Next]_vars PROVE KeyInv'
  OBVIOUS
<1>0. Other("A") = "B" /\ Other("B") = "A"
  BY DEF Other, Nodes
<1>1. ASSUME NEW n \in Nodes, OfferKey(n) PROVE KeyInv'
  BY <1>0, <1>1 DEF OfferKey, KeyInv, TypeOK, Nodes
<1>2. ASSUME NEW n \in Nodes, RecvKeyExchange(n) PROVE KeyInv'
  <2>1. PICK again \in {0, 1} :
          /\ used'.dups = used.dups + again /\ used.dups \in Nat
          /\ kx' = [kx EXCEPT ![n] = again = 1, ![Other(n)] = @ \/ ~ kx_sent[n]]
    BY <1>2 DEF RecvKeyExchange, TypeOK
  <2>2. used'.dups = 0 => used.dups = 0 /\ again = 0
    BY <2>1
  <2>3. CASE n = "A"
    BY <1>0, <1>2, <2>1, <2>2, <2>3 DEF RecvKeyExchange, KeyInv, TypeOK, Nodes
  <2>4. CASE n = "B"
    BY <1>0, <1>2, <2>1, <2>2, <2>4 DEF RecvKeyExchange, KeyInv, TypeOK, Nodes
  <2>5. QED
    BY <2>3, <2>4 DEF Nodes
<1>3. ASSUME NEW n \in Nodes, LoseKeyExchange(n) PROVE KeyInv'
  BY <1>3 DEF LoseKeyExchange, KeyInv, TypeOK, Nodes
<1>4. ASSUME NEW p \in air, RecvAudio(p) \/ LoseAudio(p) PROVE KeyInv'
  BY <1>4 DEF RecvAudio, LoseAudio, keys, KeyInv
<1>5. CASE SendAudio \/ SendOther \/ RecvPeerListAgain \/ RecvHelloAck
  BY <1>5 DEF SendAudio, SendOther, RecvPeerListAgain, RecvHelloAck, keys, KeyInv, TypeOK
<1>6. ASSUME NEW n \in Nodes, RefuseKeyExchange(n) PROVE KeyInv'
  <2>1. PICK again \in {0, 1} :
          /\ used'.dups = used.dups + again /\ used.dups \in Nat
          /\ kx' = [kx EXCEPT ![n] = again = 1]
    BY <1>6 DEF RefuseKeyExchange, TypeOK
  <2>2. used'.dups = 0 => used.dups = 0 /\ again = 0
    BY <2>1
  <2>3. used'.dups = 0 => (kx'["A"] => kx["A"])
    BY <2>1, <2>2 DEF TypeOK, Nodes
  <2>4. UNCHANGED <<kx_sent, kx_received>>
    BY <1>6 DEF RefuseKeyExchange
  <2>5. QED
    BY <2>2, <2>3, <2>4 DEF KeyInv
<1>7. ASSUME NEW n \in Nodes, RecvPeerList(n) PROVE KeyInv'
  BY <1>7 DEF RecvPeerList, KeyInv
<1>8. CASE UNCHANGED vars
  BY <1>8 DEF vars, KeyInv
<1>9. QED
  BY <1>1, <1>2, <1>3, <1>4, <1>5, <1>6, <1>7, <1>8 DEF Next

\* The numbers stay when nothing is sent or received and A uses the same key.
LEMMA NumbersStay ==
    ASSUME Numbered, air' \subseteq air, used'.other = used.other,
           UNCHANGED <<next_seq, send_counter, filter, pushed>>,
           UsesPeerKey("A")' <=> UsesPeerKey("A")
    PROVE  Numbered'
<1>1. PICK num \in [Frames -> Nat], kind \in [Frames -> Contexts], base \in Nat :
        Numbering(num, kind, base) /\ Memory(num, kind)
  BY DEF Numbered
<1>2. Numbering(num, kind, base)'
  BY <1>1 DEF Numbering
<1>3. Memory(num, kind)'
  BY <1>1 DEF Memory, Got
<1>4. QED
  BY <1>2, <1>3 DEF Numbered

\* The upgrade: the frames before it are the ones under the passphrase.
LEMMA UpgradeNumbers ==
    ASSUME TypeOK, Numbered, ~ UsesPeerKey("A"), UsesPeerKey("A")',
           send_counter' = [send_counter EXCEPT !["pfs"] = 0], used'.other = used.other,
           UNCHANGED <<air, next_seq, filter, pushed>>
    PROVE  Numbered'
<1>1. PICK num \in [Frames -> Nat], kind \in [Frames -> Contexts], base \in Nat :
        Numbering(num, kind, base) /\ Memory(num, kind)
  BY DEF Numbered
<1>2. PICK b \in Nat : b = next_seq
  BY DEF TypeOK
<1>3. send_counter'["pfs"] + b = next_seq' /\ send_counter'["psk"] = send_counter["psk"]
  BY <1>2 DEF TypeOK, Contexts
<1>4. \A i \in Frames : i < next_seq => kind[i] = "psk"
  BY <1>1 DEF Numbering
<1>5. Numbering(num, kind, b)'
  BY <1>1, <1>3, <1>4 DEF Numbering
<1>6. Memory(num, kind)'
  BY <1>1 DEF Memory, Got
<1>7. QED
  BY <1>5, <1>6 DEF Numbered

LEMMA SendOtherNumbers ==
    ASSUME TypeOK, Numbered, SendOther
    PROVE  Numbered'
<1>1. PICK num \in [Frames -> Nat], kind \in [Frames -> Contexts], base \in Nat :
        Numbering(num, kind, base) /\ Memory(num, kind)
  BY DEF Numbered
<1>2. PICK o \in Nat, m \in Nat : o = used.other /\ m = send_counter["psk"]
  BY DEF TypeOK, Contexts
<1>3. /\ used'.other = o + 1 /\ send_counter'["psk"] = m + 1
      /\ send_counter'["pfs"] = send_counter["pfs"]
      /\ UNCHANGED <<air, next_seq, filter, pushed, kx_sent, kx_received>>
  BY <1>2 DEF SendOther, TypeOK, Contexts, link, ears, keys
<1>4. next_seq \in Nat /\ \A i \in Frames : i \in Nat /\ num[i] \in Nat
  BY DEF TypeOK, Frames
<1>5. \A i \in Frames : i < next_seq /\ kind[i] = "psk" =>
        i <= num[i] /\ num[i] <= i + (o + 1) /\ num[i] < m + 1
  <2>1. \A i \in Frames : i < next_seq /\ kind[i] = "psk" =>
            i <= num[i] /\ num[i] <= i + o /\ num[i] < m
    BY <1>1, <1>2 DEF Numbering
  <2>2. QED
    BY <1>4, <2>1
<1>6. ~ UsesPeerKey("A") => m + 1 = next_seq + (o + 1)
  <2>1. ~ UsesPeerKey("A") => m = next_seq + o
    BY <1>1, <1>2 DEF Numbering
  <2>2. QED
    BY <1>4, <2>1
<1>7. UsesPeerKey("A")' <=> UsesPeerKey("A")
  BY <1>3 DEF UsesPeerKey
<1>8. Numbering(num, kind, base)'
  BY <1>1, <1>3, <1>5, <1>6, <1>7 DEF Numbering
<1>9. Memory(num, kind)'
  BY <1>1, <1>3 DEF Memory, Got
<1>10. QED
  BY <1>8, <1>9 DEF Numbered

\* The next frame gets the next number of the context in use.
LEMMA SendNumbers ==
    ASSUME TypeOK, Numbered, SendAudio
    PROVE  Numbered'
<1>1. PICK num \in [Frames -> Nat], kind \in [Frames -> Contexts], base \in Nat :
        Numbering(num, kind, base) /\ Memory(num, kind)
  BY DEF Numbered
<1>2. PICK ctx \in Contexts : ctx = IF UsesPeerKey("A") THEN "pfs" ELSE "psk"
  BY DEF Contexts
<1>3. PICK n \in Nat, k \in Nat, o \in Nat :
        n = next_seq /\ k = send_counter[ctx] /\ o = used.other
  BY DEF TypeOK
<1>4. /\ n \in Frames /\ n \in Nat /\ \A i \in Frames : i \in Nat /\ num[i] \in Nat
  BY <1>3 DEF SendAudio, TypeOK, Frames
<1>5. /\ air' = air \cup {[ctx |-> ctx, seq |-> n, counter |-> k]}
      /\ next_seq' = n + 1 /\ send_counter' = [send_counter EXCEPT ![ctx] = k + 1]
      /\ UNCHANGED <<kx_sent, kx_received, filter, pushed, used>>
  BY <1>2, <1>3 DEF SendAudio, ears, keys
<1>6. PICK num1 \in [Frames -> Nat], kind1 \in [Frames -> Contexts] :
        /\ num1 = [num EXCEPT ![n] = k] /\ kind1 = [kind EXCEPT ![n] = ctx]
  OBVIOUS
<1>7. /\ num1[n] = k /\ kind1[n] = ctx
      /\ \A i \in Frames : i < n => num1[i] = num[i] /\ kind1[i] = kind[i]
  BY <1>4, <1>6
<1>8. \A i \in Frames : i < n + 1 <=> (i < n \/ i = n)
  BY <1>4
<1>9. UsesPeerKey("A")' <=> UsesPeerKey("A")
  BY <1>5 DEF UsesPeerKey
<1>10. \A p \in air' : /\ p.seq < n + 1
                       /\ p.counter = num1[p.seq] /\ p.ctx = kind1[p.seq]
  <2>1. \A p \in air : /\ p.seq \in Frames /\ p.seq < n
                       /\ p.counter = num[p.seq] /\ p.ctx = kind[p.seq]
    BY <1>1, <1>3 DEF Numbering, TypeOK, Packets
  <2>2. ASSUME NEW p \in air
        PROVE  p.seq < n + 1 /\ p.counter = num1[p.seq] /\ p.ctx = kind1[p.seq]
    BY <1>7, <1>8, <2>1
  <2>3. PICK new : new = [ctx |-> ctx, seq |-> n, counter |-> k]
    OBVIOUS
  <2>4. new.seq < n + 1 /\ new.counter = num1[new.seq] /\ new.ctx = kind1[new.seq]
    BY <1>4, <1>7, <1>8, <2>3
  <2>5. QED
    BY <1>5, <2>2, <2>3, <2>4
<1>11. /\ \A i \in Frames : i < n /\ kind[i] = "psk" =>
                i <= num[i] /\ num[i] <= i + o /\ num[i] < send_counter["psk"]
       /\ \A i, j \in Frames :
                i < j /\ j < n /\ kind[i] = "psk" /\ kind[j] = "psk" => num[i] < num[j]
       /\ \A i \in Frames : i < n /\ kind[i] = "pfs" => num[i] + base = i
  BY <1>1, <1>3 DEF Numbering
<1>12. CASE ~ UsesPeerKey("A")
  <2>1. /\ ctx = "psk" /\ k = n + o /\ send_counter["psk"] = k
        /\ \A i \in Frames : i < n => kind[i] = "psk"
    BY <1>1, <1>2, <1>3, <1>12 DEF Numbering
  <2>2. send_counter'["psk"] = k + 1
    BY <1>5, <2>1 DEF TypeOK, Contexts
  <2>3. \A i \in Frames : i < n + 1 => kind1[i] = "psk"
    BY <1>7, <1>8, <2>1
  <2>4. \A i \in Frames : i < n + 1 =>
            i <= num1[i] /\ num1[i] <= i + o /\ num1[i] < k + 1
    <3>1. \A i \in Frames : i < n => i <= num[i] /\ num[i] <= i + o /\ num[i] < k
      BY <1>11, <2>1
    <3>2. QED
      BY <1>4, <1>7, <1>8, <2>1, <3>1
  <2>5. \A i, j \in Frames : i < j /\ j < n + 1 => num1[i] < num1[j]
    <3>1. \A i \in Frames : i < n => num1[i] < k
      BY <1>7, <1>11, <2>1
    <3>2. \A i, j \in Frames : i < j /\ j < n => i < n /\ num1[i] < num1[j]
      BY <1>4, <1>7, <1>11, <2>1
    <3>3. QED
      BY <1>7, <1>8, <3>1, <3>2
  <2>6. k + 1 = (n + 1) + o
    BY <2>1
  <2>7. Numbering(num1, kind1, base)'
    BY <1>3, <1>5, <1>9, <1>10, <1>12, <2>2, <2>3, <2>4, <2>5, <2>6 DEF Numbering
  <2>8. QED
    <3>1. Memory(num1, kind1)'
      <4>1. ASSUME NEW c \in Contexts, NEW m, Got(num, kind, c, m)
            PROVE  Got(num1, kind1, c, m)'
        BY <1>3, <1>4, <1>5, <1>7, <1>8, <4>1 DEF Got
      <4>2. QED
        BY <1>1, <1>5, <4>1 DEF Memory
    <3>2. QED
      BY <2>7, <3>1 DEF Numbered
<1>13. CASE UsesPeerKey("A")
  <2>1. ctx = "pfs" /\ k + base = n
    BY <1>1, <1>2, <1>3, <1>13 DEF Numbering
  <2>2. send_counter'["pfs"] = k + 1 /\ send_counter'["psk"] = send_counter["psk"]
    BY <1>5, <2>1 DEF TypeOK, Contexts
  <2>3. \A i \in Frames : i < n + 1 /\ kind1[i] = "psk" => i < n /\ kind[i] = "psk"
    BY <1>7, <1>8, <2>1
  <2>4. \A i \in Frames : i < n + 1 /\ kind1[i] = "psk" =>
            i <= num1[i] /\ num1[i] <= i + o /\ num1[i] < send_counter["psk"]
    BY <1>7, <1>11, <2>3
  <2>5. \A i, j \in Frames :
            i < j /\ j < n + 1 /\ kind1[i] = "psk" /\ kind1[j] = "psk" => num1[i] < num1[j]
    <3> SUFFICES ASSUME NEW i \in Frames, NEW j \in Frames, i < j, j < n + 1,
                        kind1[i] = "psk", kind1[j] = "psk"
                 PROVE  num1[i] < num1[j]
      OBVIOUS
    <3>1. j < n /\ kind[j] = "psk"
      BY <2>3
    <3>2. i < n
      BY <1>4, <3>1
    <3>3. QED
      BY <1>7, <1>11, <3>1, <3>2
  <2>6. \A i \in Frames : i < n + 1 /\ kind1[i] = "pfs" => num1[i] + base = i
    BY <1>7, <1>8, <1>11, <2>1
  <2>7. (k + 1) + base = n + 1
    BY <2>1
  <2>8. Numbering(num1, kind1, base)'
    BY <1>3, <1>5, <1>9, <1>10, <1>13, <2>2, <2>4, <2>5, <2>6, <2>7 DEF Numbering
  <2>9. QED
    <3>1. Memory(num1, kind1)'
      <4>1. ASSUME NEW c \in Contexts, NEW m, Got(num, kind, c, m)
            PROVE  Got(num1, kind1, c, m)'
        BY <1>3, <1>4, <1>5, <1>7, <1>8, <4>1 DEF Got
      <4>2. QED
        BY <1>1, <1>5, <4>1 DEF Memory
    <3>2. QED
      BY <2>8, <3>1 DEF Numbered
<1>14. QED
  BY <1>12, <1>13

\* What B lets through is what its filters come to remember.
LEMMA RecvNumbers ==
    ASSUME TypeOK, Numbered, NEW p \in air, RecvAudio(p)
    PROVE  Numbered'
<1>1. PICK num \in [Frames -> Nat], kind \in [Frames -> Contexts], base \in Nat :
        Numbering(num, kind, base) /\ Memory(num, kind)
  BY DEF Numbered
<1>2. /\ air' \subseteq air
      /\ UNCHANGED <<next_seq, send_counter, used, kx_sent, kx_received>>
      /\ p.ctx \in Contexts /\ p.seq \in Frames /\ p.counter \in Nat
      /\ pushed \in [Frames -> Nat] /\ filter \in [Contexts -> Filters]
  BY DEF RecvAudio, TypeOK, Packets, keys
<1>3. Numbering(num, kind, base)'
  BY <1>1, <1>2 DEF Numbering, UsesPeerKey
<1>4. PICK f \in Filters : f = filter[p.ctx]
  BY <1>2
<1>5. /\ filter' = IF Opens(p)
                   THEN [filter EXCEPT ![p.ctx] = CheckAndAccept(f, p.counter)]
                   ELSE filter
      /\ pushed' = IF Opens(p) /\ Acceptable(f, p.counter)
                   THEN [pushed EXCEPT ![p.seq] = @ + 1] ELSE pushed
  BY <1>4 DEF RecvAudio, FilterOf, Heard
<1>6. ASSUME NEW c \in Contexts, NEW m, Got(num, kind, c, m)
      PROVE  Got(num, kind, c, m)'
  <2>1. \A j \in Frames : pushed[j] > 0 => pushed'[j] > 0
    BY <1>2, <1>5
  <2>2. QED
    BY <1>2, <1>6, <2>1 DEF Got
<1>7. CASE ~ (Opens(p) /\ Acceptable(f, p.counter))
  <2>1. filter' = filter
    BY <1>2, <1>4, <1>5, <1>7 DEF CheckAndAccept
  <2>2. Memory(num, kind)'
    BY <1>1, <1>6, <2>1 DEF Memory
  <2>3. QED
    BY <1>3, <2>2 DEF Numbered
<1>8. CASE Opens(p) /\ Acceptable(f, p.counter)
  <2>1. PICK g \in Filters : g = CheckAndAccept(f, p.counter)
    BY <1>2, FilterRemembers
  <2>2. filter'[p.ctx] = g /\ \A c \in Contexts \ {p.ctx} : filter'[c] = filter[c]
    BY <1>2, <1>5, <1>8, <2>1
  <2>3. Got(num, kind, p.ctx, p.counter)'
    <3>1. pushed'[p.seq] > 0
      BY <1>2, <1>5, <1>8
    <3>2. p.seq < next_seq' /\ kind[p.seq] = p.ctx /\ num[p.seq] = p.counter
      BY <1>1, <1>2 DEF Numbering
    <3>3. QED
      BY <1>2, <3>1, <3>2 DEF Got
  <2>4. PICK k \in Nat, h \in Nat, b \in SUBSET Bits :
            k = p.counter /\ h = f.highest /\ b = f.bitmap
    BY <1>2 DEF Filters
  <2>5. \A i \in b : Got(num, kind, p.ctx, h - i)'
    BY <1>1, <1>2, <1>4, <1>6, <2>4 DEF Memory
  <2>6. /\ Got(num, kind, p.ctx, g.highest)'
        /\ \A i \in g.bitmap : Got(num, kind, p.ctx, g.highest - i)'
    <3>1. CASE k > h
      <4>1. g.highest = k /\ g.bitmap = {0} \cup {i \in Bits : i - (k - h) \in b}
        BY <1>8, <2>1, <2>4, <3>1, SlideMeaning DEF CheckAndAccept
      <4>2. ASSUME NEW i \in Bits, i - (k - h) \in b
            PROVE  Got(num, kind, p.ctx, k - i)'
        <5>1. PICK j \in b : j = i - (k - h)
          BY <4>2
        <5>2. h - j = k - i
          BY <5>1 DEF Bits
        <5>3. Got(num, kind, p.ctx, h - j)'
          BY <2>5
        <5>4. QED
          BY <5>2, <5>3
      <4>3. k - 0 = k
        OBVIOUS
      <4>4. QED
        BY <2>3, <2>4, <4>1, <4>2, <4>3
    <3>2. CASE ~ (k > h)
      <4>1. g = [f EXCEPT !.bitmap = @ \cup {h - k}]
        BY <1>8, <2>1, <2>4, <3>2 DEF CheckAndAccept
      <4>2. g.highest = h /\ g.bitmap = b \cup {h - k} /\ h - (h - k) = k
        BY <2>4, <4>1 DEF Filters
      <4>3. Got(num, kind, p.ctx, h)'
        <5>1. CASE f = NewFilter
          BY <2>3, <2>4, <3>2, <5>1 DEF NewFilter
        <5>2. CASE f # NewFilter
          BY <1>1, <1>2, <1>4, <1>6, <2>4, <5>2 DEF Memory
        <5>3. QED
          BY <5>1, <5>2
      <4>4. QED
        BY <2>3, <2>4, <2>5, <4>2, <4>3
    <3>3. QED
      BY <3>1, <3>2
  <2>7. Memory(num, kind)'
    <3>1. ASSUME NEW c \in Contexts
          PROVE  (/\ filter[c] = NewFilter \/ Got(num, kind, c, filter[c].highest)
                  /\ \A i \in filter[c].bitmap :
                        Got(num, kind, c, filter[c].highest - i))'
      <4>1. CASE c = p.ctx
        BY <2>2, <2>6, <4>1
      <4>2. CASE c # p.ctx
        <5>1. PICK e \in Filters : e = filter[c] /\ e = filter'[c]
          BY <1>2, <2>2, <4>2
        <5>2. /\ e = NewFilter \/ Got(num, kind, c, e.highest)'
              /\ \A i \in e.bitmap : Got(num, kind, c, e.highest - i)'
          BY <1>1, <1>6, <5>1 DEF Memory
        <5>3. QED
          BY <5>1, <5>2
      <4>3. QED
        BY <4>1, <4>2
    <3>2. QED
      BY <3>1 DEF Memory
  <2>8. QED
    BY <1>3, <2>7 DEF Numbered
<1>9. QED
  BY <1>7, <1>8

LEMMA StepNumbers ==
    ASSUME TypeOK, FreshInv, [Next]_vars, Clean'
    PROVE  Numbered'
<1>0. Other("A") = "B" /\ Other("B") = "A" /\ used.dups \in Nat /\ used.relists \in Nat
  BY DEF Other, Nodes, TypeOK
<1>1. Clean => Numbered /\ KeyInv
  BY DEF FreshInv
<1>2. ASSUME NEW n \in Nodes, OfferKey(n) PROVE Numbered'
  <2>1. /\ Clean /\ used' = used /\ air' = air
        /\ UNCHANGED <<next_seq, send_counter, filter, pushed>>
    BY <1>2 DEF OfferKey, Clean, link, ears
  <2>2. UsesPeerKey("A")' <=> UsesPeerKey("A")
    BY <1>1, <1>2, <2>1 DEF OfferKey, UsesPeerKey, KeyInv, Clean, TypeOK, Nodes
  <2>3. QED
    BY <1>1, <2>1, <2>2, NumbersStay
<1>3. ASSUME NEW n \in Nodes, RecvKeyExchange(n) PROVE Numbered'
  <2>1. /\ UNCHANGED <<next_seq, air, filter, pushed>>
        /\ kx[n] /\ used'.other = used.other /\ used'.relists = used.relists
    BY <1>3 DEF RecvKeyExchange, link, ears, TypeOK
  <2>2. Clean
    <3>1. PICK again \in {0, 1} : used'.dups = used.dups + again
      BY <1>3 DEF RecvKeyExchange, TypeOK
    <3>2. used'.dups = 0 /\ used'.relists = 0
      BY DEF Clean
    <3>3. used.dups = 0
      BY <1>0, <3>1, <3>2
    <3>4. QED
      BY <2>1, <3>2, <3>3 DEF Clean
  <2>3. CASE n = "A"
    <3>1. ~ UsesPeerKey("A")
      BY <1>1, <2>1, <2>2, <2>3 DEF KeyInv, Clean, UsesPeerKey
    <3>2. UsesPeerKey("A")' /\ send_counter' = [send_counter EXCEPT !["pfs"] = 0]
      BY <1>3, <2>3 DEF RecvKeyExchange, UsesPeerKey, TypeOK, Nodes
    <3>3. QED
      BY <1>1, <2>1, <2>2, <3>1, <3>2, UpgradeNumbers
  <2>4. CASE n = "B"
    <3>1. send_counter' = send_counter /\ (UsesPeerKey("A")' <=> UsesPeerKey("A"))
      BY <1>3, <2>4 DEF RecvKeyExchange, UsesPeerKey, TypeOK, Nodes
    <3>2. QED
      BY <1>1, <2>1, <2>2, <3>1, NumbersStay
  <2>5. QED
    BY <2>3, <2>4 DEF Nodes
<1>4. ASSUME NEW n \in Nodes, LoseKeyExchange(n) \/ RecvPeerList(n) PROVE Numbered'
  <2>1. /\ UNCHANGED <<next_seq, air, send_counter, filter, pushed, kx_sent, kx_received>>
        /\ used'.other = used.other /\ used'.dups = used.dups
        /\ used'.relists = used.relists
    BY <1>4 DEF LoseKeyExchange, RecvPeerList, link, ears, TypeOK
  <2>2. Clean /\ (UsesPeerKey("A")' <=> UsesPeerKey("A"))
    BY <2>1 DEF Clean, UsesPeerKey
  <2>3. QED
    BY <1>1, <2>1, <2>2, NumbersStay
<1>5. ASSUME NEW p \in air, RecvAudio(p) PROVE Numbered'
  <2>1. Clean
    BY <1>5 DEF RecvAudio, Clean
  <2>2. QED
    BY <1>1, <1>5, <2>1, RecvNumbers
<1>6. ASSUME NEW p \in air, LoseAudio(p) PROVE Numbered'
  <2>1. /\ UNCHANGED <<next_seq, send_counter, filter, pushed, kx_sent, kx_received, used>>
        /\ air' \subseteq air
    BY <1>6 DEF LoseAudio, ears, keys
  <2>2. Clean /\ (UsesPeerKey("A")' <=> UsesPeerKey("A"))
    BY <2>1 DEF Clean, UsesPeerKey
  <2>3. QED
    BY <1>1, <2>1, <2>2, NumbersStay
<1>7. CASE SendAudio
  <2>1. Clean
    BY <1>7 DEF SendAudio, Clean
  <2>2. QED
    BY <1>1, <1>7, <2>1, SendNumbers
<1>8. CASE SendOther
  <2>1. Clean
    BY <1>8 DEF SendOther, Clean, TypeOK
  <2>2. QED
    BY <1>1, <1>8, <2>1, SendOtherNumbers
<1>9. CASE RecvPeerListAgain
  <2>1. used'.relists = used.relists + 1
    BY <1>9 DEF RecvPeerListAgain, TypeOK
  <2>2. QED
    BY <1>0, <2>1 DEF Clean
<1>10. CASE RecvHelloAck \/ UNCHANGED vars
  <2>1. /\ UNCHANGED <<next_seq, send_counter, filter, pushed, kx_sent, kx_received, used>>
        /\ air' \subseteq air
    BY <1>10 DEF RecvHelloAck, ears, keys, vars
  <2>2. Clean /\ (UsesPeerKey("A")' <=> UsesPeerKey("A"))
    BY <2>1 DEF Clean, UsesPeerKey
  <2>3. QED
    BY <1>1, <2>1, <2>2, NumbersStay
<1>11. ASSUME NEW n \in Nodes, RefuseKeyExchange(n) PROVE Numbered'
  <2>1. PICK again \in {0, 1} :
          /\ UNCHANGED <<next_seq, air, send_counter, filter, pushed, kx_sent, kx_received>>
          /\ used'.other = used.other /\ used'.dups = used.dups + again
          /\ used'.relists = used.relists
    BY <1>11 DEF RefuseKeyExchange, link, ears, TypeOK
  <2>2. Clean /\ (UsesPeerKey("A")' <=> UsesPeerKey("A"))
    BY <1>0, <2>1 DEF Clean, UsesPeerKey
  <2>3. QED
    BY <1>1, <2>1, <2>2, NumbersStay
<1>12. QED
  BY <1>2, <1>3, <1>4, <1>5, <1>6, <1>7, <1>8, <1>9, <1>10, <1>11 DEF Next

LEMMA InitFresh == Init => FreshInv
<1> SUFFICES ASSUME Init PROVE FreshInv
  OBVIOUS
<1>1. KeyInv /\ used.other <= MaxOther
  BY DEF Init, KeyInv, Nodes
<1>2. PICK num \in [Frames -> Nat], kind \in [Frames -> Contexts], base \in Nat :
        num = [i \in Frames |-> 0] /\ kind = [i \in Frames |-> "psk"] /\ base = 0
  BY DEF Contexts
<1>3. Numbering(num, kind, base)
  <2>1. /\ air = {} /\ next_seq = 0 /\ used.other = 0
        /\ send_counter["psk"] = 0 /\ send_counter["pfs"] = 0
    BY DEF Init, Contexts
  <2>2. \A i \in Frames : ~ (i < 0)
    BY DEF Frames
  <2>3. \A i, j \in Frames : ~ (i < j /\ j < 0)
    BY <2>2
  <2>4. QED
    BY <1>2, <2>1, <2>2, <2>3 DEF Numbering
<1>4. Memory(num, kind)
  BY DEF Init, Memory, NewFilter
<1>5. QED
  BY <1>1, <1>3, <1>4 DEF FreshInv, Numbered

\* A frame that B has not got, and that was not overtaken by a window of
\* packets, passes the filter of its context.
LEMMA FreshAccepted ==
    ASSUME TypeOK, FreshInv, Clean, NEW p \in air, pushed[p.seq] = 0,
           \A i \in Frames : pushed[i] > 0 => i - p.seq < WindowSize - MaxOther
    PROVE  Acceptable(filter[p.ctx], p.counter)
<1>1. PICK num \in [Frames -> Nat], kind \in [Frames -> Contexts], base \in Nat :
        Numbering(num, kind, base) /\ Memory(num, kind)
  BY DEF FreshInv, Numbered
<1>2. PICK c \in Contexts, s \in Frames, k \in Nat :
        c = p.ctx /\ s = p.seq /\ k = p.counter
  BY DEF TypeOK, Packets
<1>3. /\ s < next_seq /\ num[s] = k /\ kind[s] = c /\ pushed[s] = 0
  BY <1>1, <1>2 DEF Numbering
<1>4. PICK h \in Nat, b \in SUBSET Bits : h = filter[c].highest /\ b = filter[c].bitmap
  BY DEF TypeOK, Filters
<1>5. PICK o \in Nat : o = used.other /\ o <= MaxOther
  BY DEF TypeOK, FreshInv
<1>6. next_seq \in Nat /\ \A i \in Frames : i \in Nat /\ num[i] \in Nat
  BY DEF TypeOK, Frames
<1>7. \A i, j \in Frames : i < j /\ j < next_seq /\ kind[i] = kind[j] =>
            num[i] < num[j] /\ num[j] - num[i] <= (j - i) + MaxOther
  <2> SUFFICES ASSUME NEW i \in Frames, NEW j \in Frames, i < j, j < next_seq,
                      kind[i] = kind[j]
               PROVE  num[i] < num[j] /\ num[j] - num[i] <= (j - i) + MaxOther
    OBVIOUS
  <2>1. PICK ni \in Nat, nj \in Nat : ni = num[i] /\ nj = num[j]
    BY <1>6
  <2>2. i \in Nat /\ j \in Nat /\ i < next_seq
    BY <1>6
  <2>3. CASE kind[i] = "psk"
    <3>1. ni < nj /\ i <= ni /\ nj <= j + o
      BY <1>1, <1>5, <2>1, <2>2, <2>3 DEF Numbering
    <3>2. ni < nj /\ nj - ni <= (j - i) + MaxOther
      BY <1>5, <2>2, <3>1
    <3>3. QED
      BY <2>1, <3>2
  <2>4. CASE kind[i] = "pfs"
    <3>1. ni + base = i /\ nj + base = j
      BY <1>1, <2>1, <2>2, <2>4 DEF Numbering
    <3>2. ni < nj /\ nj - ni <= (j - i) + MaxOther
      BY <2>2, <3>1
    <3>3. QED
      BY <2>1, <3>2
  <2>5. QED
    BY <2>3, <2>4 DEF Contexts
<1>8. CASE k > h
  BY <1>2, <1>4, <1>8 DEF Acceptable
<1>9. CASE ~ (k > h) /\ filter[c] = NewFilter
  <2>1. h = 0 /\ b = {} /\ h - k < WindowSize
    BY <1>4, <1>9 DEF NewFilter
  <2>2. QED
    BY <1>2, <1>4, <2>1 DEF Acceptable
<1>10. CASE ~ (k > h) /\ filter[c] # NewFilter
  <2>1. h - k < WindowSize
    <3>1. PICK j \in Frames : j < next_seq /\ pushed[j] > 0 /\ kind[j] = c /\ num[j] = h
      BY <1>1, <1>4, <1>10 DEF Memory, Got
    <3>2. j # s /\ j \in Nat /\ s \in Nat
      BY <1>3, <1>6, <3>1
    <3>3. ~ (j < s)
      BY <1>3, <1>7, <1>10, <3>1
    <3>4. s < j
      BY <3>2, <3>3
    <3>5. h - k <= (j - s) + MaxOther
      BY <1>3, <1>7, <3>1, <3>4
    <3>6. j - s < WindowSize - MaxOther
      BY <1>2, <3>1
    <3>7. QED
      BY <3>2, <3>5, <3>6
  <2>2. h - k \notin b
    <3> SUFFICES ASSUME h - k \in b PROVE FALSE
      OBVIOUS
    <3>1. h - (h - k) = k
      OBVIOUS
    <3>2. PICK j \in Frames : j < next_seq /\ pushed[j] > 0 /\ kind[j] = c /\ num[j] = k
      BY <1>1, <1>4, <3>1 DEF Memory, Got
    <3>3. j # s /\ j \in Nat /\ s \in Nat
      BY <1>3, <1>6, <3>2
    <3>4. ~ (j < s) /\ ~ (s < j)
      BY <1>3, <1>7, <3>2
    <3>5. QED
      BY <3>3, <3>4
  <2>3. QED
    BY <1>2, <1>4, <2>1, <2>2 DEF Acceptable
<1>11. QED
  BY <1>8, <1>9, <1>10

\* FreshHeard: until a KEY_EXCHANGE or PEER_LIST is repeated, the handler of
\* AUDIO turns down no frame that is new and not overtaken by a window of
\* packets, although the counters of the two contexts overlap.
THEOREM FreshHeardCorrect == Spec => FreshHeard
<1> DEFINE Through ==
        \A p \in air :
            /\ used.dups = 0 /\ used.relists = 0
            /\ RecvAudio(p) /\ Opens(p) /\ pushed[p.seq] = 0
            /\ \A i \in Frames : pushed[i] > 0 => i - p.seq < WindowSize - MaxOther
            => pushed'[p.seq] = 1
<1>1. Init => FreshInv
  BY InitFresh
<1>2. TypeOK /\ FreshInv /\ [Next]_vars => FreshInv'
  <2> SUFFICES ASSUME TypeOK, FreshInv, [Next]_vars PROVE FreshInv'
    OBVIOUS
  <2>1. KeyInv'
    BY StepKeys DEF FreshInv
  <2>2. used'.other <= MaxOther
    <3>1. used.other \in Nat /\ used.other <= MaxOther
      BY DEF TypeOK, FreshInv
    <3>2. CASE SendOther
      <4>1. used'.other = used.other + 1 /\ used.other < MaxOther
        BY <3>2 DEF SendOther, TypeOK
      <4>2. QED
        BY <3>1, <4>1
    <3>3. CASE used'.other = used.other
      BY <3>1, <3>3
    <3>4. [Next]_vars => SendOther \/ used'.other = used.other
      BY DEF Next, OfferKey, RecvKeyExchange, RefuseKeyExchange, LoseKeyExchange,
             RecvPeerList, RecvAudio, LoseAudio, SendAudio, RecvPeerListAgain,
             RecvHelloAck, vars, TypeOK
    <3>5. QED
      BY <3>2, <3>3, <3>4
  <2>3. Clean' => Numbered'
    BY StepNumbers
  <2>4. QED
    BY <2>1, <2>2, <2>3 DEF FreshInv
<1>3. TypeOK /\ FreshInv /\ [Next]_vars => [Through]_vars
  <2> SUFFICES ASSUME TypeOK, FreshInv, NEW p \in air, used.dups = 0, used.relists = 0,
                      RecvAudio(p), Opens(p), pushed[p.seq] = 0,
                      \A i \in Frames : pushed[i] > 0
                            => i - p.seq < WindowSize - MaxOther
               PROVE  pushed'[p.seq] = 1
    OBVIOUS
  <2>1. Acceptable(filter[p.ctx], p.counter)
    BY FreshAccepted DEF Clean
  <2>2. p.seq \in Frames /\ pushed \in [Frames -> Nat]
    BY DEF TypeOK, Packets
  <2>3. pushed' = [pushed EXCEPT ![p.seq] = @ + 1]
    BY <2>1 DEF RecvAudio, Heard, FilterOf
  <2>4. QED
    BY <2>2, <2>3
<1>4. QED
  BY <1>1, <1>2, <1>3, TypeCorrect, PTL DEF Spec, FreshHeard
=============================================================================
