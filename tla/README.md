# A TLA+ development for VoiceChat

VoiceChat is a peer-to-peer voice chat in Rust: a library (`vc-core`), a command
line program (`vc-cli`) and a desktop application (`vc-tray`). This directory
holds TLA+ models of the parts of it that keep state and talk to each other, the
TLC configurations that check them on small instances, and proofs, checked by
TLAPS, of the results that should hold for every instance.

`PROJECT.json` lists the components, the runs, the mutants that show that each
property can fail, the source lines behind each definition, the findings, the
hazards and the theorems.

## The system

| Component | State | Operations | Made correct by |
|---|---|---|---|
| Replay filter (`crypto.rs`) | highest counter, 64-bit bitmap | `check_and_accept` | accepts a counter at most once; turns nothing fresh down inside the window |
| Crypto context (`crypto.rs`) | key, session id, send counter | `next_counter`, `encrypt`, `decrypt` | the counter only grows and stops at its limit |
| Peer table (`peer.rs`) | peers by id, ids by address, own id, next id | `add_peer`, `set_identity`, `allocate_peer_id`, `check_timeouts`, `build_peer_list`, ... | the two maps agree, the table fits, ids are fresh |
| Session control plane (`lib.rs`, packets in `net.rs`) | peer table, context, timers | handlers of nine packet types, keepalive and ping sections of the loop | unique ids, right addresses, connections and keys that both ends agree on |
| Key exchange (`key_exchange.rs`) | own key pair | `derive_peer_key` | both ends derive the same key |
| Audio path (`lib.rs`) | per peer: sequence number, two contexts, two replay filters | send section, handler of AUDIO | nothing is heard twice, nothing fresh is dropped, across the key upgrade |
| Jitter buffer (`jitter.rs`) | frames, next number to play, target depth, statistics | `push`, `pop`, `adapt` | order, bound, no lasting gaps |
| Latency tracker (`latency.rs`) | pending pings, averages | `ping_sent`, `pong_received` | the table of pings stays bounded, each ping counts once, what is shown is consistent and a round trip |
| Capture pipeline (`audio.rs`, `dsp.rs`, `vad.rs`, `input.rs`, `lib.rs`) | rings, noise suppressor blocks, voice hold time, gate, shared controls | device callbacks, the capture section, clicks, `run_loopback` | no sample twice, unseen or out of order; the gate follows the controls |
| Codec, mixer, UPnP | none, or a library's | - | - |
| Desktop application (`vc-tray`) | screen, one flag per session | start, disconnect, draw | a session ends when it is left, and the screen shows what runs |
| Command line program (`vc-cli`) | two flags | commands, Ctrl+C, push-to-talk | Ctrl+C ends what it can end; the listener stops |

**How they interact.** `Session::run` is one thread with one loop: it takes a
packet from its socket (or waits a millisecond), sends captured audio, plays,
and runs the sections whose timers are due. Nodes interact by UDP packets only;
all of them are sealed with a key derived from a common passphrase, with a nonce
that contains the session id. A joiner sends JOIN once; the host gives it an id
and answers with PEER_LIST; the joiner takes the session id and the greatest id
in the list, and sends HELLO once to everybody else; HELLO is answered with
HELLO_ACK. KEEPALIVE, PING and PONG renew `last_seen`; KEY_EXCHANGE carries the
public key of a per-peer key that then replaces the passphrase key for audio.
The applications share one atomic flag per session with its thread, and the
controls of a session (`SessionShared`) with its loop; audio devices call back on
threads of their own and share a ring with the loop.

**What is hard.** Nothing in the handshake is repeated, so every loss and every
reordering of a single packet matters; a repeated JOIN, PEER_LIST or
KEY_EXCHANGE is handled like the first; restarts leave packets and table entries
of earlier runs behind; counters, sequence numbers and windows have edges; the
jitter buffer adds up losses; flags are written by two threads, controls are read
one by one while the user changes them, and rings have ends.
`PROJECT.json` has the list, each hazard at its line.

## The modules

| Module | Models | State and actions |
|---|---|---|
| `ReplayFilter` | `struct ReplayFilter` | operators on `[highest, bitmap]`; the bitmap is the set of the bits that are set, `ShiftLeft` reduces its amount modulo the width as the machine does |
| `ReplayFilterSpec` | a receiver with one filter | `Receive(c)`: any counter at any time |
| `ReplayWindow` | what the filter promises, without a bitmap | abstract specification; `ReplayFilterSpec` implements it (`ImplementsWindow`) |
| `PeerManager` | `PeerManager`, `RemotePeer` | operators on a record with the fields of the struct; HashMaps are functions |
| `PeerManagerSpec` | one table under any calls | one action per operation |
| `Mesh` | `Session::run` and `handle_incoming`, control packets | one table, send counter and list of peers yet to greet per node, the packets in flight, counts of restarts, losses and duplicates; one action per handler and per timer section, start and stop of nodes, loss, duplication, time |
| `AudioLink` | send section, handlers of AUDIO and KEY_EXCHANGE, and what PEER_LIST does to them | flags `kx_sent`, `kx_received`, which of the two is a member yet, two send counters, two filters, packets in flight |
| `JitterBuffer` | `JitterBuffer` | operators on a record with the fields of the struct |
| `JitterStream` | a stream through the network and the buffer | send, deliver, drop, playout, adapt |
| `JitterClock` | the same in lockstep with the frame clock | one arrival or loss and one playout per period |
| `LatencyTracker` | `LatencyTracker` | operators on a record; the HashMap of pending pings is a function, what it evicts is any entry |
| `LatencyLink` | ping section, handlers of PING and PONG | one tracker per entry for a peer of which several JOINs may be handled, the id the peer has, all packets ever sent; pings, answers, JOIN, PEER_LIST, timeout, HELLO, clock |
| `CapturePipeline` | device callbacks, capture section, suppressor, detector, gate, controls; `run_loopback` | samples are numbers; rings, accumulators and suppressor block are sequences of them; the loop is at one of four places |
| `SessionThread` | the life of `Session::run` | one flag and one stage per session thread |
| `TrayApp` | `VoiceChatApp` over `SessionThread` | UI actions, the closure around `run` |
| `CliApp` | `vc-cli` over `SessionThread` | commands, Ctrl+C, push-to-talk listener, `run_loopback` |
| `Apps` | both applications, one per behaviour | their fairness and properties |
| `MC...` | - | symmetry for TLC; the `.cfg` files give the constants |
| `...Proofs` | - | lemmas and theorems |

Abstractions worth knowing:

- *Sealing.* All nodes have the passphrase, so a packet opens exactly when the
  receiver uses the session id it was sealed with (`Opens`). Keys are records of
  what goes into them (`DerivePeerKey`).
- *Packets of the control plane* carry no counter: none of them passes a replay
  filter, so the counter has no effect on the receiver. The set of packets in
  flight merges equal packets.
- *Time.* `stale` says that `last_seen` is more than ten seconds ago. Timer
  sections may run at any time, in any order; the code's order of sections and
  its intervals are one such schedule.
- *Atomicity.* A handler runs to its end before the loop goes on. The handler of
  PEER_LIST sends several packets and can stop between them; it is split at its
  sends (`RecvPeerList`, `GreetPeer`, `GreetFails`).
- *Addresses.* A node keeps its address over a restart. The host is reached at
  one address and lists another (`HostLan`), as behind a NAT.
- *Audio* is the index of a frame; sequence numbers are the index modulo
  `SeqCount` (2^16 in the code).
- *A silence of audio only* is assumed to be shorter than half the numbers
  (`JitterStream!WithinHalf`, a guard of `Send` that the code does not have). The
  sender can get 32768 frames (82 seconds of speech) ahead of the frame that is due
  only if all its audio is lost for so long while KEEPALIVE and PING, which are
  enough to keep a peer Connected, get through. Frames that arrive after that look
  late and are dropped until the numbers have come round. All properties of
  `JitterStream` rest on this assumption.
- *The key exchange* is between two nodes of which one may be a joiner whose first
  PEER_LIST is under way (`member`). From then on the entry that B has for A counts as
  Connected, so B may offer its key a little earlier than in the code.
- *Samples* are numbered at the device; denoising is the identity on numbers, since
  no property looks at values. Whether a chunk is loud and whether a block sounds
  like voice are inputs.
- *Round trips* are differences of a clock that stands still or ticks between any
  two steps. The averages are computed with integers: in the code they are `f64`
  truncated to `u64`, which is the same below 2^50 microseconds.
- *Flags of the applications* are sequentially consistent: each is a single
  atomic and no other data is published through it.

## The runs

Passing runs:

| Run | Bounds | Shows |
|---|---|---|
| `replay_filter` | window 4, counters 0..10 | at most once; the bitmap is the memory of the window; refinement of `ReplayWindow`. Counters reach over two windows, so shifts below, at and above the width happen from every filter |
| `peer_manager` | 4 ids, 2 addresses | maps agree, table fits, ids fresh. Three peers fill the table and have to share addresses |
| `mesh_network` | 2 joiners, 3 ids; 2 losses, or one loss and one duplicate, or one restart | unique ids, right addresses; until a restart or a duplicate, connections are known at the other end and keys agree. With the restart the host runs out of ids |
| `mesh_timers` | 1 joiner, 1 counter, time passes at the host, one restart or one loss | types with all timers and counters at their limit; the host's entry for an earlier run of a joiner is renewed by nothing but the handling of a HELLO, HELLO_ACK or PONG with the old id, and when no node, packet or list has that id any more, none gets it again |
| `mesh_live` | 2 joiners, no faults, no counters | every joiner gets connected with the host; greetings connect |
| `jitter_stream` | 12 numbers, 14 frames, depth 2, 2 in flight | sorted, bounded, in order, nothing skipped, across the wrap and with a full buffer |
| `audio_link` | window 4, 4 frames, 1 other packet, one repeat and one loss of KEY_EXCHANGE, one repeat of PEER_LIST, both members at the start or one of them not | no frame twice; a sender uses a key the receiver does not get only if a KEY_EXCHANGE was lost or the receiver, not yet a member, dropped it; unless a counter was reset nothing fresh is turned down |
| `apps` | 3 sessions | sessions end when told to, only one left before it began can run on unseen, the UI notices ends, Ctrl+C ends the loopback test, the listener stops. Three sessions are enough for one that is left in its setup, one that still runs and a new one |
| `latency` | 2 pending pings, 3 pings per entry, 7 packets, 2 JOINs, 1 tick of length 9 | bounded, once, consistent, newest kept, true round trips. Three pings overfill the table; a tick of 9 makes the truncation of the eighths visible; the second JOIN has both entries count from 0, before and after the peer learns of it |
| `capture` | frames of 2, blocks of 2 frames, rings of 5, callbacks of 3, 12 samples, 3 clicks, hold time 1 | every sample accounted for, in order, gate as the controls say. Callbacks are no multiple of frames and rings no multiple of callbacks, so every cut happens; 12 samples are three blocks, and three clicks switch a control off and on and change another |

The mesh runs divide the bounds among them because together they are out of
reach: losses, duplicates, restarts and timeouts are each combined with every
interleaving of two joiners (one, where time passes). `MaxFaults` bounds them
together; a restart, which multiplies the states most, counts for two. Two
joiners are the least number for which joiner-to-joiner packets exist; more of
them repeat the same pairs. With `CounterMax = 0` a node has no counters left for
KEEPALIVE and PING, which then neither go out nor change a table; their effect is
in `mesh_timers`. `JoinerSymmetry` is used in the safety run only.

`ConnectedMeansKnown` and `KeyAgreement` speak of the time before the first
restart and the first duplicate, and they need that: afterwards a node has another
key pair and another id, while old entries stay in the tables of the others. In
the same way `FreshHeard` speaks of the time before a repeated packet resets a
counter, `RoundTripIsTrue` of the time before a second JOIN of the peer is handled,
and `InOrder` of the time before a frame passes by a block that suppression was
collecting. `UpgradeSafe` names the two ways in which a sender gets to use a key the
receiver never gets, a loss and a KEY_EXCHANGE that overtakes the PEER_LIST; both
happen, and the property says that there are no others. `OldIdFades` does not say
that the later run of a joiner leaves the earlier entry alone, which is not true: if
the PEER_LIST for the earlier run reaches the later one, that run takes the old id
and its HELLO and PONGs renew the old entry. Each of these fails when its condition
is taken away.

Deadlock is checked everywhere but in `AudioLink` (the network runs dry when the
frames are sent), `CapturePipeline` and `Apps` (they stop when they are told to).

**Fairness.** `Mesh!FairSpec` assumes weak fairness of receiving, of finishing a
handler and of the ping section, for each node: the loop polls socket and timers
in every turn, and the socket has a read timeout of a millisecond. Joiners are
assumed to be started. `JitterClock` assumes that the clock goes on.
`Apps!FairSpec` assumes that threads are scheduled and that the connected screen is
redrawn (it asks for it every 250 ms); nothing is assumed of the user, nor that
anybody types a line.

Runs that refute what a document or comment says (the findings in `PROJECT.json`
quote the lines):

| Run | The code |
|---|---|
| `claim_full_mesh` | a HELLO that overtakes the receiver's PEER_LIST is lost for good |
| `claim_playout_recovers` | after `2 * MAX_DEPTH` frames lost at an empty buffer (4 in the run, where `MaxDepth` is 2) there are gaps for ever; with one loss less `PlayoutRecovers` holds |

Further observations made while modelling, which have no run of their own:

- *Handshake.* A KEY_EXCHANGE that overtakes the PEER_LIST is dropped like such a
  HELLO. The host has a joiner Connected as soon as its JOIN arrives, before
  anything went the other way. A repeated JOIN makes a joiner enter its first id as
  a peer at its own address. A joiner that restarts and gets the PEER_LIST of its
  earlier run goes on under the old id, until the later list arrives. Ids are never
  given back, so reconnecting uses up the session (`FreshIds` says that the end is an
  error and not an id in use). A peer that timed out stays Disconnected although it is heard again.
- *Keys.* When a KEY_EXCHANGE is lost or overtakes the PEER_LIST, `kx_sent` keeps it
  from being sent again, and its sender may go over to a key the other end never gets
  (`UpgradeSafe`). A repeated PEER_LIST or KEY_EXCHANGE sets a send counter
  back to 0 while the receiver's replay filter stays.
- *Jitter.* The target depth of the jitter buffer has no effect once playout began.
- *Latency.* `ping_sent` evicts whichever ping the HashMap yields first, not the
  oldest. A peer that joined again answers the pings of its old entry under its new
  id, so a PONG can be taken for the answer to another ping.
- *Capture.* A part of a block that is held back when suppression is switched off is
  sent, out of order, when it is switched on again. The gate decides when a block
  comes out of the suppressor, so releasing push-to-talk also cuts what was said
  before the release. The TX indicator changes only when a chunk is handled.
- *Applications.* If the connected screen is drawn before the new thread has raised
  its flag, the UI drops the session, which then runs on with nothing to stop it
  (`OrphansWereLeftEarly` says that it is the only such case).
  Ctrl+C in `host` and `join` lowers a flag that the session does not look at; before
  `run_loopback` has begun it is forgotten. At the end of its input the push-to-talk
  listener toggles in a busy loop.

## The proofs

All constants are arbitrary, up to the named assumptions of the modules. Most only
say that a bound is a natural number or that a capacity is not zero
(`WindowAssumption`, `MaxCounterAssumption`, `MaxPeersAssumption`,
`IsHostAssumption`, `CaptureAssumption`, `LatencyAssumption`,
`MaxSessionsAssumption`, and `LinkAssumption` in `AudioLink` and in `LatencyLink`).
Two say more. `MeshAssumption`: the host is not a joiner and its LAN address is not
the address of a node. `JitterAssumption` and `StreamAssumption`: four times the
greatest depth and twice the replay window are less than the number of sequence
numbers, which the code meets with 64 counters and 2^16 numbers.

Every invariant and every action property that a passing run checks is stated by a
theorem.

- **Replay filter** (`ReplayFilterProofs`). `AtMostOnce`
  is not inductive, since it does not mention the bitmap. `BitmapRecordsWindow`
  is: bit `i` is set exactly when `highest - i` was accepted, and nothing above
  `highest` was. `AcceptMeaning` says what the two accepting branches of
  `check_and_accept` do to the bits, the modulo of the shift included. From the
  invariant follow `AtMostOnceCorrect` and `Refinement`: a step of the filter is
  a step of `ReplayWindow`.
- **Peer table** (`PeerManagerProofs`). `TypeCorrect`; `TableCorrect` and
  `TableFitsCorrect`: the maps agree and the table fits after any sequence of
  calls, by induction on the operations, `add_peer` in its three cases;
  `IdsCorrect`: an id below `next_peer_id` was handed out at most once and none above.
- **Mesh** (`MeshProofs`). The invariant is about ownership: the host's entry for
  an id keeps its address for good, so `Owns(id, a)` never changes once it holds.
  `CoreInv` says that every table, every list of peers to greet and every packet in
  flight respects it: a member has an id the host gave to its address
  (`JoinerInv`), an entry names the owner of its id (`TableInv`), a packet carries
  an id of its sender (`PacketInv`), and a PEER_LIST names its receiver under the
  greatest id in it (`ListInv`), which is what `my_id` picks. This survives
  restarts, losses, duplicates and timeouts; from it follow `IdentityCorrect` and
  `AddressBookCorrect`. `CleanInv` says what holds besides until a joiner restarts
  or a packet is delivered twice: a joiner has one JOIN and one list (`JoinsOnce`),
  a greeting comes from a node that has entered its receiver, and a key is made of
  the two first public keys and the two ids (`EntryInv`). From it follow
  `ConnectedCorrect` and `KeyAgreementCorrect`. `OldIdFadesCorrect` is an action
  property: once an address has joined again, only the handling of a HELLO, HELLO_ACK
  or PONG that carries the older id renews the older entry (the address map leads to
  the newest one, `TouchesNewest`), and an id that nothing carries any more does not
  come back (`CarriedStays`: only the host makes an id known, in the list for a JOIN,
  and that id is above all it has given). Most handlers are
  an `Ordinary` step, which changes one table without changing ids or addresses and
  only adds packets that respect the invariant; `OrdinaryCore` and `OrdinaryClean`
  treat them once. JOIN, PEER_LIST, start and stop have proofs of their own.
- **Audio link** (`AudioLinkProofs`). `PushedOnceCorrect`: no frame is pushed
  twice, whatever resets the counters. `LinkInv` adds to `PushedOnce` that a frame
  has one packet at most and that a copy in flight of a frame that was pushed is no
  longer acceptable to its filter. It rests on `FilterRemembers`: what
  `check_and_accept` has seen is not acceptable afterwards, whatever arrives later.
  `UpgradeSafeCorrect`: once it was sent, A's key is at B or on its way, or a
  KEY_EXCHANGE was lost or refused by B (`KeyOnTheWay`); so also whenever A may use it.
  `FreshHeardCorrect`: until a KEY_EXCHANGE or a PEER_LIST is repeated, a frame
  that B can open and that no window of packets overtook is pushed. Its invariant
  numbers the frames (`Numbering`): under the passphrase the
  counters run ahead of the frames by the other packets sent, under the peer's key
  they lag behind by the frames sent before the upgrade; and the filters remember
  nothing but what B has got (`Memory`). The numbering is existentially quantified:
  the code does not store it.
- **Jitter buffer** (`JitterProofs`). `SortedCorrect`, `OrderCorrect`,
  `NoSkipCorrect`. The buffer compares numbers modulo `SeqCount`; the invariant is
  about the frames behind them: those in the buffer are increasing, have arrived
  and are not overdue (`Content`), `next_playout_seq` is the number of the frame
  that is due (`Playout`), and all that can still be compared lies within half of
  the numbers (`Window`). Within that distance the comparison of numbers is the
  comparison of frames (`WrappingDistance`, `LateMeansOverdue`). `Window` is why the
  replay window matters to the buffer: without it a packet older than half the
  numbers would look new. It is also why both bounds on `SeqCount` are needed, and
  it rests on the assumption `WithinHalf` about the sender.
- **Capture pipeline** (`CaptureProofs`). The rings, the accumulators and the block
  of the suppressor are one sequence, `Pipeline`, and most steps only move the
  border between two of its parts. `FlowInv`: that sequence has no sample twice, it
  and the samples given up make up all that was captured (`Flow`), and it is
  increasing unless samples went round the suppressor. Three lemmas treat the steps
  that change it: samples come in at one end (`FlowGrows`), a part is given up
  (`FlowDrops`), two parts change places (`FlowSwaps`). `AccountedCorrect` and
  `InOrderCorrect` follow. `GateCorrect` is an action property: one turn after the
  last click the gate does what the controls say. It needs
  `ControlInv` (what was loaded since the last click is still so) and `HoldInv`
  (the hold counter is what is left of the hold time).
- **Latency** (`LatencyProofs`). All five invariants of `LatencyLink`. `TrackerInv`
  collects the facts about one tracker (`LatencyInv` has them for all): pending pings were sent and not in the future,
  are no more than the table holds, were not measured, and include the newest unless
  that one was measured; the statistics are consistent, and so is the number of
  measurements. It is preserved by `ping_sent` (`PingSentInv`), `pong_received`
  (`PongReceivedInv`) and the clock (`LaterInv`). `StatsCorrect` rests on
  `EmaBounds`: the truncated average of two numbers lies between them, so neither
  average nor jitter drifts out of its bounds. `RoundTripCorrect` needs `Answers`:
  before the second JOIN a packet names a ping of the one entry and carries the time
  at which that entry sent it.
- **Applications** (`AppsProofs`). `OrphansCorrect`: `OrphansWereLeftEarly` is not
  inductive, since it is about flags that are up; `TrayInv` also covers the threads
  that will raise theirs. `ListenerCorrect` needs `ListenerInv`: a listener belongs
  to a session that was called, and the one flag of the program goes down once.

Only model-checked are the liveness properties (`HostReached`, `GreetingConnects`,
`ToldToStopEnds`, `EndIsNoticed`, `CtrlCEndsLoopback`), which rest on fairness and
`ENABLED` and are out of the prover's reach, and the two refuted claims, for which a
behaviour of a small instance is the evidence.

## Not modelled

The codec and the mixer keep no state that the rest looks at; UPnP is a call at
the start and one at the end; the byte layout of packets is straight-line code;
cryptography is library code. `JitterBuffer::reset` and `LatencyTracker::reset`
are not called by anything. Choosing audio devices and stream formats
(`candidate_configs`, `start_capture`, `start_playout`) is a step of the setup that
succeeds or fails; their callbacks are modelled. The playout ring of a session, which
takes one mixed frame per tick, is not: the one of the loopback test is the same
code. The statistics printer, the peer table on the screen, the settings of the lobby
and all drawing only read.

## The plan

Order of work, the most important behaviour first:

1. Replay filter with its abstract specification; refinement proved. *Done.*
2. Peer table; table invariants proved. *Done.*
3. `Mesh`, composing tables, handlers, timers and the network. *Done.*
4. Jitter buffer, alone, in a stream and against the clock. *Done.*
5. `AudioLink`, composing the replay filters with the key upgrade; `PushedOnce`
   proved. *Done.*
6. Desktop application and command line program over a common `SessionThread`.
   *Done.*
7. `LatencyTracker`, alone and over the network; all its invariants proved. *Done.*
8. Capture pipeline with its controls, and the loopback test. *Done.*
9. Proofs about `Mesh`: all its invariants and `OldIdFades`. *Done.*
10. Proofs about `JitterStream`: bound and depth, then order. *Done.*
11. Proofs about `CapturePipeline`, about `Apps`, and `FreshHeard`. *Done.*
12. An abstract specification of the membership that `Mesh` implements (ids are
    given out once and belong to one address), proved from `CoreInv`.
