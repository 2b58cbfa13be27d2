-------------------------- MODULE CapturePipeline ---------------------------
(***************************************************************************)
(* From the microphone to the encoder: the capture callback of             *)
(* vc-core/src/audio.rs, the ring between it and the loop of Session::run, *)
(* the capture section of the loop (vc-core/src/lib.rs), the noise         *)
(* suppressor (dsp.rs), the voice activity detector (vad.rs), the input    *)
(* gate (input.rs), and the controls that the user interface shares with   *)
(* the loop.  Three threads: the audio device, the loop and the UI.  The   *)
(* loopback test (run_loopback) has the same pipeline without controls and *)
(* gate, and a second ring from which the output device takes the samples. *)
(*                                                                         *)
(* A sample is its number, counted from 1 at the device.  What denoising   *)
(* does to its value is left out; whether a chunk is loud and whether      *)
(* RNNoise takes a block for voice are inputs.  What happens to a chunk    *)
(* after the gate in a session is the subject of AudioLink.                *)
(***************************************************************************)
EXTENDS Integers, Sequences, SequencesExt

CONSTANTS
    FrameSamples,   \* FRAME_SAMPLES
    BlockFrames,    \* frames in a block of the suppressor
    RingCapacity,   \* RING_BUFFER_CAPACITY
    PopMax,         \* length of temp_buf
    HoldFrames,     \* VadConfig::hold_frames
    CallbackSize,   \* samples the device delivers at a time
    MaxSamples,     \* bound on the samples captured
    MaxClicks       \* bound on what the user does

ASSUME CaptureAssumption ==
    /\ FrameSamples \in Nat \ {0} /\ RingCapacity \in Nat \ {0}
    /\ PopMax \in Nat \ {0} /\ CallbackSize \in Nat \ {0}
    /\ HoldFrames \in Nat /\ MaxSamples \in Nat /\ MaxClicks \in Nat
    /\ BlockFrames \in Nat \ {0}

\* DENOISE_FRAME_SIZE
BlockSamples == BlockFrames * FrameSamples

Modes == {"AlwaysOn", "PushToTalk", "VoiceActivation"}

VARIABLES
    loopback,   \* this is run_loopback, not a session
    running,    \* Session::running, or the flag run_loopback was given
    shared,     \* SessionShared: the controls, and the indicator is_transmitting
    clicks,     \* number of things the user did
    captured,   \* number of samples the device has delivered
    ring,       \* the samples in the ring
    pc,         \* where the loop is
    accum,      \* capture_accum
    ns,         \* NoiseSuppressor: enabled, accum, last_vad_prob > threshold
    denoised,   \* what process returned, as far as it is not yet handled
    vad,        \* VoiceActivityDetector: hold_counter, is_active
    gate,       \* InputGate: mode, ptt_active, is_transmitting
    playout,    \* the samples in the ring of the output device (loopback)
    sent,       \* history: the samples given to the encoder, in order; in the
                \* loopback test the samples the output device has played
    unsent,     \* history: the samples that found a ring full, the gate shut,
                \* or the codec failing
    bypassed,   \* history: a frame passed by a block that was being collected
    quiet,      \* history: chunks since voice was detected, up to HoldFrames + 1
    synced      \* history: how many of the loads of the controls, flags first,
                \* the loop has done since the user did something

loop == <<pc, accum, ns, denoised, vad, gate>>
history == <<sent, unsent, bypassed, quiet, synced>>
vars == <<loopback, running, shared, clicks, captured, ring, loop, playout, history>>

Init ==
    /\ loopback \in BOOLEAN /\ running = TRUE
    /\ shared \in [noise_suppression : BOOLEAN, input_mode : Modes,
                   ptt_active : {FALSE}, is_transmitting : {FALSE}]
    /\ loopback => shared.input_mode = "AlwaysOn"
    /\ clicks = 0 /\ captured = 0 /\ ring = <<>>
    /\ pc = "flags" /\ accum = <<>> /\ denoised = <<>>
    /\ ns = [enabled |-> shared.noise_suppression, accum |-> <<>>, voice |-> FALSE]
    /\ vad = [hold_counter |-> 0, is_active |-> FALSE]
    /\ gate = [mode |-> shared.input_mode, ptt_active |-> FALSE,
               is_transmitting |-> FALSE]
    /\ playout = <<>> /\ sent = <<>> /\ unsent = {} /\ bypassed = FALSE
    /\ quiet = HoldFrames + 1 /\ synced = 0

-----------------------------------------------------------------------------
(* The threads of the audio devices *)

\* push_slice of the ring: what does not fit is not written.
PushSlice(buf, data) ==
    LET room == RingCapacity - Len(buf)
    IN  buf \o SubSeq(data, 1, IF Len(data) < room THEN Len(data) ELSE room)

\* The data callback of start_capture.
CaptureCallback ==
    LET data == [i \in 1 .. CallbackSize |-> captured + i]
    IN  /\ running /\ captured + CallbackSize <= MaxSamples
        /\ captured' = captured + CallbackSize
        /\ ring' = PushSlice(ring, data)
        /\ unsent' = unsent \cup (ToSet(data) \ ToSet(ring'))
        /\ UNCHANGED <<loopback, running, shared, clicks, loop, playout,
                       sent, bypassed, quiet, synced>>

\* pop_slice of a ring: at most n samples are taken from its front.
Taken(buf, n) == SubSeq(buf, 1, IF Len(buf) < n THEN Len(buf) ELSE n)
Left(buf, n) == SubSeq(buf, n + 1, Len(buf))

\* The data callback of start_playout; silence makes up for what is missing.
PlayoutCallback ==
    /\ running /\ playout # <<>>
    /\ sent' = sent \o Taken(playout, CallbackSize)
    /\ playout' = Left(playout, CallbackSize)
    /\ UNCHANGED <<loopback, running, shared, clicks, captured, ring, loop,
                   unsent, bypassed, quiet, synced>>

-----------------------------------------------------------------------------
(* The thread of the user interface; the loopback test has no controls *)

Click ==
    /\ running /\ clicks < MaxClicks
    /\ clicks' = clicks + 1
    /\ synced' = 0
    /\ UNCHANGED <<loopback, captured, ring, loop, playout,
                   sent, unsent, bypassed, quiet>>

\* The check box of the connected screen.
ToggleSuppression ==
    /\ Click /\ ~ loopback /\ UNCHANGED running
    /\ shared' = [shared EXCEPT !.noise_suppression = ~ @]

\* The list of input modes.
SelectMode(mode) ==
    /\ Click /\ ~ loopback /\ UNCHANGED running
    /\ mode # shared.input_mode
    /\ shared' = [shared EXCEPT !.input_mode = mode]

\* The push-to-talk button, which the screen has in that mode only; Enter in
\* the listener of the command line.
TogglePtt ==
    /\ Click /\ ~ loopback /\ UNCHANGED running
    /\ shared.input_mode = "PushToTalk"
    /\ shared' = [shared EXCEPT !.ptt_active = ~ @]

\* Session::stop, disconnect, or Ctrl+C in the loopback test
Stop ==
    /\ Click /\ UNCHANGED shared
    /\ running' = FALSE

-----------------------------------------------------------------------------
(* The loop *)

\* set_enabled, and the push-to-talk flag.
SyncFlags ==
    /\ pc = "flags" /\ running /\ ~ loopback
    /\ ns' = [ns EXCEPT !.enabled = shared.noise_suppression]
    /\ gate' = [gate EXCEPT !.ptt_active = shared.ptt_active]
    /\ pc' = "mode"
    /\ synced' = IF synced = 0 THEN 1 ELSE synced
    /\ UNCHANGED <<loopback, running, shared, clicks, captured, ring, accum,
                   denoised, vad, playout, sent, unsent, bypassed, quiet>>

\* set_mode, under the lock of input_mode.
SyncMode ==
    /\ pc = "mode"
    /\ gate' = [gate EXCEPT !.mode = shared.input_mode]
    /\ pc' = "pop"
    /\ synced' = IF synced = 1 THEN 2 ELSE synced
    /\ UNCHANGED <<loopback, running, shared, clicks, captured, ring, accum, ns,
                   denoised, vad, playout, sent, unsent, bypassed, quiet>>

\* The loop of run_loopback, when its flag is still up.
NextTurn ==
    /\ pc = "flags" /\ running /\ loopback
    /\ pc' = "pop"
    /\ UNCHANGED <<loopback, running, shared, clicks, captured, ring, accum, ns,
                   denoised, vad, gate, playout, history>>

\* A plausible mistake: the rest of the last turn is overwritten.
MutantPopRing ==
    /\ pc = "pop"
    /\ accum' = Taken(ring, PopMax)
    /\ ring' = Left(ring, PopMax)
    /\ pc' = "frames"
    /\ UNCHANGED <<loopback, running, shared, clicks, captured, ns, denoised, vad,
                   gate, playout, history>>

\* After a packet was received, or none came: pop_slice.
PopRing ==
    /\ pc = "pop"
    /\ accum' = accum \o Taken(ring, PopMax)
    /\ ring' = Left(ring, PopMax)
    /\ pc' = "frames"
    /\ UNCHANGED <<loopback, running, shared, clicks, captured, ns, denoised, vad,
                   gate, playout, history>>

\* A plausible mistake: the new frame is put before the ones collected.
MutantProcess(frame, voice) ==
    IF ~ ns.enabled THEN denoised' = frame /\ UNCHANGED ns
    ELSE LET all == frame \o ns.accum
         IN  IF Len(all) < BlockSamples
             THEN denoised' = <<>> /\ ns' = [ns EXCEPT !.accum = all]
             ELSE denoised' = all /\ ns' = [ns EXCEPT !.voice = voice, !.accum = <<>>]

\* process: without suppression the frame passes; otherwise it is added to the
\* block, and a full block comes out.
Process(frame, voice) ==
    IF ~ ns.enabled THEN denoised' = frame /\ UNCHANGED ns
    ELSE LET all == ns.accum \o frame
         IN  IF Len(all) < BlockSamples
             THEN denoised' = <<>> /\ ns' = [ns EXCEPT !.accum = all]
             ELSE /\ denoised' = Taken(all, BlockSamples)
                  /\ ns' = [ns EXCEPT !.voice = voice,
                                      !.accum = Left(all, BlockSamples)]

\* One turn of the while loop over the frames.
ProcessFrame(voice) ==
    /\ pc = "frames" /\ denoised = <<>> /\ Len(accum) >= FrameSamples
    /\ accum' = Left(accum, FrameSamples)
    /\ Process(Taken(accum, FrameSamples), voice)
    /\ bypassed' = (bypassed \/ (~ ns.enabled /\ ns.accum # <<>>))
    /\ UNCHANGED <<loopback, running, shared, clicks, captured, ring, pc, vad, gate,
                   playout, sent, unsent, quiet, synced>>

\* A plausible mistake: the hold time is over one frame early.
MutantDetect(voice) ==
    IF voice THEN [hold_counter |-> HoldFrames, is_active |-> TRUE]
    ELSE IF vad.hold_counter > 1 THEN [vad EXCEPT !.hold_counter = @ - 1]
    ELSE [vad EXCEPT !.is_active = FALSE]

\* detect
Detect(voice) ==
    IF voice THEN [hold_counter |-> HoldFrames, is_active |-> TRUE]
    ELSE IF vad.hold_counter > 0 THEN [vad EXCEPT !.hold_counter = @ - 1]
    ELSE [vad EXCEPT !.is_active = FALSE]

\* should_transmit, after set_vad_active.
ShouldTransmit(active) ==
    CASE gate.mode = "AlwaysOn" -> TRUE
      [] gate.mode = "PushToTalk" -> gate.ptt_active
      [] gate.mode = "VoiceActivation" -> active

\* One chunk of what process returned.
HandleChunk(loud) ==
    LET chunk == Taken(denoised, FrameSamples)
        voice == loud /\ (ns.enabled => ns.voice)
    IN  /\ pc = "frames" /\ denoised # <<>> /\ ~ loopback
        /\ denoised' = Left(denoised, FrameSamples)
        /\ vad' = Detect(voice)
        /\ gate' = [gate EXCEPT !.is_transmitting = ShouldTransmit(vad'.is_active)]
        /\ quiet' = IF voice THEN 0 ELSE IF quiet > HoldFrames THEN quiet ELSE quiet + 1
        /\ IF gate'.is_transmitting
           THEN sent' = sent \o chunk /\ UNCHANGED unsent
           ELSE unsent' = unsent \cup ToSet(chunk) /\ UNCHANGED sent
        /\ UNCHANGED <<loopback, running, shared, clicks, captured, ring, pc, accum,
                       ns, playout, bypassed, synced>>

\* The same in the loopback test: the chunk is encoded, decoded and pushed to
\* the ring of the output device; coded is whether the codec did its part.
EchoChunk(coded) ==
    LET chunk == Taken(denoised, FrameSamples)
    IN  /\ pc = "frames" /\ denoised # <<>> /\ loopback
        /\ denoised' = Left(denoised, FrameSamples)
        /\ playout' = IF coded THEN PushSlice(playout, chunk) ELSE playout
        /\ unsent' = unsent \cup (ToSet(chunk) \ ToSet(playout'))
        /\ UNCHANGED <<loopback, running, shared, clicks, captured, ring, pc, accum,
                       ns, vad, gate, sent, bypassed, quiet, synced>>

\* A plausible mistake: a last whole frame is left for the next turn.
MutantEndTurn ==
    /\ pc = "frames" /\ denoised = <<>> /\ Len(accum) <= FrameSamples
    /\ shared' = [shared EXCEPT !.is_transmitting = gate.is_transmitting]
    /\ pc' = "flags"
    /\ UNCHANGED <<loopback, running, clicks, captured, ring, accum, ns, denoised,
                   vad, gate, playout, history>>

\* No whole frame is left: the indicator is set, and the loop goes on with the
\* other sections.  (The loopback test has no indicator; nothing changes there.)
EndTurn ==
    /\ pc = "frames" /\ denoised = <<>> /\ Len(accum) < FrameSamples
    /\ shared' = [shared EXCEPT !.is_transmitting = gate.is_transmitting]
    /\ pc' = "flags"
    /\ UNCHANGED <<loopback, running, clicks, captured, ring, accum, ns, denoised,
                   vad, gate, playout, history>>

LoopStep ==
    \/ SyncFlags
    \/ SyncMode
    \/ PopRing
    \/ \E voice \in BOOLEAN : ProcessFrame(voice)
    \/ NextTurn
    \/ \E loud \in BOOLEAN : HandleChunk(loud)
    \/ \E coded \in BOOLEAN : EchoChunk(coded)
    \/ EndTurn

Next ==
    \/ CaptureCallback
    \/ PlayoutCallback
    \/ ToggleSuppression
    \/ \E mode \in Modes : SelectMode(mode)
    \/ TogglePtt
    \/ Stop
    \/ LoopStep

Spec == Init /\ [][Next]_vars

-----------------------------------------------------------------------------
TypeOK ==
    /\ Len(ring) <= RingCapacity /\ Len(playout) <= RingCapacity
    /\ pc \in {"flags", "mode", "pop", "frames"}
    /\ Len(ns.accum) < BlockSamples /\ Len(ns.accum) % FrameSamples = 0
    /\ Len(denoised) <= BlockSamples /\ Len(denoised) % FrameSamples = 0
    /\ pc # "frames" => denoised = <<>> /\ Len(accum) < FrameSamples
    /\ vad.hold_counter \in 0 .. HoldFrames

\* Everything captured, from what was sent first to what came last.
Pipeline == sent \o playout \o denoised \o ns.accum \o accum \o ring

\* Every sample the device delivered is in exactly one place: given to the
\* encoder (in the loopback test: played) once, turned down by a full ring or
\* the gate, or still on its way through rings, accumulator and suppressor,
\* however the threads interleave and the controls are changed.
Accounted ==
    /\ Len(Pipeline) + Cardinality(unsent) = captured
    /\ ToSet(Pipeline) \cup unsent = 1 .. captured

\* Samples are sent (or played) in the order they were captured, as long as no frame passed
\* by a block that suppression was collecting when it was switched off.  (After
\* that, switching it on again sends the old part of the block.)
InOrder ==
    ~ bypassed => \A i \in 1 .. Len(Pipeline) - 1 : Pipeline[i] < Pipeline[i + 1]

\* One turn after the user's last click the gate does what the controls say,
\* for every chunk: push-to-talk sends while the button is down, and voice
\* activation sends a chunk exactly when voice was detected in it or in one of
\* the hold_frames chunks before ("prevents clipping word tails"), whatever the
\* mode was at the time.
GateFollowsControls ==
    [][(denoised # <<>> /\ denoised' # denoised /\ synced = 2) =>
        (sent' # sent) =
            CASE shared.input_mode = "AlwaysOn" -> TRUE
              [] shared.input_mode = "PushToTalk" -> shared.ptt_active
              [] shared.input_mode = "VoiceActivation" -> quiet' <= HoldFrames]_vars
=============================================================================
