------------------------------- MODULE CliApp -------------------------------
(***************************************************************************)
(* The command line program, vc-cli/src/main.rs.  Its main thread calls    *)
(* Session::run (host and join, which are alike here) or run_loopback      *)
(* (vc-core/src/lib.rs).  The Ctrl+C handler lowers a flag of main's own,  *)
(* which run_loopback and the push-to-talk listener look at; the session   *)
(* has another one.  The main thread is thread[1].                         *)
(***************************************************************************)
EXTENDS SessionThread

VARIABLES
    command,        \* "host" (or join) or "loopback"
    main_running,   \* main's flag
    interrupted,    \* history: Ctrl+C was pressed
    listener,       \* the push-to-talk listener: "none", "reading" or "ended"
    ptt_active,     \* SessionShared::ptt_active
    extra           \* history: lines the listener took after Ctrl+C

cliVars == <<command, main_running, interrupted, listener, ptt_active, extra>>

CliInit ==
    /\ command \in {"host", "loopback"}
    /\ main_running = TRUE /\ interrupted = FALSE
    /\ listener = "none" /\ ptt_active = FALSE /\ extra = 0

\* The handler, at any time until the program has ended.
CtrlC ==
    /\ thread[1] # "done"
    /\ main_running' = FALSE /\ interrupted' = TRUE
    /\ UNCHANGED <<command, listener, ptt_active, extra, running, thread>>

\* host and join: main makes the session, and the listener when the mode is
\* push-to-talk; the listener looks at the flag before it reads.
CallRun(ptt) ==
    /\ command = "host" /\ Moves(1, "none", "spawned")
    /\ listener' = IF ~ ptt THEN "none"
                   ELSE IF main_running THEN "reading" ELSE "ended"
    /\ UNCHANGED <<command, main_running, interrupted, ptt_active, extra, running>>

\* The session ran to its end, or failed: main returns, and the listener with it.
MainReturns ==
    /\ Moves(1, "returned", "done")
    /\ listener' = "none"
    /\ UNCHANGED <<command, main_running, interrupted, ptt_active, extra, running>>

\* A plausible mistake: the listener never looks at the flag.
MutantReadLine(ok) ==
    /\ listener = "reading"
    /\ ptt_active' = (ptt_active # ok)
    /\ extra' = IF ok /\ interrupted /\ extra < 2 THEN extra + 1 ELSE extra
    /\ UNCHANGED <<listener, command, main_running, interrupted, running, thread>>

\* spawn_ptt_listener: a line, or the end of the input, toggles (ok), an error
\* does not; then the flag decides whether another line is read.
ReadLine(ok) ==
    /\ listener = "reading"
    /\ ptt_active' = (ptt_active # ok)
    /\ extra' = IF ok /\ interrupted /\ extra < 2 THEN extra + 1 ELSE extra
    /\ listener' = IF main_running THEN "reading" ELSE "ended"
    /\ UNCHANGED <<command, main_running, interrupted, running, thread>>

\* run_loopback raises main's flag, opens the streams and loops on the flag.
LoopbackBegin ==
    /\ command = "loopback" /\ Moves(1, "none", "bound")
    /\ main_running' = TRUE
    /\ UNCHANGED <<command, interrupted, listener, ptt_active, extra, running>>

\* A plausible mistake: the loop looks at a flag of its own.
MutantLoopbackEnds ==
    /\ command = "loopback" /\ Moves(1, "loop", "returned")
    /\ running[1]
    /\ UNCHANGED <<cliVars, running>>

LoopbackEnds ==
    /\ command = "loopback" /\ ~ main_running /\ Moves(1, "loop", "returned")
    /\ UNCHANGED <<cliVars, running>>

LoopbackStarts ==
    /\ command = "loopback" /\ (EnterLoop(1) \/ AudioFails(1))
    /\ UNCHANGED cliVars

SessionRuns == command = "host" /\ Run(1) /\ UNCHANGED cliVars

\* The steps of the main thread.
MainThread ==
    \/ \E ptt \in BOOLEAN : CallRun(ptt)
    \/ SessionRuns
    \/ LoopbackBegin
    \/ LoopbackStarts
    \/ LoopbackEnds
    \/ MainReturns

CliNext == CtrlC \/ MainThread \/ \E ok \in BOOLEAN : ReadLine(ok)
=============================================================================
