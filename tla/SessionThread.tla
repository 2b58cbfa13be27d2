--------------------------- MODULE SessionThread ----------------------------
(***************************************************************************)
(* The life of Session::run (vc-core/src/lib.rs) as the applications see   *)
(* it: each session has one AtomicBool, running, and passes through its    *)
(* setup into its loop.  The two applications, TrayApp and CliApp, add who *)
(* calls run and who lowers the flag.                                      *)
(***************************************************************************)
EXTENDS Integers

CONSTANT MaxSessions    \* bound: how many sessions are started

ASSUME MaxSessionsAssumption == MaxSessions \in Nat \ {0}

Sessions == 1 .. MaxSessions

VARIABLES
    running,    \* running[s]: the flag of session s
    thread      \* thread[s]: how far the thread of s has got

Stages == {"none", "spawned", "setup", "bound", "loop", "returned", "done"}

SessionInit ==
    /\ running = [s \in Sessions |-> FALSE]
    /\ thread = [s \in Sessions |-> "none"]

Moves(s, from, to) ==
    thread[s] = from /\ thread' = [thread EXCEPT ![s] = to]

\* The first statement of run.
Begin(s) ==
    /\ Moves(s, "spawned", "setup")
    /\ running' = [running EXCEPT ![s] = TRUE]

\* The port is bound with SO_REUSEADDR: a session that is still in its loop
\* does not keep the next one from binding it.
Bind(s) == Moves(s, "setup", "bound") /\ UNCHANGED running

\* Another program has the port, or the address is not ours.
BindFails(s) == Moves(s, "setup", "returned") /\ UNCHANGED running

\* The audio streams are open (and the JOIN is sent).
EnterLoop(s) == Moves(s, "bound", "loop") /\ UNCHANGED running

\* There is no such device, or the JOIN cannot be sent.
AudioFails(s) == Moves(s, "bound", "returned") /\ UNCHANGED running

\* A plausible mistake: the condition of the loop is the wrong way round.
MutantLeaveLoop(s) ==
    running[s] /\ Moves(s, "loop", "returned") /\ UNCHANGED running

\* The loop finds its flag down.
LeaveLoop(s) ==
    ~ running[s] /\ Moves(s, "loop", "returned") /\ UNCHANGED running

Run(s) ==
    \/ Begin(s)
    \/ Bind(s)
    \/ BindFails(s)
    \/ EnterLoop(s)
    \/ AudioFails(s)
    \/ LeaveLoop(s)

\* run has begun and has not come back to the application.
Alive(s) == thread[s] \in {"setup", "bound", "loop", "returned"}
=============================================================================
