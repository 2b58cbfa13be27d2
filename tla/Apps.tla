-------------------------------- MODULE Apps --------------------------------
(***************************************************************************)
(* The two applications over the library: a process is either the desktop  *)
(* application or the command line program.                                *)
(***************************************************************************)
EXTENDS TrayApp, CliApp

VARIABLE program    \* "tray" or "cli"

vars == <<program, running, thread, trayVars, cliVars>>

Init ==
    /\ program \in {"tray", "cli"}
    /\ SessionInit /\ TrayInit /\ CliInit

Next ==
    /\ UNCHANGED program
    /\ \/ program = "tray" /\ TrayNext /\ UNCHANGED cliVars
       \/ program = "cli" /\ CliNext /\ UNCHANGED trayVars

Spec == Init /\ [][Next]_vars

Tray(A) == program = "tray" /\ A /\ UNCHANGED <<program, cliVars>>

\* Threads are scheduled, and the connected screen is redrawn every 250 ms.
\* Nothing is assumed of the user.
FairSpec ==
    /\ Spec
    /\ WF_vars(Tray(NoticeEnd))
    /\ \A s \in Sessions : WF_vars(Tray(TrayThread(s)))
    /\ WF_vars(program = "cli" /\ MainThread /\ UNCHANGED <<program, trayVars>>)

-----------------------------------------------------------------------------
TypeOK ==
    /\ state \in {"Lobby", "Connected"} /\ error_msg \in BOOLEAN
    /\ started \in 0 .. MaxSessions /\ current = started /\ early \subseteq Sessions
    /\ running \in [Sessions -> BOOLEAN]
    /\ thread \in [Sessions -> Stages]
    /\ main_running \in BOOLEAN /\ ptt_active \in BOOLEAN
    /\ listener \in {"none", "reading", "ended"}

\* A session of the desktop application that has begun and is told to stop, be
\* it in its setup or in its loop, comes to an end: the flag is not raised again
\* behind the user's back.
ToldToStopEnds ==
    \A s \in Sessions :
        (program = "tray" /\ Alive(s) /\ ~ running[s]) ~> thread[s] = "done"

\* The desktop application loses hold of a session in one way only: a session
\* whose flag is up is the one on the connected screen, or it was left before
\* run had raised the flag (draw_connected takes it for ended, and run raises
\* the flag afterwards).  No other order of starting, leaving, failing and
\* ending makes a session run that the user cannot stop.
OrphansWereLeftEarly ==
    program = "tray" =>
        \A s \in Sessions :
            running[s] => (state = "Connected" /\ current = s) \/ s \in early

\* A session that ends by itself (an address not ours, no device) takes
\* the UI back to the lobby.
EndIsNoticed ==
    \A s \in Sessions :
        (program = "tray" /\ thread[s] = "done" /\ current = s)
            ~> (state = "Lobby" \/ current # s)

\* Ctrl+C ends the loopback test once run_loopback has raised the flag (lib.rs,
\* "Ctrl+C to stop").  Before that it is forgotten, and host and join have no
\* such property: nothing lowers the flag of their session.
CtrlCEndsLoopback ==
    (program = "cli" /\ command = "loopback" /\ thread[1] \in {"bound", "loop"}
        /\ ~ main_running) ~> thread[1] = "done"

\* After Ctrl+C the push-to-talk listener switches transmission at most once
\* more, although the session itself goes on.
ListenerStops == extra <= 1
=============================================================================
