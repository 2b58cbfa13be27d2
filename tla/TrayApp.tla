------------------------------ MODULE TrayApp -------------------------------
(***************************************************************************)
(* The desktop application, vc-tray/src/main.rs: the UI thread and the     *)
(* threads of the sessions it has started, which share one AtomicBool per  *)
(* session.  The controls of a running session are in CapturePipeline.     *)
(* Closing the window ends the process and all its threads and is left     *)
(* out.                                                                    *)
(***************************************************************************)
EXTENDS SessionThread

VARIABLES
    state,      \* AppState: "Lobby" or "Connected"
    current,    \* the session whose flag the UI holds
    started,    \* number of sessions started
    error_msg,  \* the lobby shows an error
    early       \* history: the sessions that were left before run had begun

trayVars == <<state, current, started, error_msg, early>>

TrayInit ==
    /\ state = "Lobby" /\ current = 0 /\ started = 0 /\ error_msg = FALSE
    /\ early = {}

\* A plausible mistake: the UI keeps the flag it has.
MutantStartSession ==
    /\ state = "Lobby" /\ started < MaxSessions
    /\ started' = started + 1
    /\ thread' = [thread EXCEPT ![started + 1] = "spawned"]
    /\ state' = "Connected" /\ error_msg' = FALSE
    /\ UNCHANGED <<running, current, early>>

\* The button in the lobby, and start_session.
StartSession ==
    /\ state = "Lobby" /\ started < MaxSessions
    /\ started' = started + 1
    /\ current' = started + 1
    /\ thread' = [thread EXCEPT ![started + 1] = "spawned"]
    /\ state' = "Connected" /\ error_msg' = FALSE
    /\ UNCHANGED <<running, early>>

\* start_session, when an address does not parse.
StartFails ==
    /\ state = "Lobby"
    /\ error_msg' = TRUE
    /\ UNCHANGED <<state, current, started, early, running, thread>>

\* A plausible mistake: the flag is let go of and not lowered.
MutantDisconnect ==
    /\ state' = "Lobby"
    /\ early' = IF thread[current] = "spawned" THEN early \cup {current} ELSE early
    /\ UNCHANGED <<current, started, error_msg, running, thread>>

\* disconnect
Disconnect ==
    /\ running' = [running EXCEPT ![current] = FALSE]
    /\ state' = "Lobby"
    /\ early' = IF thread[current] = "spawned" THEN early \cup {current} ELSE early
    /\ UNCHANGED <<current, started, error_msg, thread>>

\* draw_connected finds the flag down, or the user clicks Disconnect.
NoticeEnd == state = "Connected" /\ ~ running[current] /\ Disconnect
ClickDisconnect == state = "Connected" /\ running[current] /\ Disconnect

\* A plausible mistake: an error of run leaves the flag as it is.
MutantEnd(s) == Moves(s, "returned", "done") /\ UNCHANGED running

\* The closure around run, after an error, too.
End(s) ==
    /\ Moves(s, "returned", "done")
    /\ running' = [running EXCEPT ![s] = FALSE]

TrayThread(s) == (Run(s) \/ End(s)) /\ UNCHANGED trayVars

TrayNext ==
    \/ StartSession
    \/ StartFails
    \/ NoticeEnd
    \/ ClickDisconnect
    \/ \E s \in Sessions : TrayThread(s)
=============================================================================
