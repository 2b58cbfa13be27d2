----------------------------- MODULE AppsProofs -----------------------------
(***************************************************************************)
(* For any number of sessions, started, left, failing and ending in any    *)
(* order: the desktop application loses hold of a session in one way only, *)
(* and after Ctrl+C the push-to-talk listener takes at most one line more. *)
(***************************************************************************)
EXTENDS Apps, TLAPS

USE MaxSessionsAssumption

\* The types, and that the connected screen has a session to show.
Typed ==
    /\ TypeOK
    /\ program \in {"tray", "cli"} /\ command \in {"host", "loopback"}
    /\ interrupted \in BOOLEAN
    /\ state = "Connected" => current \in Sessions

\* The flag of a session is up, or run will raise it, only if the session is on
\* the screen or was left before run had begun.
Held(s) == (state = "Connected" /\ current = s) \/ s \in early

TrayInv ==
    program = "tray" =>
        \A s \in Sessions : (running[s] \/ thread[s] = "spawned") => Held(s)

\* The listener belongs to a session that was called, whose program has one
\* flag that goes down once, and it counts nothing while it goes on reading.
ListenerInv ==
    /\ extra \in {0, 1}
    /\ listener = "reading" \/ thread[1] = "none" => extra = 0
    /\ listener # "none" => command = "host" /\ thread[1] # "none"
    /\ command = "host" /\ interrupted => ~ main_running

AppInv == Typed /\ TrayInv /\ ListenerInv

LEMMA InitApps == Init => AppInv
<1> SUFFICES ASSUME Init PROVE AppInv
  OBVIOUS
<1>1. 1 \in Sessions /\ 0 \in 0 .. MaxSessions
  BY DEF Sessions
<1>2. Typed
  BY <1>1 DEF Init, SessionInit, TrayInit, CliInit, Typed, TypeOK, Stages
<1>3. TrayInv
  BY DEF Init, SessionInit, TrayInv
<1>4. ListenerInv
  BY <1>1 DEF Init, SessionInit, CliInit, ListenerInv
<1>5. QED
  BY <1>2, <1>3, <1>4 DEF AppInv

\* A step of the thread of a session s.
LEMMA RunTypes ==
    ASSUME Typed, NEW s \in Sessions, Run(s) \/ End(s)
    PROVE  /\ thread' \in [Sessions -> Stages] /\ running' \in [Sessions -> BOOLEAN]
           /\ thread[s] # "none" /\ thread'[s] \notin {"none", "spawned"}
           /\ \A r \in Sessions \ {s} :
                    thread'[r] = thread[r] /\ running'[r] = running[r]
           /\ running'[s] => running[s] \/ thread[s] = "spawned"
<1>1. thread \in [Sessions -> Stages] /\ running \in [Sessions -> BOOLEAN]
  BY DEF Typed, TypeOK
<1>2. CASE Begin(s)
  BY <1>1, <1>2 DEF Begin, Moves, Stages
<1>3. CASE Bind(s) \/ BindFails(s)
  BY <1>1, <1>3 DEF Bind, BindFails, Moves, Stages
<1>4. CASE EnterLoop(s) \/ AudioFails(s) \/ LeaveLoop(s)
  BY <1>1, <1>4 DEF EnterLoop, AudioFails, LeaveLoop, Moves, Stages
<1>5. CASE End(s)
  BY <1>1, <1>5 DEF End, Moves, Stages
<1>6. QED
  BY <1>2, <1>3, <1>4, <1>5 DEF Run

\* The steps of the desktop application, on the types and on who holds a session.
LEMMA TrayKeeps ==
    ASSUME Typed, TrayInv, program = "tray", TrayNext, UNCHANGED <<program, cliVars>>
    PROVE  Typed' /\ TrayInv'
<1>0. /\ state \in {"Lobby", "Connected"} /\ current = started
      /\ started \in 0 .. MaxSessions /\ early \subseteq Sessions
      /\ thread \in [Sessions -> Stages] /\ running \in [Sessions -> BOOLEAN]
      /\ state = "Connected" => current \in Sessions
  BY DEF Typed, TypeOK
<1>1. \A s \in Sessions : (running[s] \/ thread[s] = "spawned") => Held(s)
  BY DEF TrayInv
<1>2. /\ program' = "tray" /\ command' \in {"host", "loopback"}
      /\ interrupted' \in BOOLEAN /\ main_running' \in BOOLEAN
      /\ ptt_active' \in BOOLEAN /\ listener' \in {"none", "reading", "ended"}
  BY DEF Typed, TypeOK, cliVars
<1>3. CASE StartSession
  <2>1. started + 1 \in Sessions /\ started + 1 \in 0 .. MaxSessions
    BY <1>0, <1>3 DEF StartSession, Sessions
  <2>2. /\ started' = started + 1 /\ current' = started + 1 /\ state' = "Connected"
        /\ thread' = [thread EXCEPT ![started + 1] = "spawned"]
        /\ error_msg' = FALSE /\ running' = running /\ early' = early
        /\ state = "Lobby"
    BY <1>3 DEF StartSession
  <2>3. Typed'
    BY <1>0, <1>2, <2>1, <2>2 DEF Typed, TypeOK, Stages
  <2>4. ASSUME NEW s \in Sessions, running'[s] \/ thread'[s] = "spawned"
        PROVE  Held(s)'
    <3>1. CASE s = started + 1
      BY <2>2, <3>1 DEF Held
    <3>2. CASE s # started + 1
      <4>1. running[s] \/ thread[s] = "spawned"
        BY <1>0, <2>2, <2>4, <3>2
      <4>2. s \in early
        BY <1>1, <2>2, <4>1 DEF Held
      <4>3. QED
        BY <2>2, <4>2 DEF Held
    <3>3. QED
      BY <3>1, <3>2
  <2>5. QED
    BY <2>3, <2>4 DEF TrayInv
<1>4. CASE StartFails
  <2>1. /\ error_msg' = TRUE
        /\ UNCHANGED <<state, current, started, early, running, thread>>
    BY <1>4 DEF StartFails
  <2>2. Typed'
    BY <1>0, <1>2, <2>1 DEF Typed, TypeOK
  <2>3. QED
    BY <1>1, <2>1, <2>2 DEF TrayInv, Held
<1>5. CASE NoticeEnd \/ ClickDisconnect
  <2>1. /\ state = "Connected" /\ state' = "Lobby" /\ current \in Sessions
        /\ running' = [running EXCEPT ![current] = FALSE]
        /\ early' = IF thread[current] = "spawned" THEN early \cup {current} ELSE early
        /\ UNCHANGED <<current, started, error_msg, thread>>
    BY <1>0, <1>5 DEF NoticeEnd, ClickDisconnect, Disconnect
  <2>2. Typed'
    BY <1>0, <1>2, <2>1 DEF Typed, TypeOK
  <2>3. ASSUME NEW s \in Sessions, running'[s] \/ thread'[s] = "spawned"
        PROVE  Held(s)'
    <3>1. CASE s = current
      BY <1>0, <2>1, <2>3, <3>1 DEF Held
    <3>2. CASE s # current
      <4>1. running[s] \/ thread[s] = "spawned"
        BY <1>0, <2>1, <2>3, <3>2
      <4>2. s \in early
        BY <1>1, <3>2, <4>1 DEF Held
      <4>3. QED
        BY <2>1, <4>2 DEF Held
    <3>3. QED
      BY <3>1, <3>2
  <2>4. QED
    BY <2>2, <2>3 DEF TrayInv
<1>6. ASSUME NEW s \in Sessions, TrayThread(s)
      PROVE  Typed' /\ TrayInv'
  <2>1. (Run(s) \/ End(s)) /\ UNCHANGED <<state, current, started, error_msg, early>>
    BY <1>6 DEF TrayThread, trayVars
  <2>2. /\ thread' \in [Sessions -> Stages] /\ running' \in [Sessions -> BOOLEAN]
        /\ thread'[s] # "spawned"
        /\ \A r \in Sessions \ {s} : thread'[r] = thread[r] /\ running'[r] = running[r]
        /\ running'[s] => running[s] \/ thread[s] = "spawned"
    BY <2>1, RunTypes
  <2>3. Typed'
    BY <1>0, <1>2, <2>1, <2>2 DEF Typed, TypeOK
  <2>4. ASSUME NEW r \in Sessions, running'[r] \/ thread'[r] = "spawned"
        PROVE  Held(r)'
    <3>1. running[r] \/ thread[r] = "spawned"
      BY <2>2, <2>4
    <3>2. Held(r)
      BY <1>1, <3>1
    <3>3. QED
      BY <2>1, <3>2 DEF Held
  <2>5. QED
    BY <2>3, <2>4 DEF TrayInv
<1>7. QED
  BY <1>3, <1>4, <1>5, <1>6 DEF TrayNext

\* The steps of the desktop application leave the listener alone.
LEMMA TrayKeepsListener ==
    ASSUME Typed, ListenerInv, TrayNext, UNCHANGED cliVars
    PROVE  ListenerInv'
<1>1. 1 \in Sessions /\ thread \in [Sessions -> Stages]
  BY DEF Sessions, Typed, TypeOK
<1>2. thread'[1] = "none" => thread[1] = "none"
  <2>1. CASE StartSession
    BY <1>1, <2>1 DEF StartSession
  <2>2. CASE StartFails \/ NoticeEnd \/ ClickDisconnect
    BY <2>2 DEF StartFails, NoticeEnd, ClickDisconnect, Disconnect
  <2>3. ASSUME NEW s \in Sessions, TrayThread(s)
        PROVE  thread'[1] = "none" => thread[1] = "none"
    <3>1. Run(s) \/ End(s)
      BY <2>3 DEF TrayThread
    <3>2. thread'[s] # "none" /\ \A r \in Sessions \ {s} : thread'[r] = thread[r]
      BY <3>1, RunTypes
    <3>3. QED
      BY <1>1, <3>2
  <2>4. QED
    BY <2>1, <2>2, <2>3 DEF TrayNext
<1>3. thread'[1] # "none" \/ thread[1] = "none"
  BY <1>2
<1>4. thread[1] # "none" => thread'[1] # "none"
  BY <1>2
<1>5. QED
  BY <1>3, <1>4 DEF ListenerInv, cliVars

\* The steps of the command line program.
LEMMA CliKeeps ==
    ASSUME Typed, ListenerInv, program = "cli", CliNext, UNCHANGED <<program, trayVars>>
    PROVE  Typed' /\ ListenerInv'
<1>0. /\ thread \in [Sessions -> Stages] /\ running \in [Sessions -> BOOLEAN]
      /\ command \in {"host", "loopback"} /\ interrupted \in BOOLEAN
      /\ main_running \in BOOLEAN /\ ptt_active \in BOOLEAN
      /\ listener \in {"none", "reading", "ended"} /\ 1 \in Sessions
  BY DEF Typed, TypeOK, Sessions
<1>1. ASSUME thread' \in [Sessions -> Stages], running' \in [Sessions -> BOOLEAN],
             command' = command, interrupted' \in BOOLEAN, main_running' \in BOOLEAN,
             ptt_active' \in BOOLEAN, listener' \in {"none", "reading", "ended"}
      PROVE  Typed'
  BY <1>1 DEF Typed, TypeOK, trayVars
<1>2. CASE CtrlC
  BY <1>0, <1>1, <1>2 DEF CtrlC, ListenerInv
<1>3. ASSUME NEW ptt \in BOOLEAN, CallRun(ptt)
      PROVE  Typed' /\ ListenerInv'
  <2>1. /\ thread[1] = "none" /\ thread' \in [Sessions -> Stages]
        /\ thread'[1] = "spawned"
    BY <1>0, <1>3 DEF CallRun, Moves, Stages
  <2>2. listener' \in {"none", "reading", "ended"} /\ command = "host"
        /\ UNCHANGED <<command, main_running, interrupted, ptt_active, extra, running>>
    BY <1>3 DEF CallRun
  <2>3. QED
    BY <1>0, <1>1, <2>1, <2>2 DEF ListenerInv
<1>4. CASE SessionRuns \/ LoopbackStarts
  <2>1. Run(1) /\ UNCHANGED cliVars
    BY <1>4 DEF SessionRuns, LoopbackStarts, Run
  <2>2. /\ thread' \in [Sessions -> Stages] /\ running' \in [Sessions -> BOOLEAN]
        /\ thread[1] # "none" /\ thread'[1] # "none"
    BY <1>0, <2>1, RunTypes
  <2>3. QED
    BY <1>0, <1>1, <2>1, <2>2 DEF ListenerInv, cliVars
<1>5. CASE LoopbackBegin
  <2>1. thread[1] = "none" /\ thread' \in [Sessions -> Stages] /\ thread'[1] = "bound"
    BY <1>0, <1>5 DEF LoopbackBegin, Moves, Stages
  <2>2. /\ main_running' = TRUE /\ command = "loopback"
        /\ UNCHANGED <<command, interrupted, listener, ptt_active, extra, running>>
    BY <1>5 DEF LoopbackBegin
  <2>3. QED
    BY <1>0, <1>1, <2>1, <2>2 DEF ListenerInv
<1>6. CASE LoopbackEnds
  <2>1. /\ thread[1] = "loop" /\ thread' \in [Sessions -> Stages]
        /\ thread'[1] = "returned" /\ UNCHANGED <<cliVars, running>>
    BY <1>0, <1>6 DEF LoopbackEnds, Moves, Stages
  <2>2. QED
    BY <1>0, <1>1, <2>1 DEF ListenerInv, cliVars
<1>7. CASE MainReturns
  <2>1. /\ thread[1] = "returned" /\ thread' \in [Sessions -> Stages]
        /\ thread'[1] = "done" /\ listener' = "none"
        /\ UNCHANGED <<command, main_running, interrupted, ptt_active, extra, running>>
    BY <1>0, <1>7 DEF MainReturns, Moves, Stages
  <2>2. QED
    BY <1>0, <1>1, <2>1 DEF ListenerInv
<1>8. ASSUME NEW ok \in BOOLEAN, ReadLine(ok)
      PROVE  Typed' /\ ListenerInv'
  <2>1. /\ listener = "reading" /\ ptt_active' = (ptt_active # ok)
        /\ extra' = IF ok /\ interrupted /\ extra < 2 THEN extra + 1 ELSE extra
        /\ listener' = IF main_running THEN "reading" ELSE "ended"
        /\ UNCHANGED <<command, main_running, interrupted, running, thread>>
    BY <1>8 DEF ReadLine
  <2>2. extra = 0 /\ thread[1] # "none" /\ command = "host"
    BY <2>1 DEF ListenerInv
  <2>3. extra' \in {0, 1} /\ (main_running => extra' = 0)
    BY <2>1, <2>2 DEF ListenerInv
  <2>4. Typed'
    BY <1>0, <1>1, <2>1
  <2>5. QED
    BY <2>1, <2>2, <2>3, <2>4 DEF ListenerInv
<1>9. QED
  BY <1>2, <1>3, <1>4, <1>5, <1>6, <1>7, <1>8 DEF CliNext, MainThread

\* The invariant holds in every state.
THEOREM AppInvariant == Spec => []AppInv
<1>1. AppInv /\ [Next]_vars => AppInv'
  <2> SUFFICES ASSUME AppInv, [Next]_vars PROVE AppInv'
    OBVIOUS
  <2>0. Typed /\ TrayInv /\ ListenerInv
    BY DEF AppInv
  <2>1. CASE program = "tray" /\ TrayNext /\ UNCHANGED <<program, cliVars>>
    <3>1. Typed' /\ TrayInv'
      BY <2>0, <2>1, TrayKeeps
    <3>2. ListenerInv'
      BY <2>0, <2>1, TrayKeepsListener
    <3>3. QED
      BY <3>1, <3>2 DEF AppInv
  <2>2. CASE program = "cli" /\ CliNext /\ UNCHANGED <<program, trayVars>>
    <3>1. Typed' /\ ListenerInv'
      BY <2>0, <2>2, CliKeeps
    <3>2. program' # "tray"
      BY <2>2
    <3>3. QED
      BY <3>1, <3>2 DEF AppInv, TrayInv
  <2>3. CASE UNCHANGED vars
    BY <2>0, <2>3 DEF vars, trayVars, cliVars, AppInv, Typed, TypeOK, TrayInv, Held,
                      ListenerInv
  <2>4. QED
    BY <2>1, <2>2, <2>3 DEF Next
<1>2. QED
  BY <1>1, InitApps, PTL DEF Spec

\* Types of both applications, and that the screen always shows the session
\* that was started last.
THEOREM TypeCorrect == Spec => []TypeOK
<1>1. AppInv => TypeOK
  BY DEF AppInv, Typed
<1>2. QED
  BY <1>1, AppInvariant, PTL

\* A session whose flag is up is the one on the connected screen, or it was
\* left before run had raised the flag: the only way to lose hold of one.
THEOREM OrphansCorrect == Spec => []OrphansWereLeftEarly
<1>1. AppInv => OrphansWereLeftEarly
  BY DEF AppInv, TrayInv, Held, OrphansWereLeftEarly
<1>2. QED
  BY <1>1, AppInvariant, PTL

\* After Ctrl+C the push-to-talk listener switches at most once more.
THEOREM ListenerCorrect == Spec => []ListenerStops
<1>1. AppInv => ListenerStops
  BY DEF AppInv, ListenerInv, ListenerStops
<1>2. QED
  BY <1>1, AppInvariant, PTL
=============================================================================
