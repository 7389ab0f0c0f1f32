--------------------------- MODULE ProxyLifecycle ---------------------------
(***************************************************************************)
(* The life of the desktop process and of its proxy server: start, restart *)
(* and stop (commands/proxy.rs), the quit cleanup and the recovery at      *)
(* launch (main.rs, system_proxy_recovery.rs), and crashes, composed with  *)
(* the system proxy commands of SystemProxy.  Commands run concurrently;   *)
(* proxy_op_lock serialises start and stop, system_proxy_op_lock the       *)
(* writes of the OS setting, and quitting takes neither.                   *)
(***************************************************************************)
EXTENDS SystemProxy

VARIABLES
  app,       \* "down" (not running), "up", or "exiting" (RunEvent::Exit)
  runtime,   \* AppState.runtime: the port of the installed server, or None
  listener,  \* the port a server task really listens on, or None
  armed      \* StartFailureRollback of a command

serverVars == <<runtime, listener>>
vars == <<os, file, snapshot, enabled, warning, running, port, slock, plock, pc, arg,
          held, told, excuse, app, runtime, listener, armed>>

Init ==
  /\ InitSystemProxy
  /\ app = "down" /\ runtime = None /\ listener = None
  /\ armed = [o \in Ops |-> FALSE]

-----------------------------------------------------------------------------
(* start_proxy_impl and restart_proxy_with_ssl_override                    *)

StartCall(o, p) ==
  /\ Step(o, "idle", "startLock")
  /\ arg' = [arg EXCEPT ![o] = p]
  /\ UNCHANGED <<configVars, statusVars, lockVars, held, historyVars, serverVars, armed>>

\* The status is read before proxy_op_lock is taken.
RestartCall(o) ==
  /\ running
  /\ Step(o, "idle", "startLock")
  /\ arg' = [arg EXCEPT ![o] = port]
  /\ UNCHANGED <<configVars, statusVars, lockVars, held, historyVars, serverVars, armed>>

StartLock(o) ==
  /\ plock = None /\ plock' = o
  /\ Step(o, "startLock", "startShutdown")
  /\ UNCHANGED <<configVars, statusVars, slock, localVars, historyVars, serverVars, armed>>

M_NeverArmed == FALSE

\* A failed start resets the status when there was something to tear down.
ArmRollback == running \/ runtime # None

\* take_runtime; without a runtime there is nothing to shut down.
StartShutdown(o) ==
  /\ Step(o, "startShutdown", IF runtime # None THEN "startDrain" ELSE "startBind")
  /\ armed' = [armed EXCEPT ![o] = ArmRollback]
  /\ runtime' = None
  /\ UNCHANGED <<configVars, statusVars, lockVars, localVars, historyVars, listener>>

\* ProxyServerHandle.shutdown, then the collector for at most its grace.
StartDrain(o) ==
  /\ Step(o, "startDrain", "startBind")
  /\ listener' = None
  /\ UNCHANGED <<configVars, statusVars, lockVars, localVars, historyVars, runtime, armed>>

StartBind(o) ==
  /\ Step(o, "startBind", "startInstall")
  /\ listener' = arg[o]
  /\ UNCHANGED <<configVars, statusVars, lockVars, localVars, historyVars, runtime, armed>>

\* No root certificate, an invalid upstream proxy, or the port is taken.
\* rollback_failed_start runs before proxy_op_lock is released.
StartFail(o) ==
  /\ pc[o] = "startBind" /\ Return(o)
  /\ running' = (running /\ ~armed[o])
  /\ warning' = (warning \/ (armed[o] /\ enabled))
  /\ armed' = [armed EXCEPT ![o] = FALSE]
  /\ UNCHANGED <<configVars, enabled, port, historyVars, serverVars>>

StartInstall(o) ==
  /\ Step(o, "startInstall", "startStatus")
  /\ runtime' = arg[o]
  /\ UNCHANGED <<configVars, statusVars, lockVars, localVars, historyVars, listener, armed>>

StartStatus(o) ==
  /\ Step(o, "startStatus", "startReapplyLock")
  /\ running' = TRUE /\ port' = arg[o]
  /\ UNCHANGED <<configVars, enabled, warning, lockVars, localVars, historyVars, serverVars,
                 armed>>

M_CheckFlagFirst(o) ==
  /\ pc[o] = "startReapplyLock"
  /\ \/ /\ enabled /\ slock = None /\ slock' = o /\ Goto(o, "startReapply")
        /\ UNCHANGED <<plock, localVars, armed>>
     \/ ~enabled /\ Return(o) /\ armed' = [armed EXCEPT ![o] = FALSE]
  /\ UNCHANGED <<configVars, statusVars, historyVars, serverVars>>

\* The flag is read once system_proxy_op_lock is held.
StartReapplyLock(o) ==
  /\ pc[o] = "startReapplyLock" /\ slock = None
  /\ \/ /\ enabled /\ slock' = o /\ Goto(o, "startReapply")
        /\ UNCHANGED <<plock, localVars, armed>>
     \/ ~enabled /\ Return(o) /\ armed' = [armed EXCEPT ![o] = FALSE]
  /\ UNCHANGED <<configVars, statusVars, historyVars, serverVars>>

\* A failed apply is reported by the system-proxy-warning event and the start
\* succeeds all the same.
StartReapply(o) ==
  /\ pc[o] = "startReapply" /\ Return(o)
  /\ armed' = [armed EXCEPT ![o] = FALSE]
  /\ ApplyOk(arg[o]) \/ ApplyRolledBack \/ ApplyTorn
  /\ UNCHANGED <<file, snapshot, statusVars, excuse, serverVars>>

-----------------------------------------------------------------------------
(* stop_proxy_impl                                                         *)

StopCall(o) ==
  /\ Step(o, "idle", "stopLock")
  /\ UNCHANGED <<configVars, statusVars, lockVars, localVars, historyVars, serverVars, armed>>

StopLock(o) ==
  /\ plock = None /\ plock' = o
  /\ Step(o, "stopLock", "stopCheck")
  /\ UNCHANGED <<configVars, statusVars, slock, localVars, historyVars, serverVars, armed>>

M_StopHoldsBoth(o) ==
  /\ Step(o, "stopCheck", IF enabled THEN "disableLock" ELSE "stopShutdown")
  /\ enabled => slock = None
  /\ slock' = IF enabled THEN o ELSE slock
  /\ UNCHANGED <<configVars, statusVars, plock, localVars, historyVars, serverVars, armed>>

\* The flag is read without system_proxy_op_lock.
StopCheck(o) ==
  /\ Step(o, "stopCheck", IF enabled THEN "disableLock" ELSE "stopShutdown")
  /\ UNCHANGED <<configVars, statusVars, lockVars, localVars, historyVars, serverVars, armed>>

\* The original setting could not be restored: warn and go on.
StopWarn(o) ==
  /\ Step(o, "stopWarn", "stopShutdown")
  /\ warning' = TRUE
  /\ UNCHANGED <<configVars, enabled, running, port, lockVars, localVars, historyVars,
                 serverVars, armed>>

StopShutdown(o) ==
  /\ Step(o, "stopShutdown", IF runtime # None THEN "stopDrain" ELSE "stopStatus")
  /\ runtime' = None
  /\ UNCHANGED <<configVars, statusVars, lockVars, localVars, historyVars, listener, armed>>

StopDrain(o) ==
  /\ Step(o, "stopDrain", "stopStatus")
  /\ listener' = None
  /\ UNCHANGED <<configVars, statusVars, lockVars, localVars, historyVars, runtime, armed>>

StopStatus(o) ==
  /\ pc[o] = "stopStatus" /\ Return(o)
  /\ running' = FALSE
  /\ UNCHANGED <<configVars, enabled, warning, port, historyVars, serverVars, armed>>

-----------------------------------------------------------------------------
(* run_heavy_shutdown_cleanup: on the main thread, while the commands that *)
(* were running go on.  It uses no lock.                                   *)

Quit(o) ==
  /\ app = "up" /\ app' = "exiting"
  /\ Step(o, "idle", "exitStop")
  /\ excuse' = IF \E other \in Ops \ {o} : pc[other] # "idle"
               THEN excuse \cup {"busyQuit"} ELSE excuse
  /\ UNCHANGED <<configVars, statusVars, lockVars, localVars, told, serverVars, armed>>

ExitStop(o) ==
  /\ Step(o, "exitStop", "exitTake")
  /\ runtime' = None
  /\ listener' = IF runtime # None THEN None ELSE listener
  /\ running' = (running /\ runtime = None)
  /\ UNCHANGED <<configVars, enabled, warning, port, lockVars, localVars, historyVars, armed>>

ExitTake(o) ==
  /\ Step(o, "exitTake", IF snapshot # None THEN "exitRestore" ELSE "exitDone")
  /\ held' = [held EXCEPT ![o] = snapshot]
  /\ snapshot' = None
  /\ enabled' = (enabled /\ snapshot # None)
  /\ warning' = (warning /\ enabled')
  /\ UNCHANGED <<os, file, running, port, lockVars, arg, historyVars, serverVars, armed>>

ExitRestore(o) ==
  /\ pc[o] = "exitRestore"
  /\ held' = [held EXCEPT ![o] = None]
  /\ \/ /\ RestoreOk(held[o]) /\ Goto(o, "exitClear")
        /\ enabled' = FALSE /\ warning' = FALSE /\ UNCHANGED snapshot
     \/ /\ RestoreFailed /\ Goto(o, "exitDone")
        /\ snapshot' = PutBack(o) /\ UNCHANGED <<enabled, warning>>
  /\ UNCHANGED <<file, running, port, lockVars, arg, excuse, serverVars, armed>>

ExitClear(o) ==
  /\ Step(o, "exitClear", "exitDone")
  /\ file' \in {None, file}
  /\ UNCHANGED <<os, snapshot, statusVars, lockVars, localVars, historyVars, serverVars, armed>>

-----------------------------------------------------------------------------
(* The process.                                                            *)

\* Everything but the OS setting and the recovery file is lost.
Die ==
  /\ app' = "down"
  /\ snapshot' = None
  /\ enabled' = FALSE /\ warning' = FALSE /\ running' = FALSE
  /\ port' = DefaultPort
  /\ slock' = None /\ plock' = None
  /\ pc' = [o \in Ops |-> "idle"]
  /\ arg' = [o \in Ops |-> None] /\ held' = [o \in Ops |-> None]
  /\ armed' = [o \in Ops |-> FALSE]
  /\ runtime' = None /\ listener' = None /\ told' = FALSE
  /\ UNCHANGED <<file, excuse>>

ExitDone(o) == pc[o] = "exitDone" /\ Die /\ UNCHANGED os

\* A crash in the middle of the writes leaves a mixture.
Crash ==
  /\ app # "down" /\ Die
  /\ os' \in {os} \cup (IF \E o \in Ops : pc[o] \in WritePCs THEN {Mixed} ELSE {})

\* restore_pending_snapshot_on_startup, with a recovery file.
RestorePending ==
  /\ file # None
  /\ \/ /\ RestoreOk(file) /\ file' \in {None, file}
        /\ UNCHANGED <<snapshot, enabled, warning, excuse>>
     \/ /\ RestoreFailed
        /\ snapshot' = file /\ enabled' = TRUE /\ warning' = TRUE
        /\ UNCHANGED <<file, excuse>>
     \/ \* unreadable
        /\ warning' = TRUE /\ excuse' = excuse \cup {"torn"}
        /\ UNCHANGED <<os, file, snapshot, enabled, told>>

\* Launch: recovery runs before any command.
Launch ==
  /\ app = "down" /\ app' = "up"
  /\ \/ RestorePending
     \/ file = None /\ UNCHANGED <<configVars, enabled, warning, historyVars>>
  /\ UNCHANGED <<running, port, lockVars, pc, localVars, serverVars, armed>>

-----------------------------------------------------------------------------
Call(o) ==
  /\ app = "up" /\ UNCHANGED app
  /\ \/ (EnableCall(o) \/ DisableCall(o)) /\ UNCHANGED <<serverVars, armed>>
     \/ \E p \in Ports : StartCall(o, p)
     \/ RestartCall(o) \/ StopCall(o)

CommandStep(o) ==
  /\ UNCHANGED app
  /\ \/ SystemProxyStep(o) /\ UNCHANGED <<serverVars, armed>>
     \/ StartLock(o) \/ StartShutdown(o) \/ StartDrain(o) \/ StartBind(o) \/ StartFail(o)
     \/ StartInstall(o) \/ StartStatus(o) \/ StartReapplyLock(o) \/ StartReapply(o)
     \/ StopLock(o) \/ StopCheck(o) \/ StopWarn(o) \/ StopShutdown(o) \/ StopDrain(o)
     \/ StopStatus(o)
     \/ ExitStop(o) \/ ExitTake(o) \/ ExitRestore(o) \/ ExitClear(o)

Next ==
  \/ \E o \in Ops : Call(o) \/ CommandStep(o) \/ Quit(o) \/ ExitDone(o)
  \/ Crash \/ Launch

Spec == Init /\ [][Next]_vars

\* Tokio runs every ready task, its mutexes are fair, blocking OS calls and the
\* drain of the collector end.  Nothing is assumed of the user or of crashes.
FairSpec ==
  Spec /\ \A o \in Ops : SF_vars(CommandStep(o)) /\ WF_vars(ExitDone(o))

-----------------------------------------------------------------------------
PCs == {"idle", "enableLock", "enableCheck", "enableReapply", "enableCapture",
        "enablePersist", "enableApply", "enableStore", "enableStored", "enableFlag",
        "disableLock", "disableTake", "disableRestore", "disableClear", "disableFlag",
        "startLock", "startShutdown", "startDrain", "startBind", "startInstall",
        "startStatus", "startReapplyLock", "startReapply",
        "stopLock", "stopCheck", "stopWarn", "stopShutdown", "stopDrain", "stopStatus",
        "exitStop", "exitTake", "exitRestore", "exitClear", "exitDone"}

TypeOK ==
  /\ os \in Configs /\ file \in Configs \cup {None} /\ snapshot \in Configs \cup {None}
  /\ enabled \in BOOLEAN /\ warning \in BOOLEAN /\ running \in BOOLEAN /\ port \in Ports
  /\ slock \in Ops \cup {None} /\ plock \in Ops \cup {None}
  /\ pc \in [Ops -> PCs] /\ arg \in [Ops -> Ports \cup {None}] /\ held \in [Ops -> Configs \cup {None}]
  /\ told \in BOOLEAN /\ excuse \subseteq {"torn", "busyQuit"}
  /\ app \in {"down", "up", "exiting"}
  /\ runtime \in Ports \cup {None} /\ listener \in Ports \cup {None}
  /\ armed \in [Ops -> BOOLEAN]

\* Whenever no start or stop is under way, the status the user interface and
\* the agents read tells the truth about the server: running exactly when a
\* server is installed, on the port it listens on, and no listener is left
\* behind otherwise (the purpose of proxy_op_lock and StartFailureRollback).
StatusIsTrue ==
  app = "up" /\ plock = None =>
    /\ listener = runtime
    /\ IF running THEN runtime = port ELSE runtime = None

\* The user's original setting survives a crash at any point: while the OS
\* setting is anything else, the recovery file holds the original.  Excused
\* are a first takeover whose failure could not be rolled back, an unreadable
\* recovery file, and a quit during a running command.
OriginalOnDisk == excuse = {} /\ os # User => file = User

\* The flag shown to the user agrees with the snapshot that turning the system
\* proxy off needs, whenever no command is changing them.
FlagHasSnapshot ==
  app = "up" /\ slock = None => (enabled <=> snapshot # None)

\* With the system proxy on and the proxy running, the OS points at the port
\* the proxy really listens on, whatever enable and restart did to each other,
\* unless a failed write has been reported.
RouteIsLive ==
  app = "up" /\ slock = None /\ plock = None /\ enabled /\ running => os = port \/ told

\* Every command returns: the two locks are always taken in the same order.
EveryCommandReturns == \A o \in Ops : pc[o] # "idle" ~> pc[o] = "idle"

\* The comment in stop_proxy_impl, "leaving the OS routed to it would break
\* network access after shutdown": once the proxy has stopped, the OS no longer
\* points at it, or the user has been told.
StoppedNotRouted ==
  excuse = {} /\ app = "up" /\ slock = None /\ plock = None /\ ~running =>
    os \notin Ports \/ warning \/ told

=============================================================================
