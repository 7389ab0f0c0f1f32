---------------------------- MODULE SystemProxy ----------------------------
(***************************************************************************)
(* The takeover of the operating system's proxy setting                    *)
(* (commands/proxy.rs, enable_system_proxy_impl and                        *)
(* disable_system_proxy_impl; system_proxy/*.rs; system_proxy_recovery.rs):*)
(* the user's original setting is captured, written to a recovery file and *)
(* only then replaced; it is restored by disable, by an orderly quit, or   *)
(* by the next launch after a crash.  ProxyLifecycle closes the system.    *)
(***************************************************************************)
EXTENDS Integers, FiniteSets

CONSTANTS
  Ops,    \* commands of the user interface or of an agent running at once
  Ports,  \* ports the proxy may listen on
  DefaultPort,
  User,   \* the setting the user had before AIProxy
  Mixed,  \* a setting left half written
  None    \* no snapshot, no file, no runtime, no lock holder

ASSUME ConfigAssumption ==
  /\ DefaultPort \in Ports
  /\ User # Mixed /\ User \notin Ports /\ Mixed \notin Ports
  /\ None \notin Ports \cup Ops \cup {User, Mixed}

\* An OS proxy setting: a port stands for 127.0.0.1:port.
Configs == Ports \cup {User, Mixed}

VARIABLES
  os,        \* the OS setting
  file,      \* pending-system-proxy-snapshot.json
  snapshot,  \* AppState.system_proxy_snapshot
  enabled,   \* status.system_proxy_enabled
  warning,   \* status.system_proxy_recovery_warning is set
  running,   \* status.running
  port,      \* status.port
  slock,     \* holder of system_proxy_op_lock
  plock,     \* holder of proxy_op_lock
  pc,        \* where a command is
  arg,       \* the port it works with
  held,      \* the snapshot it holds in a local variable
  told,      \* history: a failed write was reported after the last success
  excuse     \* history: what happened that the recovery file cannot cover

configVars == <<os, file, snapshot>>
statusVars == <<enabled, warning, running, port>>
lockVars == <<slock, plock>>
localVars == <<arg, held>>
historyVars == <<told, excuse>>

InitSystemProxy ==
  /\ os = User /\ file = None /\ snapshot = None
  /\ enabled = FALSE /\ warning = FALSE /\ running = FALSE /\ port = DefaultPort
  /\ slock = None /\ plock = None
  /\ pc = [o \in Ops |-> "idle"]
  /\ arg = [o \in Ops |-> None] /\ held = [o \in Ops |-> None]
  /\ told = FALSE /\ excuse = {}

-----------------------------------------------------------------------------
Goto(o, to) == pc' = [pc EXCEPT ![o] = to]
Step(o, from, to) == pc[o] = from /\ Goto(o, to)

\* The command returns; its locals are gone and its locks released.
Return(o) ==
  /\ Goto(o, "idle")
  /\ arg' = [arg EXCEPT ![o] = None] /\ held' = [held EXCEPT ![o] = None]
  /\ slock' = (IF slock = o THEN None ELSE slock)
  /\ plock' = (IF plock = o THEN None ELSE plock)

\* apply_system_proxy_settings_with_pre_snapshot: several writes; on failure
\* they are rolled back, and the rollback may fail too.
ApplyOk(p) == os' = p /\ told' = FALSE
ApplyRolledBack == UNCHANGED os /\ told' = TRUE
ApplyTorn == os' = Mixed /\ told' = TRUE

\* restore_system_proxy: several writes, not rolled back.
RestoreOk(config) == os' = config /\ told' = FALSE
RestoreFailed == os' \in {os, Mixed} /\ told' = TRUE

-----------------------------------------------------------------------------
(* enable_system_proxy_impl                                                *)

EnableCall(o) ==
  /\ Step(o, "idle", "enableLock")
  /\ UNCHANGED <<configVars, statusVars, lockVars, localVars, historyVars>>

EnableLock(o) ==
  /\ slock = None /\ slock' = o
  /\ Step(o, "enableLock", "enableCheck")
  /\ UNCHANGED <<configVars, statusVars, plock, localVars, historyVars>>

\* The status is read once; the port is used until the end of the command.
EnableCheck(o) ==
  /\ pc[o] = "enableCheck"
  /\ \/ ~running /\ Return(o)
     \/ /\ running /\ arg' = [arg EXCEPT ![o] = port]
        /\ Goto(o, IF snapshot # None THEN "enableReapply" ELSE "enableCapture")
        /\ UNCHANGED <<lockVars, held>>
  /\ UNCHANGED <<configVars, statusVars, historyVars>>

EnableReapply(o) ==
  /\ pc[o] = "enableReapply"
  /\ \/ ApplyOk(arg[o]) /\ Goto(o, "enableStored") /\ UNCHANGED <<lockVars, localVars>>
     \/ (ApplyRolledBack \/ ApplyTorn) /\ Return(o)
  /\ UNCHANGED <<file, snapshot, statusVars, excuse>>

EnableCapture(o) ==
  /\ pc[o] = "enableCapture"
  /\ \/ /\ held' = [held EXCEPT ![o] = os]
        /\ Goto(o, "enablePersist") /\ UNCHANGED <<lockVars, arg>>
     \/ Return(o)
  /\ UNCHANGED <<configVars, statusVars, historyVars>>

M_PersistLater(o) ==
  /\ Step(o, "enablePersist", "enableApply")
  /\ UNCHANGED <<configVars, statusVars, lockVars, localVars, historyVars>>

\* persist_pending_snapshot; write_atomic leaves the old file or the new one.
EnablePersist(o) ==
  /\ pc[o] = "enablePersist"
  /\ \/ file' = held[o] /\ Goto(o, "enableApply") /\ UNCHANGED <<lockVars, localVars>>
     \/ Return(o) /\ UNCHANGED file
  /\ UNCHANGED <<os, snapshot, statusVars, historyVars>>

\* The recovery file of a failed first apply stays behind.  When the rollback
\* failed as well, no snapshot is registered and a later command captures or
\* discards what is there.
EnableApply(o) ==
  /\ pc[o] = "enableApply"
  /\ \/ ApplyOk(arg[o]) /\ Goto(o, "enableStore") /\ UNCHANGED <<lockVars, localVars, excuse>>
     \/ ApplyRolledBack /\ Return(o) /\ UNCHANGED excuse
     \/ ApplyTorn /\ Return(o) /\ excuse' = excuse \cup {"torn"}
  /\ UNCHANGED <<file, snapshot, statusVars>>

\* store_system_proxy_snapshot keeps a snapshot that is already there.
StoreSnapshot(o) == IF snapshot = None THEN held[o] ELSE snapshot

EnableStore(o) ==
  /\ Step(o, "enableStore", "enableStored")
  /\ snapshot' = StoreSnapshot(o)
  /\ held' = [held EXCEPT ![o] = None]
  /\ UNCHANGED <<os, file, statusVars, lockVars, arg, historyVars>>

\* The warning is cleared before the preference is saved.
EnableStored(o) ==
  /\ Step(o, "enableStored", "enableFlag")
  /\ warning' = FALSE
  /\ UNCHANGED <<configVars, enabled, running, port, lockVars, localVars, historyVars>>

\* The flag is set whether or not the preference could be saved.
EnableFlag(o) ==
  /\ pc[o] = "enableFlag" /\ Return(o)
  /\ enabled' = TRUE
  /\ warning' \in {warning, TRUE}
  /\ UNCHANGED <<configVars, running, port, historyVars>>

-----------------------------------------------------------------------------
(* disable_system_proxy_impl, called by the user or, under proxy_op_lock,  *)
(* by stop_proxy_impl.                                                     *)

DisableCall(o) ==
  /\ Step(o, "idle", "disableLock")
  /\ UNCHANGED <<configVars, statusVars, lockVars, localVars, historyVars>>

DisableLock(o) ==
  /\ slock = None /\ slock' = o
  /\ Step(o, "disableLock", "disableTake")
  /\ UNCHANGED <<configVars, statusVars, plock, localVars, historyVars>>

DisableTake(o) ==
  /\ Step(o, "disableTake", IF snapshot # None THEN "disableRestore" ELSE "disableClear")
  /\ held' = [held EXCEPT ![o] = snapshot]
  /\ snapshot' = None
  /\ UNCHANGED <<os, file, statusVars, lockVars, arg, historyVars>>

\* disable returns: a caller that holds proxy_op_lock is stop_proxy_impl, which
\* goes on.
Disabled(o, stopGoesOn) ==
  \/ plock # o /\ Return(o)
  \/ /\ plock = o /\ Goto(o, stopGoesOn) /\ slock' = None
     /\ held' = [held EXCEPT ![o] = None] /\ UNCHANGED <<plock, arg>>

\* After a failed restore the snapshot is put back for a later attempt.
PutBack(o) == StoreSnapshot(o)

DisableRestore(o) ==
  /\ pc[o] = "disableRestore"
  /\ \/ /\ RestoreOk(held[o]) /\ Goto(o, "disableClear")
        /\ held' = [held EXCEPT ![o] = None]
        /\ UNCHANGED <<snapshot, lockVars, arg>>
     \/ RestoreFailed /\ snapshot' = PutBack(o) /\ Disabled(o, "stopWarn")
  /\ UNCHANGED <<file, statusVars, excuse>>

\* clear_pending_snapshot; a failure is only logged.
DisableClear(o) ==
  /\ Step(o, "disableClear", "disableFlag")
  /\ file' \in {None, file}
  /\ UNCHANGED <<os, snapshot, statusVars, lockVars, localVars, historyVars>>

\* set_system_proxy_enabled(false) clears the warning; a preference that could
\* not be saved sets one.
DisableFlag(o) ==
  /\ pc[o] = "disableFlag" /\ Disabled(o, "stopShutdown")
  /\ enabled' = FALSE
  /\ warning' \in BOOLEAN
  /\ UNCHANGED <<configVars, running, port, historyVars>>

SystemProxyStep(o) ==
  \/ EnableLock(o) \/ EnableCheck(o) \/ EnableReapply(o) \/ EnableCapture(o)
  \/ EnablePersist(o) \/ EnableApply(o) \/ EnableStore(o) \/ EnableStored(o) \/ EnableFlag(o)
  \/ DisableLock(o) \/ DisableTake(o) \/ DisableRestore(o) \/ DisableClear(o) \/ DisableFlag(o)

\* The steps during which the OS setting is being written.
WritePCs == {"enableReapply", "enableApply", "disableRestore", "startReapply", "exitRestore"}

=============================================================================
