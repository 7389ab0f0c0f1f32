-------------------------- MODULE LifecycleProofs --------------------------
(***************************************************************************)
(* Proofs about ProxyLifecycle for any number of concurrent commands and   *)
(* of ports.                                                               *)
(***************************************************************************)
EXTENDS ProxyLifecycle, TLAPS

\* Where a command holds system_proxy_op_lock, where it holds proxy_op_lock
\* (disable does when stop called it), and the steps of the quit cleanup.
EnablePCs == {"enableReapply", "enableCapture", "enablePersist", "enableApply",
              "enableStore", "enableStored", "enableFlag"}
DisablePCs == {"disableTake", "disableRestore", "disableClear", "disableFlag"}
SystemPCs == {"enableCheck", "startReapply"} \cup EnablePCs \cup DisablePCs
StartPCs == {"startShutdown", "startDrain", "startBind", "startInstall", "startStatus",
             "startReapplyLock", "startReapply"}
StopPCs == {"stopCheck", "stopWarn", "stopShutdown", "stopDrain", "stopStatus"}
ProxyPCs == StartPCs \cup StopPCs
ExitPCs == {"exitStop", "exitTake", "exitRestore", "exitClear", "exitDone"}

\* A command has the port and the snapshot it is about to use.
LocalInv ==
  \A o \in Ops :
    /\ pc[o] \in {"startLock"} \cup StartPCs \cup EnablePCs => arg[o] # None
    /\ pc[o] \in {"enablePersist", "enableApply", "enableStore", "disableRestore",
                  "exitRestore"} => held[o] # None

\* The locks are held exactly where the code says.
LockInv ==
  /\ \A o \in Ops : pc[o] \in SystemPCs <=> slock = o
  /\ \A o \in Ops : pc[o] \in ProxyPCs => plock = o
  /\ \A o \in Ops : plock = o => pc[o] \in ProxyPCs \cup DisablePCs \cup {"disableLock"}
  /\ app = "up" => \A o \in Ops : pc[o] \notin ExitPCs
  /\ app = "down" => \A o \in Ops : pc[o] = "idle"

\* A process that is not running has no state.
DownInv ==
  app = "down" => /\ snapshot = None /\ ~enabled /\ ~running
                  /\ runtime = None /\ listener = None

\* The flag and the snapshot along enable and disable.
FlagInv ==
  app = "up" =>
    /\ slock = None => (enabled <=> snapshot # None)
    /\ \A o \in Ops :
         /\ pc[o] \in {"enableCheck", "enableReapply", "disableTake", "startReapply"} =>
              (enabled <=> snapshot # None)
         /\ pc[o] \in {"enableReapply", "enableStored", "enableFlag", "startReapply"} =>
              snapshot # None
         /\ pc[o] \in {"enableCapture", "enablePersist", "enableApply", "enableStore"} =>
              snapshot = None /\ ~enabled
         /\ pc[o] = "disableRestore" => snapshot = None /\ enabled
         /\ pc[o] \in {"disableClear", "disableFlag"} => snapshot = None

ServerTrue ==
  listener = runtime /\ IF running THEN runtime = port ELSE runtime = None

\* The server and its status along start and stop.
ServerInv ==
  app = "up" =>
    /\ plock = None => ServerTrue
    /\ \A o \in Ops :
         /\ plock = o /\ pc[o] \in {"startShutdown", "stopCheck", "stopWarn", "stopShutdown",
                                    "disableLock"} \cup DisablePCs => ServerTrue
         /\ pc[o] \in {"startDrain", "startBind", "startInstall", "stopDrain", "stopStatus"} =>
              runtime = None
         /\ pc[o] \in {"startBind", "stopStatus"} => listener = None
         /\ pc[o] \in {"startDrain", "startBind"} => (running => armed[o])
         /\ pc[o] \in {"startInstall", "startStatus"} => listener = arg[o]
         /\ pc[o] = "startStatus" => runtime = arg[o]
         /\ pc[o] \in {"startReapplyLock", "startReapply"} =>
              running /\ runtime = arg[o] /\ listener = arg[o] /\ port = arg[o]

\* Where the user's original setting is, as long as nothing excuses its loss.
OriginalInv ==
  excuse = {} =>
    /\ file \in {None, User} /\ snapshot \in {None, User}
    /\ \A o \in Ops : held[o] \in {None, User}
    /\ os # User \/ snapshot # None => file = User
    /\ app = "up" /\ slock = None /\ snapshot = None => os = User
    /\ app = "exiting" =>
         \E o \in Ops : pc[o] \in ExitPCs /\ \A p \in Ops \ {o} : pc[p] = "idle"
    /\ \A o \in Ops :
         /\ pc[o] \in {"enableCheck", "disableTake", "exitStop", "exitTake"}
              /\ snapshot = None => os = User
         /\ pc[o] \in {"enableCapture", "enablePersist", "enableApply", "disableClear",
                       "disableFlag", "exitClear"} => os = User
         /\ pc[o] \in {"enableApply", "enableStore", "disableRestore", "exitRestore"} =>
              file = User
         /\ pc[o] \in {"enableReapply", "enableStored", "enableFlag", "startReapply"} =>
              snapshot # None
         /\ pc[o] \in {"exitRestore", "exitClear"} => snapshot = None

\* The port the OS points at, between an enable and a start that changes it.
RouteInv ==
  app = "up" =>
    /\ \/ \E o \in Ops : pc[o] \in {"startReapplyLock", "startReapply"}
       \/ /\ slock = None /\ enabled /\ running => os = port \/ told
          /\ \A o \in Ops : pc[o] \in EnablePCs => arg[o] = port
    /\ \A o \in Ops : pc[o] \in {"enableStore", "enableStored", "enableFlag"} => os = arg[o]

USE ConfigAssumption

\* TypeOK in two parts, for provers of different strengths.
DataTyped ==
  /\ os \in Configs /\ file \in Configs \cup {None} /\ snapshot \in Configs \cup {None}
  /\ port \in Ports /\ slock \in Ops \cup {None} /\ plock \in Ops \cup {None}
  /\ pc \in [Ops -> PCs] /\ arg \in [Ops -> Ports \cup {None}]
  /\ held \in [Ops -> Configs \cup {None}]
  /\ excuse \subseteq {"torn", "busyQuit"} /\ app \in {"down", "up", "exiting"}
  /\ runtime \in Ports \cup {None} /\ listener \in Ports \cup {None}

BoolTyped ==
  /\ enabled \in BOOLEAN /\ warning \in BOOLEAN /\ running \in BOOLEAN
  /\ told \in BOOLEAN /\ armed \in [Ops -> BOOLEAN]

\* The types of the variables that are not Boolean.
LEMMA DataNext ==
  ASSUME DataTyped, LocalInv, [Next]_vars
  PROVE  DataTyped'
<1> USE DEF DataTyped, LocalInv, EnablePCs, StartPCs, Configs, PCs, configVars, statusVars,
            lockVars, localVars, historyVars, serverVars
<1>1. ASSUME NEW o \in Ops, CommandStep(o) PROVE DataTyped'
  <2>0. UNCHANGED app  BY <1>1 DEF CommandStep
  <2>1. CASE EnableLock(o) /\ UNCHANGED <<serverVars, armed>>  BY <2>1, <2>0 DEF EnableLock, Step, Goto
  <2>2. CASE EnableCheck(o) /\ UNCHANGED <<serverVars, armed>>  BY <2>2, <2>0 DEF EnableCheck, Goto, Return
  <2>3. CASE EnableReapply(o) /\ UNCHANGED <<serverVars, armed>>
    BY <2>3, <2>0 DEF EnableReapply, Goto, Return, ApplyOk, ApplyRolledBack, ApplyTorn
  <2>4. CASE EnableCapture(o) /\ UNCHANGED <<serverVars, armed>>  BY <2>4, <2>0 DEF EnableCapture, Goto, Return
  <2>5. CASE EnablePersist(o) /\ UNCHANGED <<serverVars, armed>>  BY <2>5, <2>0 DEF EnablePersist, Goto, Return
  <2>6. CASE EnableApply(o) /\ UNCHANGED <<serverVars, armed>>
    <3>1. excuse' \subseteq {"torn", "busyQuit"}  BY <2>6 DEF EnableApply
    <3>2. os' \in Configs  BY <2>6 DEF EnableApply, ApplyOk, ApplyRolledBack, ApplyTorn
    <3> QED BY <2>6, <2>0, <3>1, <3>2 DEF EnableApply, Goto, Return
  <2>7. CASE EnableStore(o) /\ UNCHANGED <<serverVars, armed>>  BY <2>7, <2>0 DEF EnableStore, StoreSnapshot, Step, Goto
  <2>8. CASE EnableStored(o) /\ UNCHANGED <<serverVars, armed>>  BY <2>8, <2>0 DEF EnableStored, Step, Goto
  <2>9. CASE EnableFlag(o) /\ UNCHANGED <<serverVars, armed>>  BY <2>9, <2>0 DEF EnableFlag, Return, Goto
  <2>10. CASE DisableLock(o) /\ UNCHANGED <<serverVars, armed>>  BY <2>10, <2>0 DEF DisableLock, Step, Goto
  <2>11. CASE DisableTake(o) /\ UNCHANGED <<serverVars, armed>>  BY <2>11, <2>0 DEF DisableTake, Step, Goto
  <2>12. CASE DisableRestore(o) /\ UNCHANGED <<serverVars, armed>>
    BY <2>12, <2>0 DEF DisableRestore, Disabled, PutBack, StoreSnapshot, RestoreOk,
         RestoreFailed, Return, Goto
  <2>13. CASE DisableClear(o) /\ UNCHANGED <<serverVars, armed>>  BY <2>13, <2>0 DEF DisableClear, Step, Goto
  <2>14. CASE DisableFlag(o) /\ UNCHANGED <<serverVars, armed>>  BY <2>14, <2>0 DEF DisableFlag, Disabled, Return, Goto
  <2>15. CASE StartLock(o)  BY <2>15, <2>0 DEF StartLock, Step, Goto
  <2>16. CASE StartShutdown(o)  BY <2>16, <2>0 DEF StartShutdown, ArmRollback, Step, Goto
  <2>17. CASE StartDrain(o)  BY <2>17, <2>0 DEF StartDrain, Step, Goto
  <2>18. CASE StartBind(o)  BY <2>18, <2>0 DEF StartBind, Step, Goto
  <2>19. CASE StartFail(o)  BY <2>19, <2>0 DEF StartFail, Return, Goto
  <2>20. CASE StartInstall(o)  BY <2>20, <2>0 DEF StartInstall, Step, Goto
  <2>21. CASE StartStatus(o)  BY <2>21, <2>0 DEF StartStatus, Step, Goto
  <2>22. CASE StartReapplyLock(o)  BY <2>22, <2>0 DEF StartReapplyLock, Return, Goto
  <2>23. CASE StartReapply(o)  BY <2>23, <2>0 DEF StartReapply, Return, Goto, ApplyOk, ApplyRolledBack, ApplyTorn
  <2>24. CASE StopLock(o)  BY <2>24, <2>0 DEF StopLock, Step, Goto
  <2>25. CASE StopCheck(o)  BY <2>25, <2>0 DEF StopCheck, Step, Goto
  <2>26. CASE StopWarn(o)  BY <2>26, <2>0 DEF StopWarn, Step, Goto
  <2>27. CASE StopShutdown(o)  BY <2>27, <2>0 DEF StopShutdown, Step, Goto
  <2>28. CASE StopDrain(o)  BY <2>28, <2>0 DEF StopDrain, Step, Goto
  <2>29. CASE StopStatus(o)  BY <2>29, <2>0 DEF StopStatus, Return, Goto
  <2>30. CASE ExitStop(o)  BY <2>30, <2>0 DEF ExitStop, Step, Goto
  <2>31. CASE ExitTake(o)  BY <2>31, <2>0 DEF ExitTake, Step, Goto
  <2>32. CASE ExitRestore(o)  BY <2>32, <2>0 DEF ExitRestore, PutBack, StoreSnapshot, RestoreOk, RestoreFailed, Goto
  <2>33. CASE ExitClear(o)  BY <2>33, <2>0 DEF ExitClear, Step, Goto
  <2> QED BY <1>1, <2>1, <2>2, <2>3, <2>4, <2>5, <2>6, <2>7, <2>8, <2>9, <2>10, <2>11, <2>12,
       <2>13, <2>14, <2>15, <2>16, <2>17, <2>18, <2>19, <2>20, <2>21, <2>22, <2>23, <2>24,
       <2>25, <2>26, <2>27, <2>28, <2>29, <2>30, <2>31, <2>32, <2>33 DEF CommandStep, SystemProxyStep
<1>2. ASSUME NEW o \in Ops, Call(o) PROVE DataTyped'
  <2>1. pc' \in [Ops -> PCs]  BY <1>2 DEF Call, EnableCall, DisableCall, StartCall, RestartCall, StopCall, Step, Goto
  <2>2. arg' \in [Ops -> Ports \cup {None}]  BY <1>2 DEF Call, EnableCall, DisableCall, StartCall, RestartCall, StopCall
  <2> QED BY <1>2, <2>1, <2>2, ZenonT(60) DEF Call, EnableCall, DisableCall, StartCall, RestartCall, StopCall
<1>3. ASSUME NEW o \in Ops, Quit(o) PROVE DataTyped'  BY <1>3 DEF Quit, Step, Goto
<1>4. ASSUME NEW o \in Ops, ExitDone(o) PROVE DataTyped'  BY <1>4 DEF ExitDone, Die
<1>5. CASE Crash  BY <1>5 DEF Crash, Die, WritePCs
<1>6. CASE Launch  BY <1>6, ZenonT(60) DEF Launch, RestorePending, RestoreOk, RestoreFailed
<1>7. CASE UNCHANGED vars  BY <1>7 DEF vars
<1> QED BY <1>1, <1>2, <1>3, <1>4, <1>5, <1>6, <1>7 DEF Next

\* The Boolean ones.
LEMMA BoolNext ==
  ASSUME BoolTyped, [Next]_vars
  PROVE  BoolTyped'
<1> USE DEF BoolTyped, configVars, statusVars, lockVars, localVars, historyVars, serverVars
<1>1. ASSUME NEW o \in Ops, CommandStep(o) PROVE BoolTyped'
  <2>0. UNCHANGED app  BY <1>1 DEF CommandStep
  <2>1. CASE (EnableLock(o) \/ EnableCheck(o)) /\ UNCHANGED <<serverVars, armed>>
    BY <2>1, <2>0 DEF EnableLock, Step, Goto, EnableCheck, Return
  <2>2. CASE EnableReapply(o) /\ UNCHANGED <<serverVars, armed>>
    BY <2>2, <2>0 DEF EnableReapply, Goto, Return, ApplyOk, ApplyRolledBack, ApplyTorn
  <2>3. CASE (EnableCapture(o) \/ EnablePersist(o)) /\ UNCHANGED <<serverVars, armed>>
    BY <2>3, <2>0 DEF EnableCapture, Goto, Return, EnablePersist
  <2>4. CASE EnableApply(o) /\ UNCHANGED <<serverVars, armed>>
    BY <2>4, <2>0 DEF EnableApply, Goto, Return, ApplyOk, ApplyRolledBack, ApplyTorn
  <2>5. CASE EnableStore(o) /\ UNCHANGED <<serverVars, armed>>  BY <2>5, <2>0 DEF EnableStore, StoreSnapshot, Step, Goto
  <2>6. CASE EnableStored(o) /\ UNCHANGED <<serverVars, armed>>  BY <2>6, <2>0 DEF EnableStored, Step, Goto
  <2>7. CASE EnableFlag(o) /\ UNCHANGED <<serverVars, armed>>  BY <2>7, <2>0 DEF EnableFlag, Return, Goto
  <2>8. CASE (DisableLock(o) \/ DisableTake(o) \/ DisableClear(o)) /\ UNCHANGED <<serverVars, armed>>
    BY <2>8, <2>0 DEF DisableLock, Step, Goto, DisableTake, DisableClear
  <2>9. CASE DisableRestore(o) /\ UNCHANGED <<serverVars, armed>>
    BY <2>9, <2>0 DEF DisableRestore, Disabled, PutBack, StoreSnapshot, RestoreOk,
         RestoreFailed, Return, Goto
  <2>10. CASE DisableFlag(o) /\ UNCHANGED <<serverVars, armed>>  BY <2>10, <2>0 DEF DisableFlag, Disabled, Return, Goto
  <2>11. CASE StartLock(o) \/ StartShutdown(o) \/ StartDrain(o) \/ StartBind(o)
    BY <2>11, <2>0 DEF StartLock, Step, Goto, StartShutdown, ArmRollback, StartDrain,
         StartBind
  <2>12. CASE StartFail(o)  BY <2>12, <2>0 DEF StartFail, Return, Goto
  <2>13. CASE StartInstall(o) \/ StartStatus(o)  BY <2>13, <2>0 DEF StartInstall, Step, Goto, StartStatus
  <2>14. CASE StartReapplyLock(o) \/ StartReapply(o)
    BY <2>14, <2>0 DEF StartReapplyLock, Return, Goto, StartReapply, ApplyOk,
         ApplyRolledBack, ApplyTorn
  <2>15. CASE StopLock(o) \/ StopCheck(o) \/ StopWarn(o)  BY <2>15, <2>0 DEF StopLock, Step, Goto, StopCheck, StopWarn
  <2>16. CASE StopShutdown(o) \/ StopDrain(o) \/ StopStatus(o)
    BY <2>16, <2>0 DEF StopShutdown, Step, Goto, StopDrain, StopStatus, Return
  <2>17. CASE ExitStop(o) \/ ExitTake(o)  BY <2>17, <2>0 DEF ExitStop, Step, Goto, ExitTake
  <2>18. CASE ExitRestore(o) \/ ExitClear(o)
    BY <2>18, <2>0 DEF ExitRestore, PutBack, StoreSnapshot, RestoreOk, RestoreFailed, Goto,
         ExitClear, Step
  <2> QED BY <1>1, <2>1, <2>2, <2>3, <2>4, <2>5, <2>6, <2>7, <2>8, <2>9, <2>10, <2>11, <2>12,
       <2>13, <2>14, <2>15, <2>16, <2>17, <2>18 DEF CommandStep, SystemProxyStep
<1>2. ASSUME NEW o \in Ops, Call(o) PROVE BoolTyped'
  BY <1>2 DEF Call, EnableCall, DisableCall, StartCall, RestartCall, StopCall, Step, Goto
<1>3. ASSUME NEW o \in Ops, Quit(o) PROVE BoolTyped'  BY <1>3 DEF Quit, Step, Goto
<1>4. ASSUME NEW o \in Ops, ExitDone(o) PROVE BoolTyped'  BY <1>4 DEF ExitDone, Die
<1>5. CASE Crash  BY <1>5 DEF Crash, Die, WritePCs
<1>6. CASE Launch  BY <1>6 DEF Launch, RestorePending, RestoreOk, RestoreFailed
<1>7. CASE UNCHANGED vars  BY <1>7 DEF vars
<1> QED BY <1>1, <1>2, <1>3, <1>4, <1>5, <1>6, <1>7 DEF Next

\* The locals a command is about to use, the two operation locks, and a process that ended.
LEMMA LockNext ==
  ASSUME DataTyped, LocalInv, LockInv, DownInv, [Next]_vars
  PROVE  LocalInv' /\ LockInv' /\ DownInv'
<1> USE DEF DataTyped, LocalInv, LockInv, DownInv, Configs, SystemPCs, EnablePCs, DisablePCs, ProxyPCs, StartPCs, StopPCs, ExitPCs,
            configVars, statusVars, lockVars, localVars, historyVars, serverVars
<1>1. ASSUME NEW o \in Ops, CommandStep(o) PROVE LocalInv' /\ LockInv' /\ DownInv'
  <2>0. UNCHANGED app  BY <1>1 DEF CommandStep
  <2>1. CASE (EnableLock(o) \/ EnableCheck(o)) /\ UNCHANGED <<serverVars, armed>>
    BY <2>1, <2>0 DEF EnableLock, Step, Goto, EnableCheck, Return
  <2>2. CASE EnableReapply(o) /\ UNCHANGED <<serverVars, armed>>
    BY <2>2, <2>0 DEF EnableReapply, Goto, Return, ApplyOk, ApplyRolledBack, ApplyTorn
  <2>3. CASE (EnableCapture(o) \/ EnablePersist(o)) /\ UNCHANGED <<serverVars, armed>>
    BY <2>3, <2>0 DEF EnableCapture, Goto, Return, EnablePersist
  <2>4. CASE EnableApply(o) /\ UNCHANGED <<serverVars, armed>>
    BY <2>4, <2>0 DEF EnableApply, Goto, Return, ApplyOk, ApplyRolledBack, ApplyTorn
  <2>5. CASE EnableStore(o) /\ UNCHANGED <<serverVars, armed>>  BY <2>5, <2>0 DEF EnableStore, StoreSnapshot, Step, Goto
  <2>6. CASE EnableStored(o) /\ UNCHANGED <<serverVars, armed>>  BY <2>6, <2>0 DEF EnableStored, Step, Goto
  <2>7. CASE EnableFlag(o) /\ UNCHANGED <<serverVars, armed>>  BY <2>7, <2>0 DEF EnableFlag, Return, Goto
  <2>8. CASE (DisableLock(o) \/ DisableTake(o) \/ DisableClear(o)) /\ UNCHANGED <<serverVars, armed>>
    BY <2>8, <2>0 DEF DisableLock, Step, Goto, DisableTake, DisableClear
  <2>9. CASE DisableRestore(o) /\ UNCHANGED <<serverVars, armed>>
    BY <2>9, <2>0 DEF DisableRestore, Disabled, PutBack, StoreSnapshot, RestoreOk,
         RestoreFailed, Return, Goto
  <2>10. CASE DisableFlag(o) /\ UNCHANGED <<serverVars, armed>>  BY <2>10, <2>0 DEF DisableFlag, Disabled, Return, Goto
  <2>11. CASE StartLock(o) \/ StartShutdown(o) \/ StartDrain(o) \/ StartBind(o)
    BY <2>11, <2>0 DEF StartLock, Step, Goto, StartShutdown, ArmRollback, StartDrain,
         StartBind
  <2>12. CASE StartFail(o)  BY <2>12, <2>0 DEF StartFail, Return, Goto
  <2>13. CASE StartInstall(o) \/ StartStatus(o)  BY <2>13, <2>0 DEF StartInstall, Step, Goto, StartStatus
  <2>14. CASE StartReapplyLock(o) \/ StartReapply(o)
    BY <2>14, <2>0 DEF StartReapplyLock, Return, Goto, StartReapply, ApplyOk,
         ApplyRolledBack, ApplyTorn
  <2>15. CASE StopLock(o) \/ StopCheck(o) \/ StopWarn(o)  BY <2>15, <2>0 DEF StopLock, Step, Goto, StopCheck, StopWarn
  <2>16. CASE StopShutdown(o) \/ StopDrain(o) \/ StopStatus(o)
    BY <2>16, <2>0 DEF StopShutdown, Step, Goto, StopDrain, StopStatus, Return
  <2>17. CASE ExitStop(o) \/ ExitTake(o)  BY <2>17, <2>0 DEF ExitStop, Step, Goto, ExitTake
  <2>18. CASE ExitRestore(o) \/ ExitClear(o)
    BY <2>18, <2>0 DEF ExitRestore, PutBack, StoreSnapshot, RestoreOk, RestoreFailed, Goto,
         ExitClear, Step
  <2> QED BY <1>1, <2>1, <2>2, <2>3, <2>4, <2>5, <2>6, <2>7, <2>8, <2>9, <2>10, <2>11, <2>12,
       <2>13, <2>14, <2>15, <2>16, <2>17, <2>18 DEF CommandStep, SystemProxyStep
<1>2. ASSUME NEW o \in Ops, Call(o) PROVE LocalInv' /\ LockInv' /\ DownInv'
  BY <1>2 DEF Call, EnableCall, DisableCall, StartCall, RestartCall, StopCall, Step, Goto
<1>3. ASSUME NEW o \in Ops, Quit(o) PROVE LocalInv' /\ LockInv' /\ DownInv'  BY <1>3 DEF Quit, Step, Goto
<1>4. ASSUME NEW o \in Ops, ExitDone(o) PROVE LocalInv' /\ LockInv' /\ DownInv'  BY <1>4 DEF ExitDone, Die
<1>5. CASE Crash  BY <1>5 DEF Crash, Die, WritePCs
<1>6. CASE Launch  BY <1>6 DEF Launch, RestorePending, RestoreOk, RestoreFailed
<1>7. CASE UNCHANGED vars  BY <1>7 DEF vars
<1> QED BY <1>1, <1>2, <1>3, <1>4, <1>5, <1>6, <1>7 DEF Next

\* Only the holder of system_proxy_op_lock changes the flag and the snapshot, and only the
\* holder of proxy_op_lock the server and its status; and the port in the OS setting.
LEMMA ServerNext ==
  ASSUME DataTyped, BoolTyped, LocalInv, LockInv, DownInv, FlagInv, ServerInv, RouteInv, [Next]_vars
  PROVE  FlagInv' /\ ServerInv' /\ RouteInv'
<1> USE DEF DataTyped, BoolTyped, LocalInv, LockInv, DownInv, FlagInv, ServerInv, RouteInv, ServerTrue,
            SystemPCs, EnablePCs, DisablePCs, ProxyPCs, StartPCs, StopPCs, ExitPCs, configVars, statusVars,
            lockVars, localVars, historyVars, serverVars
<1>1. ASSUME NEW o \in Ops, CommandStep(o) PROVE FlagInv' /\ ServerInv' /\ RouteInv'
  <2>0. UNCHANGED app  BY <1>1 DEF CommandStep
  <2>1. CASE (EnableLock(o) \/ EnableCheck(o)) /\ UNCHANGED <<serverVars, armed>>
    BY <2>1, <2>0 DEF EnableLock, Step, Goto, EnableCheck, Return
  <2>2. CASE EnableReapply(o) /\ UNCHANGED <<serverVars, armed>>
    BY <2>2, <2>0 DEF EnableReapply, Goto, Return, ApplyOk, ApplyRolledBack, ApplyTorn
  <2>3. CASE (EnableCapture(o) \/ EnablePersist(o)) /\ UNCHANGED <<serverVars, armed>>
    BY <2>3, <2>0 DEF EnableCapture, Goto, Return, EnablePersist
  <2>4. CASE EnableApply(o) /\ UNCHANGED <<serverVars, armed>>
    BY <2>4, <2>0 DEF EnableApply, Goto, Return, ApplyOk, ApplyRolledBack, ApplyTorn
  <2>5. CASE EnableStore(o) /\ UNCHANGED <<serverVars, armed>>  BY <2>5, <2>0 DEF EnableStore, StoreSnapshot, Step, Goto
  <2>6. CASE EnableStored(o) /\ UNCHANGED <<serverVars, armed>>  BY <2>6, <2>0 DEF EnableStored, Step, Goto
  <2>7. CASE EnableFlag(o) /\ UNCHANGED <<serverVars, armed>>  BY <2>7, <2>0 DEF EnableFlag, Return, Goto
  <2>8. CASE (DisableLock(o) \/ DisableTake(o) \/ DisableClear(o)) /\ UNCHANGED <<serverVars, armed>>
    BY <2>8, <2>0 DEF DisableLock, Step, Goto, DisableTake, DisableClear
  <2>9. CASE DisableRestore(o) /\ UNCHANGED <<serverVars, armed>>
    BY <2>9, <2>0 DEF DisableRestore, Disabled, PutBack, StoreSnapshot, RestoreOk,
         RestoreFailed, Return, Goto
  <2>10. CASE DisableFlag(o) /\ UNCHANGED <<serverVars, armed>>  BY <2>10, <2>0 DEF DisableFlag, Disabled, Return, Goto
  <2>11. CASE StartLock(o) \/ StartShutdown(o) \/ StartDrain(o) \/ StartBind(o)
    BY <2>11, <2>0 DEF StartLock, Step, Goto, StartShutdown, ArmRollback, StartDrain,
         StartBind
  <2>12. CASE StartFail(o)  BY <2>12, <2>0, ZenonT(60) DEF StartFail, Return, Goto
  <2>13. CASE StartInstall(o) \/ StartStatus(o)  BY <2>13, <2>0 DEF StartInstall, Step, Goto, StartStatus
  <2>14. CASE StartReapplyLock(o) \/ StartReapply(o)
    BY <2>14, <2>0 DEF StartReapplyLock, Return, Goto, StartReapply, ApplyOk,
         ApplyRolledBack, ApplyTorn
  <2>15. CASE StopLock(o) \/ StopCheck(o) \/ StopWarn(o)  BY <2>15, <2>0 DEF StopLock, Step, Goto, StopCheck, StopWarn
  <2>16. CASE StopShutdown(o) \/ StopDrain(o) \/ StopStatus(o)
    BY <2>16, <2>0 DEF StopShutdown, Step, Goto, StopDrain, StopStatus, Return
  <2>17. CASE ExitStop(o) \/ ExitTake(o)  BY <2>17, <2>0 DEF ExitStop, Step, Goto, ExitTake
  <2>18. CASE ExitRestore(o) \/ ExitClear(o)
    BY <2>18, <2>0 DEF ExitRestore, PutBack, StoreSnapshot, RestoreOk, RestoreFailed, Goto,
         ExitClear, Step
  <2> QED BY <1>1, <2>1, <2>2, <2>3, <2>4, <2>5, <2>6, <2>7, <2>8, <2>9, <2>10, <2>11, <2>12,
       <2>13, <2>14, <2>15, <2>16, <2>17, <2>18 DEF CommandStep, SystemProxyStep
<1>2. ASSUME NEW o \in Ops, Call(o) PROVE FlagInv' /\ ServerInv' /\ RouteInv'
  BY <1>2 DEF Call, EnableCall, DisableCall, StartCall, RestartCall, StopCall, Step, Goto
<1>3. ASSUME NEW o \in Ops, Quit(o) PROVE FlagInv' /\ ServerInv' /\ RouteInv'  BY <1>3 DEF Quit, Step, Goto
<1>4. ASSUME NEW o \in Ops, ExitDone(o) PROVE FlagInv' /\ ServerInv' /\ RouteInv'  BY <1>4 DEF ExitDone, Die
<1>5. CASE Crash  BY <1>5 DEF Crash, Die, WritePCs
<1>6. CASE Launch  BY <1>6 DEF Launch, RestorePending, RestoreOk, RestoreFailed
<1>7. CASE UNCHANGED vars  BY <1>7 DEF vars
<1> QED BY <1>1, <1>2, <1>3, <1>4, <1>5, <1>6, <1>7 DEF Next

\* The user's setting.
LEMMA OriginalNext ==
  ASSUME DataTyped, LocalInv, LockInv, DownInv, FlagInv, OriginalInv, [Next]_vars
  PROVE  OriginalInv'
<1> USE DEF DataTyped, LocalInv, LockInv, DownInv, FlagInv, OriginalInv, SystemPCs,
            EnablePCs, DisablePCs, ProxyPCs, StartPCs, StopPCs, ExitPCs, configVars, statusVars, lockVars,
            localVars, historyVars, serverVars
<1>1. ASSUME NEW o \in Ops, CommandStep(o) PROVE OriginalInv'
  <2>0. UNCHANGED app  BY <1>1 DEF CommandStep
  <2>1. CASE (EnableLock(o) \/ EnableCheck(o)) /\ UNCHANGED <<serverVars, armed>>
    BY <2>1, <2>0 DEF EnableLock, Step, Goto, EnableCheck, Return
  <2>2. CASE EnableReapply(o) /\ UNCHANGED <<serverVars, armed>>
    BY <2>2, <2>0 DEF EnableReapply, Goto, Return, ApplyOk, ApplyRolledBack, ApplyTorn
  <2>3. CASE (EnableCapture(o) \/ EnablePersist(o)) /\ UNCHANGED <<serverVars, armed>>
    BY <2>3, <2>0 DEF EnableCapture, Goto, Return, EnablePersist
  <2>4. CASE EnableApply(o) /\ UNCHANGED <<serverVars, armed>>
    BY <2>4, <2>0 DEF EnableApply, Goto, Return, ApplyOk, ApplyRolledBack, ApplyTorn
  <2>5. CASE EnableStore(o) /\ UNCHANGED <<serverVars, armed>>  BY <2>5, <2>0 DEF EnableStore, StoreSnapshot, Step, Goto
  <2>6. CASE EnableStored(o) /\ UNCHANGED <<serverVars, armed>>  BY <2>6, <2>0 DEF EnableStored, Step, Goto
  <2>7. CASE EnableFlag(o) /\ UNCHANGED <<serverVars, armed>>  BY <2>7, <2>0 DEF EnableFlag, Return, Goto
  <2>8. CASE (DisableLock(o) \/ DisableTake(o) \/ DisableClear(o)) /\ UNCHANGED <<serverVars, armed>>
    BY <2>8, <2>0 DEF DisableLock, Step, Goto, DisableTake, DisableClear
  <2>9. CASE DisableRestore(o) /\ UNCHANGED <<serverVars, armed>>
    BY <2>9, <2>0 DEF DisableRestore, Disabled, PutBack, StoreSnapshot, RestoreOk,
         RestoreFailed, Return, Goto
  <2>10. CASE DisableFlag(o) /\ UNCHANGED <<serverVars, armed>>  BY <2>10, <2>0 DEF DisableFlag, Disabled, Return, Goto
  <2>11. CASE StartLock(o) \/ StartShutdown(o) \/ StartDrain(o) \/ StartBind(o)
    BY <2>11, <2>0 DEF StartLock, Step, Goto, StartShutdown, ArmRollback, StartDrain,
         StartBind
  <2>12. CASE StartFail(o)  BY <2>12, <2>0 DEF StartFail, Return, Goto
  <2>13. CASE StartInstall(o) \/ StartStatus(o)  BY <2>13, <2>0 DEF StartInstall, Step, Goto, StartStatus
  <2>14. CASE StartReapplyLock(o) \/ StartReapply(o)
    BY <2>14, <2>0 DEF StartReapplyLock, Return, Goto, StartReapply, ApplyOk,
         ApplyRolledBack, ApplyTorn
  <2>15. CASE StopLock(o) \/ StopCheck(o) \/ StopWarn(o)  BY <2>15, <2>0 DEF StopLock, Step, Goto, StopCheck, StopWarn
  <2>16. CASE StopShutdown(o) \/ StopDrain(o) \/ StopStatus(o)
    BY <2>16, <2>0 DEF StopShutdown, Step, Goto, StopDrain, StopStatus, Return
  <2>17. CASE ExitStop(o) \/ ExitTake(o)  BY <2>17, <2>0 DEF ExitStop, Step, Goto, ExitTake
  <2>18. CASE ExitRestore(o) \/ ExitClear(o)
    BY <2>18, <2>0 DEF ExitRestore, PutBack, StoreSnapshot, RestoreOk, RestoreFailed, Goto,
         ExitClear, Step
  <2> QED BY <1>1, <2>1, <2>2, <2>3, <2>4, <2>5, <2>6, <2>7, <2>8, <2>9, <2>10, <2>11, <2>12,
       <2>13, <2>14, <2>15, <2>16, <2>17, <2>18 DEF CommandStep, SystemProxyStep
<1>2. ASSUME NEW o \in Ops, Call(o) PROVE OriginalInv'
  BY <1>2 DEF Call, EnableCall, DisableCall, StartCall, RestartCall, StopCall, Step, Goto
<1>3. ASSUME NEW o \in Ops, Quit(o) PROVE OriginalInv'  BY <1>3 DEF Quit, Step, Goto
<1>4. ASSUME NEW o \in Ops, ExitDone(o) PROVE OriginalInv'  BY <1>4 DEF ExitDone, Die
<1>5. CASE Crash  BY <1>5 DEF Crash, Die, WritePCs
<1>6. CASE Launch  BY <1>6 DEF Launch, RestorePending, RestoreOk, RestoreFailed
<1>7. CASE UNCHANGED vars  BY <1>7 DEF vars
<1> QED BY <1>1, <1>2, <1>3, <1>4, <1>5, <1>6, <1>7 DEF Next

-----------------------------------------------------------------------------
LifeInv ==
  /\ DataTyped /\ BoolTyped /\ LocalInv /\ LockInv /\ DownInv
  /\ FlagInv /\ ServerInv /\ OriginalInv /\ RouteInv

\* A fresh process, and a restarted one, satisfies the invariant.
LEMMA LifeInit == Init => LifeInv
<1> SUFFICES ASSUME Init PROVE LifeInv  OBVIOUS
<1> USE DEF Init, InitSystemProxy
<1>1. DataTyped /\ BoolTyped  BY DEF DataTyped, BoolTyped, Configs, PCs
<1>2. LocalInv /\ LockInv /\ DownInv
  BY DEF LocalInv, LockInv, DownInv, SystemPCs, EnablePCs, DisablePCs, ProxyPCs, StartPCs, StopPCs, ExitPCs
<1>3. FlagInv /\ ServerInv /\ RouteInv  BY DEF FlagInv, ServerInv, RouteInv
<1>4. OriginalInv  BY DEF OriginalInv
<1> QED BY <1>1, <1>2, <1>3, <1>4 DEF LifeInv

\* The invariant holds throughout, across crashes and restarts.
LEMMA LifeInvariant == Spec => []LifeInv
<1>1. LifeInv /\ [Next]_vars => LifeInv'
  <2> SUFFICES ASSUME LifeInv, [Next]_vars PROVE LifeInv'  OBVIOUS
  <2>1. /\ DataTyped' /\ BoolTyped' /\ LocalInv' /\ LockInv' /\ DownInv'
        /\ FlagInv' /\ ServerInv' /\ OriginalInv' /\ RouteInv'
    BY DataNext, BoolNext, LockNext, ServerNext, OriginalNext DEF LifeInv
  <2> QED BY <2>1 DEF LifeInv
<1> QED BY <1>1, LifeInit, PTL DEF Spec

\* The OS setting, the recovery file, the status, the locks and the commands
\* stay within their types.
THEOREM LifecycleTyped == Spec => []TypeOK
<1>1. LifeInv => TypeOK  BY DEF LifeInv, DataTyped, BoolTyped, TypeOK
<1> QED BY <1>1, LifeInvariant, PTL

\* Between two commands of start, restart and stop the published status says
\* what the server does, whichever of them failed.
THEOREM TruthfulStatus == Spec => []StatusIsTrue
<1>1. LifeInv => StatusIsTrue  BY DEF LifeInv, ServerInv, ServerTrue, StatusIsTrue
<1> QED BY <1>1, LifeInvariant, PTL

\* The user's original OS setting is in effect or in the recovery file at every
\* moment at which the process may crash.
THEOREM OriginalKept == Spec => []OriginalOnDisk
<1>1. LifeInv => OriginalOnDisk  BY DEF LifeInv, OriginalInv, OriginalOnDisk
<1> QED BY <1>1, LifeInvariant, PTL

\* The system proxy is shown as enabled exactly when there is a snapshot to
\* restore, whenever nobody is in enable or disable.
THEOREM FlagsAgree == Spec => []FlagHasSnapshot
<1>1. LifeInv => FlagHasSnapshot  BY DEF LifeInv, FlagInv, FlagHasSnapshot
<1> QED BY <1>1, LifeInvariant, PTL

\* After any interleaving of enable and restart the OS points at the port the
\* proxy listens on, or the failure to do so was reported.
THEOREM LiveRoute == Spec => []RouteIsLive
<1>1. LifeInv => RouteIsLive
  <2> SUFFICES ASSUME LifeInv PROVE RouteIsLive  OBVIOUS
  <2>1. plock = None => \A o \in Ops : pc[o] \notin {"startReapplyLock", "startReapply"}
    BY DEF LifeInv, LockInv, ProxyPCs, StartPCs
  <2> QED BY <2>1 DEF LifeInv, RouteInv, RouteIsLive
<1> QED BY <1>1, LifeInvariant, PTL

=============================================================================
