------------------------------ MODULE MCFair ------------------------------
(***************************************************************************)
(* An exchange with its breakpoints, and the proxy commands under fair     *)
(* scheduling, on small instances.  Both modules name their program        *)
(* counters pc and define Init, Next and vars, so the commands are an      *)
(* instance.  Each behaviour runs one of the two, chosen at the start; the *)
(* other keeps its initial state.                                          *)
(***************************************************************************)
EXTENDS Exchange

CONSTANTS Ops, Ports, DefaultPort, User, Mixed

VARIABLES part,
          os, file, snapshot, enabled, warning, running, port, slock, plock, opPc, arg, held, told,
          excuse, app, runtime, listener, armed

Commands == INSTANCE ProxyLifecycle WITH pc <- opPc

commandVars == <<os, file, snapshot, enabled, warning, running, port, slock, plock, opPc, arg, held,
                 told, excuse, app, runtime, listener, armed>>

FairInit ==
    /\ part \in {"exchange", "commands"}
    /\ Init /\ Commands!Init

FairNext ==
    /\ \/ part = "exchange" /\ Next /\ UNCHANGED commandVars
       \/ part = "commands" /\ Commands!Next /\ UNCHANGED vars
    /\ UNCHANGED part

\* The fairness of Exchange and of ProxyLifecycle, each for its own part: tokio runs
\* every ready task, and its mutexes hand the lock on in the order of arrival.
PartsFairSpec ==
    /\ FairInit
    /\ [][FairNext]_<<part, vars, commandVars>>
    /\ \A s \in Sessions : WF_vars(part = "exchange" /\ TaskStep(s))
    /\ \A o \in Ops :
          /\ SF_commandVars(part = "commands" /\ Commands!CommandStep(o))
          /\ WF_commandVars(part = "commands" /\ Commands!ExitDone(o))

\* Every proxy command returns or dies with the process (commands/proxy.rs: the two
\* operation locks are taken in one order).
EveryCommandReturns == Commands!EveryCommandReturns
===========================================================================
