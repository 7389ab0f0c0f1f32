--------------------------- MODULE ExchangeProofs ---------------------------
(***************************************************************************)
(* Proofs about Exchange for any number of sessions and rules, and about   *)
(* RulePipeline for any snapshot of rules, any payload and any script.     *)
(***************************************************************************)
EXTENDS Exchange, RulePipeline, WellFoundedInduction, TLAPS

\* A channel holds a value only while its receiver exists, and whoever sent it
\* took the entry out of the pending map first.
ValueInv ==
  \A s \in Sessions : value[s] # None => pc[s] \in WaitPCs /\ pending[s] = None

\* A task past find_matching_rule_id knows the rule it registers.
MatchInv ==
  \A s \in Sessions :
    pc[s] \in {"matched", "orphaned"} \cup WaitPCs => rule[s] \in Rules

\* The records of an exchange that is not over: none is final, none exists
\* before Announce, and from Announce on the guard is armed until the record
\* of an upstream error.
RecordInv ==
  \A s \in Sessions :
    /\ pc[s] \notin {"done", "gone"} => finals[s] = 0
    /\ pc[s] \in {"idle", "parse", "rules"} => guard[s] = "none"
    /\ pc[s] \in BreakpointPCs /\ stage[s] = "request" => guard[s] = "none"
    /\ guard[s] = "disarmed" => pc[s] \in {"record", "done", "gone"}

BInv == TypeOK /\ MatchInv /\ ValueInv /\ EntryHasOwner /\ WaiterReachable

RInv == RecordInv /\ RecordedOnce /\ AnnouncedIsRecorded

USE NoneAssumption

\* No exchange has begun: the breakpoint and the record invariants hold.
LEMMA StartsGood == Init => BInv /\ RInv
<1> SUFFICES ASSUME Init PROVE BInv /\ RInv  OBVIOUS
<1>1. TypeOK  BY DEF Init, InitBreakpoints, TypeOK, PCs, Stages
<1>2. MatchInv /\ ValueInv /\ EntryHasOwner /\ WaiterReachable
  BY DEF Init, InitBreakpoints, MatchInv, ValueInv, EntryHasOwner, WaiterReachable, WaitPCs
<1>3. RInv  BY DEF Init, RInv, RecordInv, RecordedOnce, AnnouncedIsRecorded
<1> QED BY <1>1, <1>2, <1>3 DEF BInv

\* Steps of the pipeline that touch neither the breakpoints nor the records.
LEMMA PassingKeeps ==
  ASSUME BInv, RInv, NEW s \in Sessions,
         Accept(s) \/ Parse(s) \/ ApplyRequestRules(s) \/ RequestThrottle(s)
           \/ Forward(s) \/ ResponseThrottle(s)
  PROVE  BInv' /\ RInv'
<1> USE DEF Accept, Parse, ApplyRequestRules, RequestThrottle, Forward, ResponseThrottle, Go,
            bpVars, recordVars
<1>1. TypeOK'  BY DEF BInv, TypeOK, PCs, AwaitPCs, BreakpointPCs
<1>2. /\ \A t \in Sessions \ {s} : pc'[t] = pc[t]
      /\ pc[s] \notin {"matched", "orphaned", "gone", "done"} \cup WaitPCs
      /\ pc'[s] \notin {"matched", "orphaned", "gone"} \cup WaitPCs
      /\ pc[s] # "idle" => pc'[s] # "idle"
      /\ pc'[s] \in {"parse", "rules", "done"} \cup BreakpointPCs
           => pc[s] \in {"idle", "parse", "rules"}
      /\ UNCHANGED <<stage, guard, finals>>
  BY ZenonT(60) DEF BInv, TypeOK, WaitPCs, BreakpointPCs
<1>3. MatchInv' /\ ValueInv' /\ EntryHasOwner' /\ WaiterReachable'
  BY <1>2 DEF BInv, MatchInv, ValueInv, EntryHasOwner, WaiterReachable, WaitPCs
<1>4. RInv'  BY <1>2 DEF RInv, RecordInv, RecordedOnce, AnnouncedIsRecorded
<1> QED BY <1>1, <1>3, <1>4 DEF BInv

\* Announce, ForwardError and ProcessResponse.
LEMMA PipelineKeeps ==
  ASSUME BInv, RInv, NEW s \in Sessions,
         Announce(s) \/ ForwardError(s) \/ ProcessResponse(s)
  PROVE  BInv' /\ RInv'
<1> USE DEF Announce, ForwardError, ProcessResponse, Disarm, Go, managerVars, uiVars, bpVars,
            recordVars
<1>1. TypeOK'  BY DEF BInv, TypeOK, PCs, AwaitPCs, BreakpointPCs, Stages
<1>2. /\ \A t \in Sessions \ {s} : pc'[t] = pc[t] /\ stage'[t] = stage[t]
      /\ pc[s] \in {"announce", "forward", "process"}
      /\ pc'[s] \in {"throttle", "record", "check", "responseThrottle"}
      /\ pc'[s] = "check" => stage'[s] = "response"
      /\ pending[s] = None /\ value[s] = None
  BY DEF BInv, TypeOK, ValueInv, EntryHasOwner, WaitPCs
<1>3. MatchInv' /\ ValueInv' /\ EntryHasOwner' /\ WaiterReachable'
  BY <1>2 DEF BInv, MatchInv, ValueInv, EntryHasOwner, WaiterReachable, WaitPCs
<1>4. RInv'
  <2>1. /\ \A t \in Sessions \ {s} : guard'[t] = guard[t]
        /\ UNCHANGED finals
        /\ guard'[s] = "disarmed" => pc'[s] = "record"
    BY <1>2 DEF BInv, TypeOK, RInv, RecordInv
  <2>2. RecordInv'  BY <1>2, <2>1 DEF RInv, RecordInv, BreakpointPCs, WaitPCs
  <2>3. RecordedOnce' /\ AnnouncedIsRecorded'  BY <1>2, <2>1 DEF RInv, RecordedOnce, AnnouncedIsRecorded
  <2> QED BY <2>2, <2>3 DEF RInv
<1> QED BY <1>1, <1>3, <1>4 DEF BInv

\* The ways an exchange ends, and its place is reused.
LEMMA EndingKeeps ==
  ASSUME BInv, RInv, NEW s \in Sessions,
         Record(s) \/ ClientGone(s) \/ Recycle(s)
  PROVE  BInv' /\ RInv'
<1>0. finals \in [Sessions -> 0..2] /\ pc \in [Sessions -> PCs]
      /\ guard \in [Sessions -> {"none", "armed", "disarmed"}]
  BY DEF BInv, TypeOK
<1>1. /\ finals'[s] \in 0..1
      /\ pc[s] = "record" /\ pc'[s] = "done" => finals'[s] = 1
      /\ pc'[s] = "gone" => /\ pc[s] \in AwaitPCs
                           /\ finals'[s] = IF guard[s] = "armed" THEN 1 ELSE 0
      /\ pc'[s] = "idle" => finals'[s] = 0
      /\ \A t \in Sessions \ {s} : finals'[t] = finals[t]
      /\ finals' \in [Sessions -> 0..2]
  <2>1. CASE Record(s)
    <3>1. guard'[s] # "armed" /\ finals[s] = 0 /\ pc'[s] = "done"  BY <1>0, <2>1 DEF Record, Disarm, Go, RInv, RecordInv
    <3>2. finals' = [finals EXCEPT ![s] = 1]  BY <1>0, <2>1, <3>1 DEF Record
    <3> QED BY <1>0, <3>1, <3>2
  <2>2. CASE ClientGone(s)
    <3>1. finals[s] = 0 /\ pc'[s] = "gone" /\ pc[s] \in AwaitPCs  BY <1>0, <2>2 DEF ClientGone, RInv, RecordInv, AwaitPCs
    <3>2. finals' = [finals EXCEPT ![s] = IF guard[s] = "armed" THEN 1 ELSE 0]  BY <1>0, <2>2, <3>1 DEF ClientGone, DropGuard
    <3> QED BY <1>0, <3>1, <3>2
  <2>3. CASE Recycle(s)  BY <1>0, <2>3 DEF Recycle
  <2> QED BY <2>1, <2>2, <2>3
<1> USE DEF Record, Disarm, ClientGone, Recycle, Go, managerVars, uiVars, bpVars
<1>2. TypeOK'  BY <1>1, ZenonT(60) DEF BInv, TypeOK, PCs, AwaitPCs, BreakpointPCs, Stages
<1>3. MatchInv' /\ ValueInv'  BY ZenonT(60) DEF BInv, TypeOK, MatchInv, ValueInv, WaitPCs
<1>4. EntryHasOwner'  BY DEF BInv, TypeOK, EntryHasOwner, WaitPCs, AwaitPCs
<1>5. WaiterReachable'  BY ZenonT(60) DEF BInv, TypeOK, WaiterReachable, WaitPCs
<1>6. RInv'
  <2>1. /\ pc'[s] \in {"done", "gone", "idle"}
        /\ \A t \in Sessions \ {s} :
             pc'[t] = pc[t] /\ guard'[t] = guard[t] /\ stage'[t] = stage[t]
        /\ pc'[s] = "done" => pc[s] = "record"
        /\ pc'[s] = "gone" => guard'[s] = guard[s]
        /\ pc'[s] = "idle" => guard'[s] = "none"
    BY ZenonT(60) DEF BInv, TypeOK
  <2>2. ASSUME NEW t \in Sessions, t # s
        PROVE  /\ pc'[t] = pc[t] /\ guard'[t] = guard[t] /\ finals'[t] = finals[t]
               /\ stage'[t] = stage[t]
    BY <1>1, <2>1, <2>2 DEF BInv, TypeOK
  <2>3. RecordInv'  BY <1>1, <2>1, <2>2, ZenonT(60) DEF BInv, TypeOK, RInv, RecordInv, BreakpointPCs, WaitPCs
  <2>4. RecordedOnce'  BY <1>1, <2>2 DEF RInv, RecordedOnce
  <2>5. AnnouncedIsRecorded'  BY <1>1, <1>2, <2>1, <2>2, ZenonT(60) DEF TypeOK, RInv, AnnouncedIsRecorded
  <2> QED BY <2>3, <2>4, <2>5 DEF RInv
<1> QED BY <1>2, <1>3, <1>4, <1>5, <1>6 DEF BInv

\* The records of a step that leaves them alone and starts and ends no exchange.
LEMMA RecordsKept ==
  ASSUME BInv, RInv, UNCHANGED <<recordVars, stage>>,
         \A t \in Sessions :
           \/ pc'[t] = pc[t]
           \/ pc[t] \in BreakpointPCs /\ stage[t] = "request" /\ pc'[t] = "done"
           \/ /\ pc[t] \in BreakpointPCs
              /\ pc'[t] \in BreakpointPCs \cup {"announce", "responseThrottle", "record"}
  PROVE  RInv'
BY DEF RInv, RecordInv, RecordedOnce, AnnouncedIsRecorded, recordVars, BreakpointPCs, WaitPCs

\* A list grows by an element of its type.
LEMMA AppendTyped ==
  ASSUME NEW S, NEW q \in Seq(S), NEW x \in S
  PROVE  Append(q, x) \in Seq(S)
OBVIOUS

\* The head and the rest of a list have its type.
LEMMA HeadTailTyped ==
  ASSUME NEW S, NEW q \in Seq(S), q # <<>>
  PROVE  Head(q) \in S /\ Tail(q) \in Seq(S)
OBVIOUS

\* The step of a task through a breakpoint.
LEMMA BreakpointKeeps ==
  ASSUME BInv, RInv, NEW s \in Sessions, Breakpoint(s)
  PROVE  BInv' /\ RInv'
<1> USE DEF managerVars, uiVars, bpVars, recordVars
<1>0. AfterBreakpoint(s) \in {"announce", "responseThrottle"}
      /\ \A a \in Actions : \A next \in AfterDecision(s, a) :
           \/ next \in {"announce", "responseThrottle", "record"}
           \/ next = "done" /\ stage[s] = "request"
  BY DEF AfterBreakpoint, AfterDecision
<1>t. /\ pc \in [Sessions -> PCs] /\ value \in [Sessions -> Decisions \cup {None}]
      /\ pending \in [Sessions -> Entries \cup {None}]
      /\ stage \in [Sessions -> Stages] /\ rule \in [Sessions -> Rules \cup {None}]
      /\ events \in [Sessions -> Seq([kind : {"hit", "released"}, stage : Stages])]
  BY DEF BInv, TypeOK
<1>1. CASE FindRule(s, AfterBreakpoint(s))
  <2>1. /\ \A t \in Sessions \ {s} : pc'[t] = pc[t] /\ rule'[t] = rule[t]
        /\ pc[s] = "check"
        /\ \/ pc'[s] = "matched" /\ rule'[s] \in Rules
           \/ pc'[s] \in {"announce", "responseThrottle"}
    BY <1>0, <1>1, <1>t DEF FindRule, RulesOf, Rules
  <2>2. TypeOK'
    <3>1. pc' \in [Sessions -> PCs]  BY <1>0, <1>1, <1>t DEF FindRule, PCs, AwaitPCs, BreakpointPCs
    <3>2. rule' \in [Sessions -> Rules \cup {None}]  BY <1>1, <1>t, ZenonT(60) DEF FindRule, RulesOf, Rules
    <3> QED BY <1>1, <3>1, <3>2 DEF FindRule, Breakpoint, BInv, TypeOK
  <2>3. MatchInv' /\ ValueInv' /\ EntryHasOwner' /\ WaiterReachable'
    BY <1>1, <2>1 DEF FindRule, BInv, MatchInv, ValueInv, EntryHasOwner, WaiterReachable, WaitPCs
  <2>4. RInv'  BY <1>1, <2>1, RecordsKept DEF FindRule, Breakpoint, BreakpointPCs
  <2> QED BY <2>2, <2>3, <2>4 DEF BInv
<1>2. CASE Register(s)
  <2>1. /\ \A t \in Sessions \ {s} : /\ pc'[t] = pc[t] /\ pending'[t] = pending[t]
                                     /\ value'[t] = value[t]
        /\ pc[s] = "matched" /\ pc'[s] = "paused" /\ rule[s] \in Rules
        /\ pending'[s] = [rule |-> rule[s], stage |-> stage[s]] /\ value'[s] = None
    BY <1>2, <1>t DEF Register, BInv, MatchInv
  <2>2. [rule |-> rule[s], stage |-> stage[s]] \in Entries  BY <2>1, <1>t DEF Entries
  <2>3. events' \in [Sessions -> Seq([kind : {"hit", "released"}, stage : Stages])]
    <3>1. [kind |-> "hit", stage |-> stage[s]] \in [kind : {"hit", "released"}, stage : Stages]  BY <1>t
    <3>2. Append(events[s], [kind |-> "hit", stage |-> stage[s]])
            \in Seq([kind : {"hit", "released"}, stage : Stages])
      BY <1>t, <3>1, AppendTyped
    <3> QED BY <1>2, <1>t, <3>2 DEF Register
  <2>4. TypeOK'  BY <1>2, <2>2, <2>3 DEF Register, Breakpoint, BInv, TypeOK, PCs, BreakpointPCs, WaitPCs
  <2>5. MatchInv' /\ ValueInv' /\ EntryHasOwner' /\ WaiterReachable'
    BY <1>2, <2>1, <2>2 DEF Register, BInv, MatchInv, ValueInv, EntryHasOwner, WaiterReachable, WaitPCs
  <2>6. RInv'  BY <1>2, <2>1, RecordsKept DEF Register, Breakpoint, BreakpointPCs, WaitPCs
  <2> QED BY <2>4, <2>5, <2>6 DEF BInv
<1>3. CASE value[s] # None /\ \E next \in AfterDecision(s, value[s].action) : Decided(s, next)
  <2> PICK next \in AfterDecision(s, value[s].action) : value[s] # None /\ Decided(s, next)  BY <1>3
  <2>0. \/ next \in {"announce", "responseThrottle", "record"}
        \/ next = "done" /\ stage[s] = "request"
    BY <1>0, <1>3, <1>t DEF Decisions
  <2>1. /\ \A t \in Sessions \ {s} : pc'[t] = pc[t] /\ value'[t] = value[t]
        /\ pc[s] = "paused" /\ value'[s] = None
        /\ \/ pc'[s] \in {"announce", "responseThrottle", "record"}
           \/ pc'[s] = "done" /\ stage[s] = "request"
    BY <1>t, <2>0 DEF Decided
  <2>2. TypeOK'  BY <2>0 DEF Decided, Breakpoint, BInv, TypeOK, PCs, AwaitPCs
  <2>3. pending[s] = None  BY <1>3 DEF BInv, ValueInv
  <2>4. MatchInv' /\ ValueInv' /\ EntryHasOwner' /\ WaiterReachable'
    BY <2>1, <2>3 DEF Decided, BInv, MatchInv, ValueInv, EntryHasOwner, WaiterReachable, WaitPCs
  <2>5. RInv'  BY <2>1, RecordsKept DEF Decided, Breakpoint, BreakpointPCs, WaitPCs
  <2> QED BY <2>2, <2>4, <2>5 DEF BInv
<1>4. CASE WaitTimeout(s)
  <2>1. /\ \A t \in Sessions \ {s} : pc'[t] = pc[t]
        /\ pc[s] = "paused" /\ pc'[s] = "elapsed"
    BY <1>4, <1>t DEF WaitTimeout
  <2>2. TypeOK'  BY <1>4 DEF WaitTimeout, Breakpoint, BInv, TypeOK, PCs, BreakpointPCs, WaitPCs
  <2>3. MatchInv' /\ ValueInv' /\ EntryHasOwner' /\ WaiterReachable'
    BY <1>4, <2>1 DEF WaitTimeout, BInv, MatchInv, ValueInv, EntryHasOwner, WaiterReachable, WaitPCs
  <2>4. RInv'  BY <1>4, <2>1, RecordsKept DEF WaitTimeout, Breakpoint, BreakpointPCs, WaitPCs
  <2> QED BY <2>2, <2>3, <2>4 DEF BInv
<1>5. CASE DropReceiver(s)
  <2>1. /\ \A t \in Sessions \ {s} : pc'[t] = pc[t] /\ value'[t] = value[t]
        /\ pc[s] = "elapsed" /\ pc'[s] = "orphaned" /\ value'[s] = None
    BY <1>5, <1>t DEF DropReceiver
  <2>2. TypeOK'  BY <1>5 DEF DropReceiver, Breakpoint, BInv, TypeOK, PCs, BreakpointPCs
  <2>3. MatchInv' /\ ValueInv' /\ EntryHasOwner' /\ WaiterReachable'
    BY <1>5, <2>1 DEF DropReceiver, BInv, MatchInv, ValueInv, EntryHasOwner, WaiterReachable, WaitPCs
  <2>4. RInv'  BY <1>5, <2>1, RecordsKept DEF DropReceiver, Breakpoint, BreakpointPCs, WaitPCs
  <2> QED BY <2>2, <2>3, <2>4 DEF BInv
<1>6. CASE ReleaseUnresolved(s, AfterBreakpoint(s))
  <2>1. /\ \A t \in Sessions \ {s} : pc'[t] = pc[t] /\ pending'[t] = pending[t]
        /\ pc[s] = "orphaned" /\ pending'[s] = None
        /\ pc'[s] \in {"announce", "responseThrottle"}
    BY <1>0, <1>6, <1>t DEF ReleaseUnresolved, RemovePending
  <2>2. events' \in [Sessions -> Seq([kind : {"hit", "released"}, stage : Stages])]
    <3>1. [kind |-> "released", stage |-> stage[s]] \in [kind : {"hit", "released"}, stage : Stages]  BY <1>t
    <3>2. Append(events[s], [kind |-> "released", stage |-> stage[s]])
            \in Seq([kind : {"hit", "released"}, stage : Stages])
      BY <1>t, <3>1, AppendTyped
    <3> QED BY <1>6, <1>t, <3>2 DEF ReleaseUnresolved
  <2>3. TypeOK'  BY <1>0, <1>6, <2>2 DEF ReleaseUnresolved, RemovePending, Breakpoint, BInv, TypeOK, PCs, AwaitPCs
  <2>4. MatchInv' /\ ValueInv' /\ EntryHasOwner' /\ WaiterReachable'
    BY <1>6, <2>1 DEF ReleaseUnresolved, BInv, MatchInv, ValueInv, EntryHasOwner, WaiterReachable, WaitPCs
  <2>5. RInv'  BY <1>6, <2>1, RecordsKept DEF ReleaseUnresolved, Breakpoint, BreakpointPCs
  <2> QED BY <2>3, <2>4, <2>5 DEF BInv
<1> QED BY <1>1, <1>2, <1>3, <1>4, <1>5, <1>6 DEF Breakpoint

\* Cancelling any set of entries: every waiter that loses its entry is sent a
\* Forward first.
LEMMA CancelKeeps ==
  ASSUME BInv, NEW S, CancelPending(S), UNCHANGED <<pc, stage, rule>>
  PROVE  /\ pending' \in [Sessions -> Entries \cup {None}]
         /\ value' \in [Sessions -> Decisions \cup {None}]
         /\ MatchInv' /\ ValueInv' /\ EntryHasOwner' /\ WaiterReachable'
<1>1. ASSUME NEW t \in Sessions PROVE [stage |-> stage[t], action |-> "forward"] \in Decisions
  BY DEF BInv, TypeOK, Decisions, Actions
<1>2. /\ pending' \in [Sessions -> Entries \cup {None}]
      /\ value' \in [Sessions -> Decisions \cup {None}]
  BY <1>1 DEF CancelPending, BInv, TypeOK
<1>3. \A t \in Sessions :
        \/ pending'[t] = pending[t] /\ value'[t] = value[t]
        \/ /\ pending'[t] = None
           /\ pc[t] \in WaitPCs => value'[t] \in Decisions
           /\ pc[t] \notin WaitPCs => value'[t] = value[t]
  BY <1>1 DEF CancelPending
<1>4. None \notin Decisions  OBVIOUS
<1>5. MatchInv' /\ ValueInv' /\ EntryHasOwner' /\ WaiterReachable'
  BY <1>3, <1>4 DEF BInv, MatchInv, ValueInv, EntryHasOwner, WaiterReachable, WaitPCs
<1> QED BY <1>2, <1>5

\* set_rules and cancel_all.
LEMMA ManagerKeeps ==
  ASSUME BInv, RInv, ManagerStep, UNCHANGED recordVars
  PROVE  BInv' /\ RInv'
<1>1. CASE \E new \in SUBSET Rules : SetRules(new)
  <2>1. TypeOK' /\ UNCHANGED <<pending, value, pc, stage, rule>>  BY <1>1 DEF SetRules, BInv, TypeOK, uiVars, recordVars
  <2>2. MatchInv' /\ ValueInv' /\ EntryHasOwner' /\ WaiterReachable'
    BY <2>1 DEF BInv, MatchInv, ValueInv, EntryHasOwner, WaiterReachable
  <2> QED BY <2>1, <2>2, RecordsKept DEF BInv
<1>2. CASE CancelForRules \/ CancelAll
  <2>1. /\ UNCHANGED <<pc, stage, rule>>
        /\ \E S : CancelPending(S)
    BY <1>2 DEF CancelForRules, CancelAll
  <2>2. PICK S : CancelPending(S)  BY <2>1
  <2>3. /\ pending' \in [Sessions -> Entries \cup {None}]
        /\ value' \in [Sessions -> Decisions \cup {None}]
        /\ MatchInv' /\ ValueInv' /\ EntryHasOwner' /\ WaiterReachable'
    BY <2>1, <2>2, CancelKeeps
  <2>4. TypeOK'  BY <1>2, <2>3 DEF CancelForRules, CancelAll, BInv, TypeOK, uiVars, recordVars
  <2> QED BY <2>1, <2>3, <2>4, RecordsKept DEF BInv
<1> QED BY <1>1, <1>2 DEF ManagerStep

\* The front end, and the resolve_breakpoint command it calls.
LEMMA UiKeeps ==
  ASSUME BInv, RInv, UiStep, UNCHANGED recordVars
  PROVE  BInv' /\ RInv'
<1>1. ASSUME NEW s \in Sessions, DeliverEvent(s) PROVE BInv' /\ RInv'
  <2> DEFINE Ev == [kind : {"hit", "released"}, stage : Stages]
  <2>1. events[s] \in Seq(Ev) /\ events[s] # <<>>  BY <1>1 DEF DeliverEvent, BInv, TypeOK
  <2>2. Head(events[s]) \in Ev /\ Tail(events[s]) \in Seq(Ev)  BY <2>1, HeadTailTyped
  <2>3. TypeOK' /\ UNCHANGED <<pending, value, pc, stage, rule>>
    BY <1>1, <2>2 DEF DeliverEvent, BInv, TypeOK, managerVars, recordVars
  <2>4. MatchInv' /\ ValueInv' /\ EntryHasOwner' /\ WaiterReachable'
    BY <2>3 DEF BInv, MatchInv, ValueInv, EntryHasOwner, WaiterReachable
  <2> QED BY <2>3, <2>4, RecordsKept DEF BInv
<1>2. ASSUME NEW s \in Sessions, NEW a \in Actions, Decide(s, a) \/ Settle PROVE BInv' /\ RInv'
  <2>1. UNCHANGED <<rules, cancelling, pending, value, pc, stage, rule, events>>  BY <1>2 DEF Decide, Settle, managerVars
  <2>2. Decide(s, a) => shown[s] \in Stages  BY DEF Decide, BInv, TypeOK
  <2>3. shown' \in [Sessions -> Stages \cup {None}]
        /\ call' \in [session : Sessions, decision : Decisions,
                     reply : {"none", "ok", "no pending", "receiver dropped"}] \cup {None}
    <3>1. CASE Decide(s, a)
      <4>1. [stage |-> shown[s], action |-> a] \in Decisions  BY <2>2, <3>1 DEF Decisions
      <4> QED BY <3>1, <4>1 DEF Decide, BInv, TypeOK
    <3>2. CASE Settle  BY <3>2 DEF Settle, BInv, TypeOK
    <3> QED BY <1>2, <3>1, <3>2
  <2>5. TypeOK'  BY <2>1, <2>3 DEF BInv, TypeOK, recordVars
  <2>4. MatchInv' /\ ValueInv' /\ EntryHasOwner' /\ WaiterReachable'
    BY <2>1 DEF BInv, MatchInv, ValueInv, EntryHasOwner, WaiterReachable
  <2> QED BY <2>1, <2>4, <2>5, RecordsKept DEF BInv
<1>3. ASSUME Resolve PROVE BInv' /\ RInv'
  <2> DEFINE s == call.session
  <2>1. s \in Sessions /\ call.decision \in Decisions  BY <1>3 DEF Resolve, BInv, TypeOK
  <2>2. TypeOK'  BY <1>3, <2>1 DEF Resolve, BInv, TypeOK, recordVars
  <2>3. /\ UNCHANGED <<pc, stage, rule>>
        /\ \A t \in Sessions \ {s} : pending'[t] = pending[t] /\ value'[t] = value[t]
        /\ pending'[s] = None
        /\ IF pending[s] # None /\ pc[s] \in WaitPCs
           THEN value'[s] \in Decisions ELSE value'[s] = value[s]
    BY <1>3, <2>1 DEF Resolve, BInv, TypeOK
  <2>4. None \notin Decisions  OBVIOUS
  <2> HIDE DEF s
  <2>5. MatchInv' /\ ValueInv' /\ EntryHasOwner' /\ WaiterReachable'
    BY <2>1, <2>3, <2>4 DEF BInv, MatchInv, ValueInv, EntryHasOwner, WaiterReachable, WaitPCs
  <2> QED BY <2>2, <2>3, <2>5, RecordsKept DEF BInv
<1>4. Settle => BInv' /\ RInv'
  <2>1. Settle => \E t \in Sessions : TRUE  BY DEF Settle, BInv, TypeOK
  <2> QED BY <1>2, <2>1 DEF Actions
<1> QED BY <1>1, <1>2, <1>3, <1>4 DEF UiStep

-----------------------------------------------------------------------------
\* Every step of the exchange keeps both invariants.
LEMMA NextKeeps == BInv /\ RInv /\ [Next]_vars => BInv' /\ RInv'
<1> SUFFICES ASSUME BInv, RInv, [Next]_vars PROVE BInv' /\ RInv'  OBVIOUS
<1>1. ASSUME NEW s \in Sessions, Accept(s) \/ TaskStep(s) \/ ClientGone(s) \/ Recycle(s) PROVE BInv' /\ RInv'
  BY <1>1, PassingKeeps, PipelineKeeps, EndingKeeps, BreakpointKeeps DEF TaskStep
<1>2. CASE (ManagerStep \/ UiStep) /\ UNCHANGED recordVars  BY <1>2, ManagerKeeps, UiKeeps
<1>3. CASE UNCHANGED vars
  <2> USE <1>3 DEF vars
  <2>1. TypeOK' /\ MatchInv' /\ ValueInv'  BY DEF BInv, TypeOK, MatchInv, ValueInv
  <2>2. EntryHasOwner' /\ WaiterReachable'  BY DEF BInv, EntryHasOwner, WaiterReachable
  <2>3. RInv'  BY RecordsKept DEF recordVars
  <2> QED BY <2>1, <2>2, <2>3 DEF BInv
<1> QED BY <1>1, <1>2, <1>3 DEF Next

\* Both invariants hold throughout.
LEMMA Invariance == Spec => [](BInv /\ RInv)
BY StartsGood, NextKeeps, PTL DEF Spec

\* The state of the breakpoint manager, of the paused tasks, of the front end
\* and of the session records stays within its types.
THEOREM ExchangeTyped == Spec => []TypeOK
<1>1. BInv => TypeOK  BY DEF BInv
<1> QED BY <1>1, Invariance, PTL

\* A task paused in intercept_request_stage or intercept_response_stage can
\* always be released by a decision, a rule change or cancel_all.
THEOREM PausesReachable == Spec => []WaiterReachable
<1>1. BInv => WaiterReachable  BY DEF BInv
<1> QED BY <1>1, Invariance, PTL

\* No entry of the pending map outlives the wait that registered it, except
\* when the client left during the wait.
THEOREM EntriesOwned == Spec => []EntryHasOwner
<1>1. BInv => EntryHasOwner  BY DEF BInv
<1> QED BY <1>1, Invariance, PTL

\* PendingRequestCancellationGuard never records an exchange a second time.
THEOREM NoDoubleRecord == Spec => []RecordedOnce
<1>1. RInv => RecordedOnce  BY DEF RInv
<1> QED BY <1>1, Invariance, PTL

\* An exchange announced as pending gets its final record wherever the client
\* leaves it, save while an upstream error is being recorded.
THEOREM AnnouncedAreRecorded == Spec => []AnnouncedIsRecorded
<1>1. RInv => AnnouncedIsRecorded  BY DEF RInv
<1> QED BY <1>1, Invariance, PTL

-----------------------------------------------------------------------------
(* What a request and a response declare (RulePipeline).                   *)

\* The fields of a request, a response, their headers and bodies.
IsBody(b) == "enc" \in DOMAIN b
IsHeaders(h) == {"ce", "etag", "illegal"} \subseteq DOMAIN h
IsRequest(r) ==
  /\ {"method", "url", "host", "entries", "headers", "h2", "body"} \subseteq DOMAIN r
  /\ IsHeaders(r.entries) /\ IsHeaders(r.headers) /\ IsBody(r.body)
IsResponse(r) == {"body", "ce", "etag"} \subseteq DOMAIN r /\ IsBody(r.body)

\* What is declared is what is carried.
Covers(ce, body) == ce = body.enc

\* A message of a stage: its fields, and whether its declared encoding covers its body.
Shaped(at, m) == IF at = "request" THEN IsRequest(m) ELSE IsResponse(m)
Told(at, m) == IF at = "request" THEN Covers(m.entries.ce, m.body) ELSE Covers(m.ce, m.body)

\* Without success nothing is changed.
Unspoiled(o, m) == o.out # "success" => o.msg = m

\* An action that writes the content-encoding header.
Labels(a) == a.type = "header" /\ a.name = "content-encoding"

\* Where there is a response, what it declares covers it unless a rule or a script said
\* otherwise since it was received or made; the request is as it was rebuilt last.
PipelineInv ==
  /\ snapshot \in Snapshots /\ IsRequest(req) /\ faulted \in BOOLEAN /\ named \in BOOLEAN
  /\ leg \in {"rewrite", "scripts", "answered", "passthrough", "response", "response_scripts"}
  /\ leg \in {"rewrite", "response"} => todo \subseteq DOMAIN snapshot.rewrite
  /\ leg \in {"rewrite", "scripts"} => resp = NoMessage
  /\ leg \notin {"rewrite", "scripts"} => IsResponse(resp) /\ (~named \/ leg = "answered" => Covers(resp.ce, resp.body))
  /\ ~faulted => req.headers = req.entries /\ req.host = req.url
  /\ ~faulted /\ ~named /\ leg \in {"rewrite", "scripts"} => Covers(req.headers.ce, req.body)

\* A set that holds 0 and the successor of each of its members holds every number.
LEMMA CountedUp ==
  ASSUME NEW N \in Nat, NEW S, 0 \in S, \A n \in 0..N - 1 : n \in S => n + 1 \in S
  PROVE  N \in S
<1> DEFINE E == {n \in Nat : n <= N /\ n \notin S}
<1>1. SUFFICES ASSUME E # {} PROVE FALSE  OBVIOUS
<1>2. PICK x \in E : \A y \in E : ~(<<y, x>> \in OpToRel(<, Nat))  BY <1>1, WFMin, NatLessThanWellFounded
<1>3. \A y \in E : ~(y < x)  BY <1>2 DEF OpToRel
<1>4. x # 0 /\ x - 1 \in Nat  OBVIOUS
<1>5. x - 1 \notin E  BY <1>3, <1>4
<1> QED BY <1>4, <1>5

RanFrom(F, at, actions, r, h2) ==
  F = [i \in 0..Len(actions) |->
         IF i = 0 THEN [outs |-> {}, msg |-> r] ELSE And(F[i - 1], ApplyAction(at, actions[i], F[i - 1].msg, h2))]

\* The function by which the actions of a rule are run exists.
LEMMA RanExists ==
  ASSUME NEW at, NEW actions, Len(actions) \in Nat, NEW r, NEW h2
  PROVE  \E F : RanFrom(F, at, actions, r, h2)
<1> DEFINE Step(e, i) == And(e, ApplyAction(at, actions[i], e.msg, h2))
           base == [outs |-> {}, msg |-> r]
           Upto(n, F) == F = [i \in 0..n |-> F[i]] /\ F[0] = base /\ \A i \in 1..n : F[i] = Step(F[i - 1], i)
           Reached == {n \in Nat : \E F : Upto(n, F)}
<1> HIDE DEF Step, base
<1>1. 0 \in Reached
  <2>1. PICK F : F = [i \in 0..0 |-> base]  OBVIOUS
  <2>2. Upto(0, F)  BY <2>1
  <2> QED  BY <2>2
<1>2. ASSUME NEW n \in 0..Len(actions) - 1, n \in Reached PROVE n + 1 \in Reached
  <2>1. PICK F : Upto(n, F)  BY <1>2
  <2>2. PICK G : G = [i \in 0..n + 1 |-> IF i = n + 1 THEN Step(F[n], n + 1) ELSE F[i]]  OBVIOUS
  <2>3. n \in Nat  OBVIOUS
  <2>4. /\ G = [i \in 0..n + 1 |-> G[i]] /\ G[0] = base /\ G[n + 1] = Step(F[n], n + 1)
        /\ \A i \in 0..n : G[i] = F[i]
    BY <2>1, <2>2, <2>3
  <2>5. ASSUME NEW i \in 1..n + 1 PROVE G[i] = Step(G[i - 1], i)
    <3>1. CASE i = n + 1
      <4>1. i - 1 = n /\ n \in 0..n  BY <2>3, <3>1
      <4>2. G[i - 1] = F[n]  BY <2>4, <4>1
      <4> QED  BY <2>4, <3>1, <4>2
    <3>2. CASE i # n + 1
      <4>1. i \in 1..n /\ i \in 0..n /\ i - 1 \in 0..n  BY <2>3, <3>2
      <4> QED  BY <2>1, <2>4, <4>1
    <3> QED  BY <3>1, <3>2
  <2>6. Upto(n + 1, G)  BY <2>4, <2>5
  <2> HIDE DEF Upto
  <2>7. \E H : Upto(n + 1, H)  BY <2>6
  <2> QED  BY <2>3, <2>7
<1> HIDE DEF Reached
<1>3. Len(actions) \in Reached  BY <1>1, <1>2, CountedUp
<1>4. PICK F : Upto(Len(actions), F)  BY <1>3 DEF Reached
<1>5. PICK G : G = [i \in 0..Len(actions) |-> IF i = 0 THEN base ELSE Step(F[i - 1], i)]  OBVIOUS
<1>6. \A i \in 0..Len(actions) : F[i] = G[i]
  <2> SUFFICES ASSUME NEW i \in 0..Len(actions) PROVE F[i] = G[i]  OBVIOUS
  <2>1. CASE i = 0  BY <1>4, <1>5, <2>1
  <2>2. CASE i # 0
    <3>1. i \in 1..Len(actions)  BY <2>2
    <3> QED  BY <1>4, <1>5, <2>2, <3>1
  <2> QED  BY <2>1, <2>2
<1>7. F = G
  <2>1. F = [i \in 0..Len(actions) |-> F[i]]  BY <1>4
  <2>2. [i \in 0..Len(actions) |-> F[i]] = [i \in 0..Len(actions) |-> G[i]]  BY <1>6
  <2>3. G = [i \in 0..Len(actions) |-> G[i]]  BY <1>5
  <2> QED  BY <2>1, <2>2, <2>3
<1> QED  BY <1>5, <1>7 DEF RanFrom, Step, base

\* What an action does to a header list.
LEMMA HeaderSet ==
  ASSUME NEW h, IsHeaders(h), NEW a
  PROVE  IsHeaders(set_header_entry(h, a)) /\ (a.name # "content-encoding" => set_header_entry(h, a).ce = h.ce)
BY DEF set_header_entry, IsHeaders

\* A new body is a plain one.
LEMMA NewBodyIsPlain ==
  ASSUME NEW a, NEW body, IsBody(body), NEW declared
  PROVE  /\ NewBody(a, body, declared).out \in {"success", "error"}
         /\ NewBody(a, body, declared).out # "error" =>
              IsBody(NewBody(a, body, declared).msg) /\ NewBody(a, body, declared).msg.enc = "identity"
<1>1. PICK decoded : decoded = decode_body_bytes(body, declared)  OBVIOUS
<1>2. IsBody(decoded)  BY <1>1 DEF decode_body_bytes, IsBody
<1>3. PICK text : text = Edited("text")  OBVIOUS
<1>4. PICK json : json = Edited("json")  OBVIOUS
<1>5. IsBody(text) /\ IsBody(json) /\ text.enc = "identity" /\ json.enc = "identity"  BY <1>3, <1>4 DEF IsBody, Edited, Body
<1>6. CASE a.mode = "fields"
  <2>1. NewBody(a, body, declared) =
          IF ~should_render_body_as_text(decoded) \/ decoded.form # "json" THEN RuleOutcome("error", body)
          ELSE RuleOutcome("success", IF a.edit THEN json ELSE decoded)
    BY <1>1, <1>4, <1>6 DEF NewBody, apply_body_field_rewrite
  <2>2. should_render_body_as_text(decoded) => decoded.enc = "identity"  BY DEF should_render_body_as_text
  <2> QED  BY <1>2, <1>5, <2>1, <2>2 DEF RuleOutcome
<1>7. CASE a.mode # "fields"
  <2>1. NewBody(a, body, declared) = RuleOutcome("success", text)  BY <1>3, <1>7 DEF NewBody
  <2> QED  BY <1>5, <2>1 DEF RuleOutcome
<1> QED  BY <1>6, <1>7

\* An edit of the body leaves a request that declares its plain bytes.
LEMMA RequestBodyKeeps ==
  ASSUME NEW a, NEW r, IsRequest(r), NEW h2, NEW o, o = RequestBodyAction(a, r, h2)
  PROVE  /\ IsRequest(o.msg) /\ (o.out # "success" => o.msg = r)
         /\ Covers(r.entries.ce, r.body) => Covers(o.msg.entries.ce, o.msg.body)
<1>1. PICK new : new = NewBody(a, r.body, r.headers.ce)  OBVIOUS
<1>2. new.out \in {"success", "error"} /\ (new.out # "error" => IsBody(new.msg) /\ new.msg.enc = "identity")
  BY <1>1, NewBodyIsPlain DEF IsRequest
<1>3. PICK h : h = strip_plain_body_edit_headers(r.entries)  OBVIOUS
<1>4. IsHeaders(h) /\ h.ce = "identity"  BY <1>3 DEF strip_plain_body_edit_headers, IsRequest, IsHeaders
<1>5. CASE o.msg = r  BY <1>5
<1>6. CASE o = RuleOutcome("success", [r EXCEPT !.body = new.msg, !.entries = h]) /\ new.out # "error"
  <2>1. PICK m : m = [r EXCEPT !.body = new.msg, !.entries = h]  OBVIOUS
  <2>2. IsRequest(m) /\ m.entries = h /\ m.body = new.msg  BY <1>2, <1>4, <1>6, <2>1 DEF IsRequest
  <2>3. o.out = "success" /\ o.msg = m  BY <1>6, <2>1 DEF RuleOutcome
  <2> QED  BY <1>2, <1>4, <1>6, <2>2, <2>3 DEF Covers
<1> QED
  <2>1. o = RuleOutcome("skipped", r) \/ o = RuleOutcome("error", r)
        \/ (o = RuleOutcome("success", [r EXCEPT !.body = new.msg, !.entries = h]) /\ new.out # "error")
    BY <1>1, <1>3 DEF RequestBodyAction
  <2>2. RuleOutcome("skipped", r).msg = r /\ RuleOutcome("error", r).msg = r  BY DEF RuleOutcome
  <2> QED  BY <1>5, <1>6, <2>1, <2>2

\* An action on the request: one that does not succeed changes nothing.
LEMMA RequestActionKeeps ==
  ASSUME NEW a, NEW r, IsRequest(r), NEW h2, NEW o, o = apply_request_action(a, r, h2)
  PROVE  /\ IsRequest(o.msg) /\ (o.out # "success" => o.msg = r)
         /\ Covers(r.entries.ce, r.body) /\ ~Labels(a) => Covers(o.msg.entries.ce, o.msg.body)
<1>0. \A x : RuleOutcome(x, r).msg = r /\ RuleOutcome(x, r).out = x  BY DEF RuleOutcome
<1>1. CASE a.type = "header"
  <2>1. PICK h : h = set_header_entry(r.entries, a)  OBVIOUS
  <2>2. IsHeaders(h) /\ (a.name # "content-encoding" => h.ce = r.entries.ce)  BY <2>1, HeaderSet DEF IsRequest
  <2>3. PICK m : m = [r EXCEPT !.entries = h]  OBVIOUS
  <2>4. IsRequest(m) /\ m.entries = h /\ m.body = r.body  BY <2>2, <2>3 DEF IsRequest
  <2>5. o = RuleOutcome("skipped", r) \/ o = RuleOutcome("success", m)  BY <1>1, <2>1, <2>3 DEF apply_request_action
  <2>6. RuleOutcome("success", m).msg = m /\ RuleOutcome("success", m).out = "success"  BY DEF RuleOutcome
  <2> QED  BY <1>0, <1>1, <2>2, <2>4, <2>5, <2>6 DEF Covers, Labels
<1>2. CASE a.type = "query"
  <2>1. o = RuleOutcome("success", r)  BY <1>2 DEF apply_request_action
  <2> QED  BY <1>0, <2>1
<1>3. CASE a.type = "body"
  <2>1. o = RequestBodyAction(a, r, h2)  BY <1>3 DEF apply_request_action
  <2> QED  BY <2>1, RequestBodyKeeps
<1>4. CASE a.type = "redirect"
  <2>1. PICK m : m = [r EXCEPT !.url = a.to]  OBVIOUS
  <2>2. IsRequest(m) /\ m.entries = r.entries /\ m.body = r.body  BY <2>1 DEF IsRequest
  <2>3. o = RuleOutcome("error", r) \/ o = RuleOutcome("success", m)  BY <1>4, <2>1 DEF apply_request_action
  <2>4. RuleOutcome("success", m).msg = m /\ RuleOutcome("success", m).out = "success"  BY DEF RuleOutcome
  <2> QED  BY <1>0, <2>2, <2>3, <2>4
<1>5. CASE a.type \notin {"header", "query", "body", "redirect"}
  <2>1. o = RuleOutcome("skipped", r)  BY <1>5 DEF apply_request_action
  <2> QED  BY <1>0, <2>1
<1> QED  BY <1>1, <1>2, <1>3, <1>4, <1>5

\* An action on the response.
LEMMA ResponseActionKeeps ==
  ASSUME NEW a, NEW r, IsResponse(r), NEW h2, NEW o, o = apply_response_action(a, r, h2)
  PROVE  /\ IsResponse(o.msg) /\ (o.out # "success" => o.msg = r)
         /\ Covers(r.ce, r.body) /\ ~Labels(a) => Covers(o.msg.ce, o.msg.body)
<1>0. \A x : RuleOutcome(x, r).msg = r /\ RuleOutcome(x, r).out = x  BY DEF RuleOutcome
<1>1. CASE a.type = "header"
  <2>1. PICK m : m = set_header_entry(r, a)  OBVIOUS
  <2>2. CASE o = RuleOutcome("success", m) /\ a.name # "illegal"
    <3>1. IsResponse(m) /\ m.body = r.body /\ (a.name # "content-encoding" => m.ce = r.ce)
      BY <2>1, <2>2 DEF set_header_entry, IsResponse
    <3>2. o.msg = m /\ o.out = "success"  BY <2>2 DEF RuleOutcome
    <3> QED  BY <1>1, <3>1, <3>2 DEF Covers, Labels
  <2>3. o = RuleOutcome("skipped", r) \/ o = RuleOutcome("error", r) \/ (o = RuleOutcome("success", m) /\ a.name # "illegal")
    BY <1>1, <2>1 DEF apply_response_action, ResponseHeaderAction
  <2> QED  BY <1>0, <2>2, <2>3
<1>2. CASE a.type = "body"
  <2>1. PICK new : new = NewBody(a, r.body, r.ce)  OBVIOUS
  <2>2. new.out \in {"success", "error"} /\ (new.out # "error" => IsBody(new.msg) /\ new.msg.enc = "identity")
    BY <2>1, NewBodyIsPlain DEF IsResponse
  <2>3. PICK w : w = replace_response_body(r, new.msg)  OBVIOUS
  <2>4. PICK m : m = strip_plain_body_edit_headers(w)  OBVIOUS
  <2>5. \/ o = RuleOutcome("skipped", r) \/ o = RuleOutcome("error", r)
        \/ o = RuleOutcome("success", m) /\ new.out # "error"
        \/ o = RuleOutcome("success", w) /\ new.out # "error" /\ new.msg = r.body
    BY <1>2, <2>1, <2>3, <2>4 DEF apply_response_action, ResponseBodyAction
  <2>6. CASE new.out # "error"
    <3>1. IsResponse(w) /\ w.body = new.msg /\ w.ce = r.ce  BY <2>2, <2>3, <2>6 DEF replace_response_body, IsResponse
    <3>2. IsResponse(m) /\ m.body = new.msg /\ m.ce = "identity"  BY <2>4, <3>1 DEF strip_plain_body_edit_headers, IsResponse
    <3>3. RuleOutcome("success", m).msg = m /\ RuleOutcome("success", m).out = "success"
          /\ RuleOutcome("success", w).msg = w /\ RuleOutcome("success", w).out = "success"
      BY DEF RuleOutcome
    <3> QED  BY <1>0, <2>2, <2>5, <2>6, <3>1, <3>2, <3>3 DEF Covers
  <2> QED  BY <1>0, <2>5, <2>6
<1>3. CASE a.type \notin {"header", "body"}
  <2>1. o = RuleOutcome("skipped", r)  BY <1>3 DEF apply_response_action
  <2> QED  BY <1>0, <2>1
<1> QED  BY <1>1, <1>2, <1>3

\* An action on the message of its stage.
LEMMA ActionKeeps ==
  ASSUME NEW at \in {"request", "response"}, NEW a, NEW m, Shaped(at, m), NEW h2, NEW o, o = ApplyAction(at, a, m, h2)
  PROVE  /\ Shaped(at, o.msg) /\ Unspoiled(o, m)
         /\ Told(at, m) /\ ~Labels(a) => Told(at, o.msg)
<1>1. CASE at = "request"
  <2>1. o = apply_request_action(a, m, h2) /\ IsRequest(m)  BY <1>1 DEF ApplyAction, Shaped
  <2>2. /\ IsRequest(o.msg) /\ (o.out # "success" => o.msg = m)
        /\ Covers(m.entries.ce, m.body) /\ ~Labels(a) => Covers(o.msg.entries.ce, o.msg.body)
    BY <2>1, RequestActionKeeps
  <2> QED  BY <1>1, <2>2 DEF Shaped, Told, Unspoiled
<1>2. CASE at = "response"
  <2>1. o = apply_response_action(a, m, h2) /\ IsResponse(m)  BY <1>2 DEF ApplyAction, Shaped
  <2>2. /\ IsResponse(o.msg) /\ (o.out # "success" => o.msg = m)
        /\ Covers(m.ce, m.body) /\ ~Labels(a) => Covers(o.msg.ce, o.msg.body)
    BY <2>1, ResponseActionKeeps
  <2> QED  BY <1>2, <2>2 DEF Shaped, Told, Unspoiled
<1> QED  BY <1>1, <1>2

\* The actions of a rule, one after the other: a rule none of whose actions succeeds changes
\* nothing, and one that does not write the encoding leaves it true.
LEMMA ActionsKeep ==
  ASSUME NEW at \in {"request", "response"}, NEW actions, Len(actions) \in Nat, DOMAIN actions = 1..Len(actions),
         NEW m, Shaped(at, m), NEW h2, NEW ran, ran = ApplyActions(at, actions, m, h2)
  PROVE  /\ Shaped(at, ran.msg) /\ ("success" \notin ran.outs => ran.msg = m)
         /\ Told(at, m) /\ (\A i \in DOMAIN actions : ~Labels(actions[i])) => Told(at, ran.msg)
<1> DEFINE F == CHOOSE G : RanFrom(G, at, actions, m, h2)
<1>1. ran = F[Len(actions)]  BY DEF ApplyActions, RanFrom
<1>2. RanFrom(F, at, actions, m, h2)
  <2>1. \E G : RanFrom(G, at, actions, m, h2)  BY RanExists
  <2> QED  BY <2>1, Zenon
<1> HIDE DEF F
<1> DEFINE Fine(e) ==
             /\ Shaped(at, e.msg) /\ ("success" \notin e.outs => e.msg = m)
             /\ Told(at, m) /\ (\A i \in DOMAIN actions : ~Labels(actions[i])) => Told(at, e.msg)
           Good == {n \in Nat : n <= Len(actions) => Fine(F[n])}
<1>3. F[0] = [outs |-> {}, msg |-> m]  BY <1>2 DEF RanFrom
<1>4. ASSUME NEW n \in Nat, n + 1 <= Len(actions)
      PROVE  F[n + 1] = And(F[n], ApplyAction(at, actions[n + 1], F[n].msg, h2))
  <2>1. n + 1 \in 0..Len(actions) /\ n + 1 # 0 /\ n + 1 - 1 = n  BY <1>4
  <2>2. PICK k : k = n + 1  OBVIOUS
  <2>3. F[k] = And(F[k - 1], ApplyAction(at, actions[k], F[k - 1].msg, h2))  BY <1>2, <2>1, <2>2 DEF RanFrom
  <2> QED  BY <2>1, <2>2, <2>3
<1>5. 0 \in Good
  <2>1. PICK e : e = F[0]  OBVIOUS
  <2>2. e.msg = m  BY <1>3, <2>1
  <2>3. Fine(e)  BY <2>2
  <2> QED  BY <2>1, <2>3
<1>6. ASSUME NEW n \in 0..Len(actions) - 1, n \in Good PROVE n + 1 \in Good
  <2>1. n \in Nat /\ n + 1 \in Nat /\ n + 1 <= Len(actions) /\ n <= Len(actions) /\ n + 1 \in DOMAIN actions  BY <1>6
  <2>2. PICK e, f, o, a : e = F[n] /\ f = F[n + 1] /\ a = actions[n + 1] /\ o = ApplyAction(at, a, e.msg, h2)  OBVIOUS
  <2>3. Fine(e)  BY <1>6, <2>1, <2>2
  <2>4. /\ Shaped(at, o.msg) /\ (o.out # "success" => o.msg = e.msg)
        /\ Told(at, e.msg) /\ ~Labels(a) => Told(at, o.msg)
    <3>1. PICK p : p = e.msg  OBVIOUS
    <3>2. Shaped(at, p) /\ o = ApplyAction(at, a, p, h2)  BY <2>2, <2>3, <3>1
    <3>3. Shaped(at, o.msg)  BY <3>2, ActionKeeps
    <3>4. Unspoiled(o, p)  BY <3>2, ActionKeeps
    <3>5. Told(at, p) /\ ~Labels(a) => Told(at, o.msg)  BY <3>2, ActionKeeps
    <3> QED  BY <3>1, <3>3, <3>4, <3>5 DEF Unspoiled
  <2>5. f = And(e, o)  BY <1>4, <2>1, <2>2
  <2>6. f.msg = o.msg /\ f.outs = e.outs \cup {o.out}  BY <2>5 DEF And
  <2>7. Fine(f)
    <3>1. Shaped(at, f.msg)  BY <2>4, <2>6
    <3>2. "success" \notin f.outs => f.msg = m  BY <2>3, <2>4, <2>6
    <3>3. (\A i \in DOMAIN actions : ~Labels(actions[i])) => ~Labels(a)  BY <2>1, <2>2
    <3>4. Told(at, m) /\ (\A i \in DOMAIN actions : ~Labels(actions[i])) => Told(at, f.msg)  BY <2>3, <2>4, <2>6, <3>3
    <3> QED  BY <3>1, <3>2, <3>4
  <2> QED  BY <2>1, <2>2, <2>7
<1> HIDE DEF Fine
<1>7. Len(actions) \in Good
  <2> HIDE DEF Good
  <2> QED  BY <1>5, <1>6, CountedUp
<1>8. Fine(ran)  BY <1>1, <1>7
<1> QED  BY <1>8 DEF Fine

\* A request that is rebuilt, or found without a host or with a header nobody accepts.
LEMMA RebuildKeeps ==
  ASSUME NEW r, IsRequest(r), NEW o, o = rebuild_request_runtime_state(r)
  PROVE  /\ IsRequest(o.msg) /\ o.msg.entries = r.entries /\ o.msg.body = r.body
         /\ o.out \in {"success", "error"}
         /\ o.out = "success" => o.msg.headers = o.msg.entries /\ o.msg.host = o.msg.url
<1>1. PICK b : b = [r EXCEPT !.headers = r.entries]  OBVIOUS
<1>2. IsRequest(b) /\ b.headers = r.entries /\ b.entries = r.entries /\ b.body = r.body /\ b.url = r.url  BY <1>1 DEF IsRequest
<1>3. PICK c : c = [b EXCEPT !.host = r.url]  OBVIOUS
<1>4. IsRequest(c) /\ c.headers = r.entries /\ c.entries = r.entries /\ c.body = r.body /\ c.url = r.url /\ c.host = r.url
  BY <1>2, <1>3 DEF IsRequest
<1>5. o = RuleOutcome("error", r) \/ o = RuleOutcome("error", b) \/ o = RuleOutcome("success", c)
  BY <1>1, <1>3 DEF rebuild_request_runtime_state
<1> QED  BY <1>2, <1>4, <1>5 DEF RuleOutcome

\* What a request owes after a rule, a mapping or a script that reports no failure.
Rebuilt(r) == r.headers = r.entries /\ r.host = r.url

\* A rule on the request.
LEMMA RequestRuleKeeps ==
  ASSUME NEW chosen, Len(chosen.actions) \in Nat, DOMAIN chosen.actions = 1..Len(chosen.actions),
         NEW r, IsRequest(r), NEW h2, NEW o, o = RequestRule(chosen, r, h2)
  PROVE  /\ IsRequest(o.msg)
         /\ o.out # "error" /\ Rebuilt(r) => Rebuilt(o.msg)
         /\ o.out # "error" /\ Rebuilt(r) /\ Covers(r.headers.ce, r.body) /\ ~Names(chosen) => Covers(o.msg.headers.ce, o.msg.body)
<1>1. PICK ran : ran = ApplyActions("request", chosen.actions, r, h2)  OBVIOUS
<1>2. /\ Shaped("request", ran.msg) /\ ("success" \notin ran.outs => ran.msg = r)
      /\ Told("request", r) /\ (\A i \in DOMAIN chosen.actions : ~Labels(chosen.actions[i])) => Told("request", ran.msg)
  <2>1. Shaped("request", r)  BY DEF Shaped
  <2>2. PICK actions : actions = chosen.actions  OBVIOUS
  <2>3. /\ Shaped("request", ran.msg) /\ ("success" \notin ran.outs => ran.msg = r)
        /\ Told("request", r) /\ (\A i \in DOMAIN actions : ~Labels(actions[i])) => Told("request", ran.msg)
    BY <1>1, <2>1, <2>2, ActionsKeep
  <2> QED  BY <2>2, <2>3
<1>3. PICK p : p = ran.msg  OBVIOUS
<1>4. IsRequest(p) /\ (Covers(r.entries.ce, r.body) /\ ~Names(chosen) => Covers(p.entries.ce, p.body))
  BY <1>2, <1>3 DEF Shaped, Told, Names, Labels
<1>5. PICK c : c = apply_one_request_rule(chosen, r, h2)  OBVIOUS
<1>6. c.msg = p /\ (c.out = "success" <=> "success" \in ran.outs)
  BY <1>1, <1>3, <1>5 DEF apply_one_request_rule, Concluded, RuleOutcome
<1>7. CASE c.out = "success"
  <2>1. o = rebuild_request_runtime_state(p)  BY <1>5, <1>6, <1>7 DEF RequestRule
  <2>2. /\ IsRequest(o.msg) /\ o.msg.entries = p.entries /\ o.msg.body = p.body /\ o.out \in {"success", "error"}
        /\ o.out = "success" => o.msg.headers = o.msg.entries /\ o.msg.host = o.msg.url
    BY <1>4, <2>1, RebuildKeeps
  <2> QED  BY <1>4, <2>2 DEF Rebuilt
<1>8. CASE c.out # "success"
  <2>1. o = c  BY <1>5, <1>8 DEF RequestRule
  <2>2. o.msg = r  BY <1>2, <1>3, <1>6, <1>8, <2>1
  <2> QED  BY <2>2
<1> QED  BY <1>7, <1>8

\* A rule on the response.
LEMMA ResponseRuleKeeps ==
  ASSUME NEW chosen, Len(chosen.actions) \in Nat, DOMAIN chosen.actions = 1..Len(chosen.actions),
         NEW r, IsResponse(r), NEW h2, NEW o, o = apply_one_response_rule(chosen, r, h2)
  PROVE  IsResponse(o.msg) /\ (Covers(r.ce, r.body) /\ ~Names(chosen) => Covers(o.msg.ce, o.msg.body))
<1>1. PICK ran : ran = ApplyActions("response", chosen.actions, r, h2)  OBVIOUS
<1>2. Shaped("response", ran.msg)
      /\ (Told("response", r) /\ (\A i \in DOMAIN chosen.actions : ~Labels(chosen.actions[i])) => Told("response", ran.msg))
  <2>1. Shaped("response", r)  BY DEF Shaped
  <2>2. PICK actions : actions = chosen.actions  OBVIOUS
  <2>3. Shaped("response", ran.msg)
        /\ (Told("response", r) /\ (\A i \in DOMAIN actions : ~Labels(actions[i])) => Told("response", ran.msg))
    BY <1>1, <2>1, <2>2, ActionsKeep
  <2> QED  BY <2>2, <2>3
<1>3. PICK p : p = ran.msg  OBVIOUS
<1>4. IsResponse(p) /\ (Covers(r.ce, r.body) /\ ~Names(chosen) => Covers(p.ce, p.body))
  BY <1>2, <1>3 DEF Shaped, Told, Names, Labels
<1>5. o.msg = p  BY <1>1, <1>3 DEF apply_one_response_rule, Concluded, RuleOutcome
<1> QED  BY <1>4, <1>5

\* The remote map rule.
LEMMA RemoteMapKeeps ==
  ASSUME NEW chosen, NEW r, IsRequest(r), NEW o, o = RemoteMap(chosen, r)
  PROVE  /\ IsRequest(o.msg)
         /\ o.out # "error" => Rebuilt(o.msg)
         /\ o.out # "error" /\ Rebuilt(r) /\ Covers(r.headers.ce, r.body) => Covers(o.msg.headers.ce, o.msg.body)
<1>1. PICK m : m = [r EXCEPT !.url = chosen.to]  OBVIOUS
<1>2. IsRequest(m) /\ m.entries = r.entries /\ m.body = r.body  BY <1>1 DEF IsRequest
<1>3. PICK b : b = rebuild_request_runtime_state(m)  OBVIOUS
<1>4. /\ IsRequest(b.msg) /\ b.msg.entries = m.entries /\ b.msg.body = m.body /\ b.out \in {"success", "error"}
      /\ b.out = "success" => b.msg.headers = b.msg.entries /\ b.msg.host = b.msg.url
  BY <1>2, <1>3, RebuildKeeps
<1>5. PICK a : a = apply_remote_map_rule(chosen, r)  OBVIOUS
<1>6. (a.out = "error" /\ a.msg = r) \/ a = b  BY <1>1, <1>3, <1>5 DEF apply_remote_map_rule, RuleOutcome
<1>7. CASE a.out = "success"
  <2>1. o = a /\ a = b  BY <1>5, <1>6, <1>7 DEF RemoteMap
  <2> QED  BY <1>2, <1>4, <1>7, <2>1 DEF Rebuilt
<1>8. CASE a.out # "success"
  <2>1. IsRequest(a.msg)  BY <1>4, <1>6
  <2>2. PICK n : n = [a.msg EXCEPT !.url = r.url]  OBVIOUS
  <2>3. IsRequest(n)  BY <2>1, <2>2 DEF IsRequest
  <2>4. PICK c : c = rebuild_request_runtime_state(n)  OBVIOUS
  <2>5. IsRequest(c.msg)  BY <2>3, <2>4, RebuildKeeps
  <2>6. o = RuleOutcome("error", c.msg)  BY <1>5, <1>8, <2>2, <2>4 DEF RemoteMap
  <2> QED  BY <2>5, <2>6 DEF RuleOutcome
<1> QED  BY <1>7, <1>8

\* A script hands back a body: a plain one when it changed what it was given as text.
LEMMA ScriptBody ==
  ASSUME NEW s, NEW given, IsBody(given.bytes), given.text => given.bytes.enc = "identity",
         NEW u, u = script_body_update(s, given)
  PROVE  /\ IsBody(u.bytes)
         /\ ~u.unchanged /\ ~Undecoded(s, given) => u.bytes.enc = "identity"
<1>1. PICK hasText \in BOOLEAN : hasText <=> (s.text = "edit" \/ (s.text = "echo" /\ given.text))  OBVIOUS
<1>2. PICK hasBase64 \in BOOLEAN : hasBase64 <=> (s.base64 \in {"edit", "invalid"} \/ (s.base64 = "echo" /\ given.base64))  OBVIOUS
<1>3. PICK b : b = given.bytes  OBVIOUS
<1>4. /\ IsBody(Edited("binary")) /\ IsBody(Edited("text")) /\ IsBody(EmptyBody)
      /\ Edited("binary").enc = "identity" /\ Edited("text").enc = "identity" /\ EmptyBody.enc = "identity"
  BY DEF IsBody, Edited, Body, EmptyBody
<1>5. IsBody(b) /\ (given.text => b.enc = "identity")
      /\ (~Undecoded(s, given) /\ s.base64 = "echo" /\ s.text # "edit" => b.enc = "identity")
  BY <1>3 DEF Undecoded
<1>6. CASE hasText /\ hasBase64 /\ s.base64 # "invalid"
  <2>1. u = IF s.text = "echo" /\ s.base64 = "echo" THEN [ok |-> TRUE, unchanged |-> TRUE, bytes |-> b]
            ELSE IF s.text = "echo" THEN [ok |-> TRUE, unchanged |-> FALSE, bytes |-> Edited("binary")]
            ELSE [ok |-> TRUE, unchanged |-> FALSE, bytes |-> Edited("text")]
    BY <1>1, <1>2, <1>3, <1>6 DEF script_body_update
  <2> QED  BY <1>1, <1>4, <1>5, <2>1
<1>7. CASE hasText /\ ~(hasBase64 /\ s.base64 # "invalid")
  <2>1. u = [ok |-> TRUE, unchanged |-> FALSE, bytes |-> IF s.text = "echo" THEN b ELSE Edited("text")]
    BY <1>1, <1>2, <1>3, <1>7 DEF script_body_update
  <2> QED  BY <1>1, <1>4, <1>5, <1>7, <2>1
<1>8. CASE ~hasText /\ s.base64 = "invalid"
  <2>1. u = [ok |-> FALSE, unchanged |-> FALSE, bytes |-> EmptyBody]  BY <1>1, <1>2, <1>3, <1>8 DEF script_body_update
  <2> QED  BY <1>4, <2>1
<1>9. CASE ~hasText /\ hasBase64 /\ s.base64 # "invalid"
  <2>1. u = [ok |-> TRUE, unchanged |-> FALSE, bytes |-> IF s.base64 = "echo" THEN b ELSE Edited("binary")]
    BY <1>1, <1>2, <1>3, <1>9 DEF script_body_update
  <2> QED  BY <1>1, <1>4, <1>5, <1>9, <2>1
<1>10. CASE ~hasText /\ ~hasBase64 /\ s.base64 # "invalid"
  <2>1. u = [ok |-> TRUE, unchanged |-> FALSE, bytes |-> EmptyBody]  BY <1>1, <1>2, <1>3, <1>10 DEF script_body_update
  <2> QED  BY <1>4, <2>1
<1> QED  BY <1>6, <1>7, <1>8, <1>9, <1>10

\* The bytes a script is given are a body, plain when it is given their text.
LEMMA GivenBody ==
  ASSUME NEW body, IsBody(body), NEW declared, NEW given, given = body_text_and_base64(body, declared)
  PROVE  IsBody(given.bytes) /\ (given.text => given.bytes.enc = "identity")
<1>1. PICK d : d = decode_body_bytes(body, declared)  OBVIOUS
<1>2. IsBody(d)  BY <1>1 DEF decode_body_bytes, IsBody
<1>3. PICK text \in BOOLEAN : text <=> (body # EmptyBody /\ should_render_body_as_text(d))  OBVIOUS
<1>4. PICK base \in BOOLEAN : base <=> body # EmptyBody  OBVIOUS
<1>5. given.bytes = d /\ (given.text <=> text)  BY <1>1, <1>3, <1>4 DEF body_text_and_base64
<1> QED  BY <1>2, <1>3, <1>5 DEF should_render_body_as_text

\* A script on the request.
LEMMA ScriptRequestKeeps ==
  ASSUME NEW r, IsRequest(r), NEW s, NEW o, o = apply_script_request(r, s)
  PROVE  /\ IsRequest(o.msg)
         /\ o.out # "error" => Rebuilt(o.msg)
         /\ /\ o.out # "error" /\ Rebuilt(r) /\ Covers(r.headers.ce, r.body)
            /\ ~Relabels(s, r.body, r.headers.ce) /\ s.kind = "changed"
            => Covers(o.msg.headers.ce, o.msg.body)
<1>0. CASE s.method = "invalid"
  <2>1. o = RuleOutcome("error", r)  BY <1>0 DEF apply_script_request
  <2> QED  BY <2>1 DEF RuleOutcome
<1>1. CASE s.method # "invalid" /\ s.url = "invalid"
  <2>1. PICK m : m = [r EXCEPT !.method = s.method]  OBVIOUS
  <2>2. IsRequest(m)  BY <2>1 DEF IsRequest
  <2>3. o = RuleOutcome("error", m)  BY <1>1, <2>1 DEF apply_script_request
  <2> QED  BY <2>2, <2>3 DEF RuleOutcome
<1>2. CASE s.method # "invalid" /\ s.url # "invalid"
  <2>0. ~Relabels(s, r.body, r.headers.ce) => s.headers \notin {"dropEncoding", "setEncoding"}  BY DEF Relabels
  <2>1. PICK g : g = ScriptHeaders(r.entries, s)  OBVIOUS
  <2>2. IsHeaders(g) /\ (s.headers \notin {"dropEncoding", "setEncoding"} => g.ce = r.entries.ce)
    BY <2>1 DEF ScriptHeaders, IsRequest, IsHeaders
  <2>3. PICK h : h = ScriptEntries(r.entries, s)  OBVIOUS
  <2>4. IsHeaders(h) /\ h.ce = g.ce
    <3>1. PICK no \in BOOLEAN : no = (g.illegal \/ s.headers = "illegal")  OBVIOUS
    <3>2. h = [g EXCEPT !.illegal = no]  BY <2>1, <2>3, <3>1 DEF ScriptEntries
    <3> QED  BY <2>2, <3>2 DEF IsHeaders
  <2>5. PICK m : m = [r EXCEPT !.method = s.method, !.url = s.url, !.entries = h]  OBVIOUS
  <2>6. IsRequest(m) /\ m.entries = h /\ m.body = r.body  BY <2>4, <2>5 DEF IsRequest
  <2>7. PICK new : new = script_body_update(s, body_text_and_base64(r.body, r.headers.ce))  OBVIOUS
  <2>8. /\ IsBody(new.bytes)
        /\ ~new.unchanged /\ ~Relabels(s, r.body, r.headers.ce) /\ s.kind = "changed" => new.bytes.enc = "identity"
    <3>1. PICK given : given = body_text_and_base64(r.body, r.headers.ce)  OBVIOUS
    <3>2. IsBody(given.bytes) /\ (given.text => given.bytes.enc = "identity")  BY <3>1, GivenBody DEF IsRequest
    <3>3. IsBody(new.bytes) /\ (~new.unchanged /\ ~Undecoded(s, given) => new.bytes.enc = "identity")
      BY <2>7, <3>1, <3>2, ScriptBody
    <3> QED  BY <3>1, <3>3 DEF Relabels
  <2>9. PICK k : k = strip_plain_body_edit_headers(h)  OBVIOUS
  <2>10. IsHeaders(k) /\ k.ce = "identity"  BY <2>4, <2>9 DEF strip_plain_body_edit_headers, IsHeaders
  <2>11. PICK n : n = [m EXCEPT !.body = new.bytes, !.entries = k]  OBVIOUS
  <2>12. IsRequest(n) /\ n.entries = k /\ n.body = new.bytes  BY <2>6, <2>8, <2>10, <2>11 DEF IsRequest
  <2>13. \/ o = RuleOutcome("error", m)
         \/ o = rebuild_request_runtime_state(m)
         \/ o = rebuild_request_runtime_state(n) /\ ~new.unchanged
    <3>1. m.entries = h  BY <2>6
    <3>2. n = [m EXCEPT !.body = new.bytes, !.entries = strip_plain_body_edit_headers(@)]  BY <2>6, <2>9, <2>11
    <3>3. m = [r EXCEPT !.method = s.method, !.url = s.url, !.entries = ScriptEntries(@, s)]  BY <2>3, <2>5
    <3> QED  BY <1>2, <2>7, <3>2, <3>3 DEF apply_script_request
  <2>14. CASE o = RuleOutcome("error", m)  BY <2>6, <2>14 DEF RuleOutcome
  <2>15. CASE o = rebuild_request_runtime_state(m)
    <3>1. /\ IsRequest(o.msg) /\ o.msg.entries = m.entries /\ o.msg.body = m.body /\ o.out \in {"success", "error"}
          /\ o.out = "success" => o.msg.headers = o.msg.entries /\ o.msg.host = o.msg.url
      BY <2>6, <2>15, RebuildKeeps
    <3> QED  BY <2>0, <2>2, <2>4, <2>6, <3>1 DEF Rebuilt, Covers
  <2>16. CASE o = rebuild_request_runtime_state(n) /\ ~new.unchanged
    <3>1. /\ IsRequest(o.msg) /\ o.msg.entries = n.entries /\ o.msg.body = n.body /\ o.out \in {"success", "error"}
          /\ o.out = "success" => o.msg.headers = o.msg.entries /\ o.msg.host = o.msg.url
      BY <2>12, <2>16, RebuildKeeps
    <3> QED  BY <2>8, <2>10, <2>12, <2>16, <3>1 DEF Rebuilt, Covers
  <2> QED  BY <2>13, <2>14, <2>15, <2>16
<1> QED  BY <1>0, <1>1, <1>2

\* A script on the response.
LEMMA ScriptResponseKeeps ==
  ASSUME NEW r, IsResponse(r), NEW s, NEW o, o = apply_script_response(r, s)
  PROVE  /\ IsResponse(o.msg)
         /\ Covers(r.ce, r.body) /\ ~Relabels(s, r.body, r.ce) /\ s.kind = "changed" => Covers(o.msg.ce, o.msg.body)
<1>0. ~Relabels(s, r.body, r.ce) => s.headers \notin {"dropEncoding", "setEncoding"}  BY DEF Relabels
<1>1. PICK m : m = ScriptHeaders(r, s)  OBVIOUS
<1>2. IsResponse(m) /\ m.body = r.body /\ (s.headers \notin {"dropEncoding", "setEncoding"} => m.ce = r.ce)
  BY <1>1 DEF ScriptHeaders, IsResponse
<1>3. PICK new : new = script_body_update(s, body_text_and_base64(r.body, r.ce))  OBVIOUS
<1>4. /\ IsBody(new.bytes)
      /\ ~new.unchanged /\ ~Relabels(s, r.body, r.ce) /\ s.kind = "changed" => new.bytes.enc = "identity"
  <2>1. PICK given : given = body_text_and_base64(r.body, r.ce)  OBVIOUS
  <2>2. IsBody(given.bytes) /\ (given.text => given.bytes.enc = "identity")  BY <2>1, GivenBody DEF IsResponse
  <2>3. IsBody(new.bytes) /\ (~new.unchanged /\ ~Undecoded(s, given) => new.bytes.enc = "identity")
    BY <1>3, <2>1, <2>2, ScriptBody
  <2> QED  BY <2>1, <2>3 DEF Relabels
<1>5. PICK w : w = replace_response_body(m, new.bytes)  OBVIOUS
<1>6. IsResponse(w) /\ w.body = new.bytes  BY <1>2, <1>4, <1>5 DEF replace_response_body, IsResponse
<1>7. PICK n : n = strip_plain_body_edit_headers(w)  OBVIOUS
<1>8. IsResponse(n) /\ n.ce = "identity" /\ n.body = new.bytes  BY <1>6, <1>7 DEF strip_plain_body_edit_headers, IsResponse
<1>9. \/ o = RuleOutcome("error", r) \/ o = RuleOutcome("error", m) \/ o = RuleOutcome("success", m)
      \/ o = RuleOutcome("success", n) /\ ~new.unchanged
  BY <1>1, <1>3, <1>5, <1>7 DEF apply_script_response
<1>10. o.msg = r \/ o.msg = m \/ (o.msg = n /\ ~new.unchanged)  BY <1>9 DEF RuleOutcome
<1> QED  BY <1>0, <1>2, <1>4, <1>8, <1>10 DEF Covers

\* A response of the proxy's own.
LEMMA LocalIsFine ==
  IsResponse(LocalResponse) /\ Covers(LocalResponse.ce, LocalResponse.body)
BY DEF LocalResponse, IsResponse, Covers, IsBody, Edited, Body

\* The rules of a stage are rules of the snapshot.
LEMMA StoredRule ==
  ASSUME NEW shot \in Snapshots, NEW i \in DOMAIN shot.rewrite, NEW chosen, chosen = shot.rewrite[i]
  PROVE  Len(chosen.actions) \in Nat /\ DOMAIN chosen.actions = 1..Len(chosen.actions)
BY PipelineAssumption

\* The next rewrite rule on the request.
LEMMA RewriteRequestKeeps ==
  ASSUME PipelineInv, RewriteRequest
  PROVE  PipelineInv'
<1>1. PICK i \in todo :
        /\ req' = RequestRule(snapshot.rewrite[i], req, req.h2).msg
        /\ faulted' = (faulted \/ RequestRule(snapshot.rewrite[i], req, req.h2).out = "error")
        /\ named' = (named \/ Names(snapshot.rewrite[i])) /\ todo' = todo \ {i}
  BY DEF RewriteRequest
<1>2. leg = "rewrite" /\ snapshot' = snapshot /\ resp' = resp /\ leg' = leg  BY DEF RewriteRequest
<1>3. PICK chosen, r, o, q : chosen = snapshot.rewrite[i] /\ r = req /\ o = RequestRule(chosen, r, r.h2) /\ q = req'  OBVIOUS
<1>4. snapshot \in Snapshots /\ i \in DOMAIN snapshot.rewrite /\ IsRequest(r)  BY <1>2, <1>3 DEF PipelineInv
<1>5. Len(chosen.actions) \in Nat /\ DOMAIN chosen.actions = 1..Len(chosen.actions)  BY <1>3, <1>4, StoredRule
<1>6. /\ IsRequest(o.msg)
      /\ o.out # "error" /\ Rebuilt(r) => Rebuilt(o.msg)
      /\ o.out # "error" /\ Rebuilt(r) /\ Covers(r.headers.ce, r.body) /\ ~Names(chosen) => Covers(o.msg.headers.ce, o.msg.body)
  BY <1>3, <1>4, <1>5, RequestRuleKeeps
<1>7. q = o.msg /\ (faulted' <=> faulted \/ o.out = "error") /\ (named' <=> named \/ Names(chosen))
      /\ faulted' \in BOOLEAN /\ named' \in BOOLEAN
  BY <1>1, <1>3 DEF PipelineInv
<1>8. ~faulted => Rebuilt(r)  BY <1>3 DEF PipelineInv, Rebuilt
<1>9. ~faulted /\ ~named => Covers(r.headers.ce, r.body)  BY <1>2, <1>3 DEF PipelineInv
<1>10. ~faulted' => Rebuilt(q)  BY <1>6, <1>7, <1>8
<1>11. ~faulted' /\ ~named' => Covers(q.headers.ce, q.body)  BY <1>6, <1>7, <1>8, <1>9
<1> QED  BY <1>1, <1>2, <1>3, <1>6, <1>7, <1>10, <1>11 DEF PipelineInv, Rebuilt

\* The map rule: none, a remote one, a local one.
LEMMA MapKeeps ==
  ASSUME PipelineInv, MapRequest
  PROVE  PipelineInv'
<1>1. PICK chosen : chosen = active_map_rule(snapshot.map, req)  OBVIOUS
<1>2. leg = "rewrite" /\ snapshot' = snapshot /\ named' = named  BY DEF MapRequest
<1>3. CASE UNCHANGED <<req, resp, faulted>> /\ leg' = "scripts"  BY <1>2, <1>3 DEF PipelineInv
<1>4. CASE /\ req' = RemoteMap(chosen, req).msg /\ faulted' = (faulted \/ RemoteMap(chosen, req).out = "error")
           /\ leg' = "scripts" /\ UNCHANGED resp
  <2>1. PICK r, o, q : r = req /\ o = RemoteMap(chosen, r) /\ q = req'  OBVIOUS
  <2>2. /\ IsRequest(o.msg) /\ (o.out # "error" => Rebuilt(o.msg))
        /\ o.out # "error" /\ Rebuilt(r) /\ Covers(r.headers.ce, r.body) => Covers(o.msg.headers.ce, o.msg.body)
    BY <2>1, RemoteMapKeeps DEF PipelineInv
  <2>3. q = o.msg /\ (faulted' <=> faulted \/ o.out = "error") /\ faulted' \in BOOLEAN  BY <1>4, <2>1 DEF PipelineInv
  <2>4. ~faulted => Rebuilt(r)  BY <2>1 DEF PipelineInv, Rebuilt
  <2>5. ~faulted /\ ~named => Covers(r.headers.ce, r.body)  BY <1>2, <2>1 DEF PipelineInv
  <2>6. ~faulted' => Rebuilt(q)  BY <2>2, <2>3
  <2>7. ~faulted' /\ ~named => Covers(q.headers.ce, q.body)  BY <2>2, <2>3, <2>4, <2>5
  <2> QED  BY <1>2, <1>4, <2>1, <2>2, <2>3, <2>6, <2>7 DEF PipelineInv, Rebuilt
<1>5. CASE faulted' = TRUE /\ leg' = "scripts" /\ UNCHANGED <<req, resp>>  BY <1>2, <1>5 DEF PipelineInv
<1>6. CASE resp' = LocalResponse /\ leg' = "answered" /\ UNCHANGED <<req, faulted>>  BY <1>2, <1>6, LocalIsFine DEF PipelineInv
<1> QED  BY <1>1, <1>3, <1>4, <1>5, <1>6 DEF MapRequest

\* A script on the request.
LEMMA ScriptKeepsRequest ==
  ASSUME PipelineInv, NEW s, ScriptRequest(s)
  PROVE  PipelineInv'
<1>1. leg = "scripts" /\ snapshot' = snapshot  BY DEF ScriptRequest
<1>2. (named' <=> named \/ Relabels(s, req.body, req.headers.ce)) /\ named' \in BOOLEAN  BY DEF ScriptRequest, PipelineInv
<1>3. CASE UNCHANGED <<req, resp, leg, faulted>>  BY <1>1, <1>2, <1>3 DEF PipelineInv
<1>4. CASE resp' = upstream_response_from_override(s).msg /\ leg' = "answered" /\ UNCHANGED <<req, faulted>>
  <2>1. resp' = LocalResponse  BY <1>4 DEF upstream_response_from_override, RuleOutcome
  <2> QED  BY <1>1, <1>2, <1>4, <2>1, LocalIsFine DEF PipelineInv
<1>5. CASE /\ s.kind = "changed"
           /\ req' = apply_script_request(req, s).msg /\ faulted' = (faulted \/ apply_script_request(req, s).out = "error")
           /\ UNCHANGED <<resp, leg>>
  <2>1. PICK r, o, q : r = req /\ o = apply_script_request(r, s) /\ q = req'  OBVIOUS
  <2>2. /\ IsRequest(o.msg) /\ (o.out # "error" => Rebuilt(o.msg))
        /\ o.out # "error" /\ Rebuilt(r) /\ Covers(r.headers.ce, r.body) /\ ~Relabels(s, r.body, r.headers.ce) =>
             Covers(o.msg.headers.ce, o.msg.body)
    BY <1>5, <2>1, ScriptRequestKeeps DEF PipelineInv
  <2>3. q = o.msg /\ (faulted' <=> faulted \/ o.out = "error") /\ faulted' \in BOOLEAN  BY <1>5, <2>1 DEF PipelineInv
  <2>4. ~faulted => Rebuilt(r)  BY <2>1 DEF PipelineInv, Rebuilt
  <2>5. ~faulted /\ ~named => Covers(r.headers.ce, r.body)  BY <1>1, <2>1 DEF PipelineInv
  <2>6. ~faulted' => Rebuilt(q)  BY <2>2, <2>3
  <2>7. ~faulted' /\ ~named' => Covers(q.headers.ce, q.body)  BY <1>2, <2>1, <2>2, <2>3, <2>4, <2>5
  <2> QED  BY <1>1, <1>2, <1>5, <2>1, <2>2, <2>3, <2>6, <2>7 DEF PipelineInv, Rebuilt
<1>6. CASE faulted' = TRUE /\ UNCHANGED <<req, resp, leg>>  BY <1>1, <1>2, <1>6 DEF PipelineInv
<1> QED  BY <1>3, <1>4, <1>5, <1>6 DEF ScriptRequest

\* The upstream answers.
LEMMA ReceiveKeeps ==
  ASSUME PipelineInv, NEW p, ReceiveResponse(p)
  PROVE  PipelineInv'
<1>1. PICK b, m : b = Body(p[1], p[2], 0) /\ m = [body |-> b, ce |-> p[1], etag |-> TRUE]  OBVIOUS
<1>2. b.enc = p[1] /\ IsBody(b)  BY <1>1 DEF Body, IsBody
<1>3. IsResponse(m) /\ Covers(m.ce, m.body)  BY <1>1, <1>2 DEF IsResponse, Covers
<1>4. resp' = m /\ leg' \in {"answered", "passthrough"} /\ named' = FALSE /\ UNCHANGED <<snapshot, req, todo, faulted>>
  BY <1>1 DEF ReceiveResponse
<1> QED  BY <1>3, <1>4 DEF PipelineInv

\* The next rewrite rule on the response.
LEMMA RewriteResponseKeeps ==
  ASSUME PipelineInv, RewriteResponse
  PROVE  PipelineInv'
<1>1. PICK i \in todo :
        /\ resp' = apply_one_response_rule(snapshot.rewrite[i], resp, req.h2).msg
        /\ faulted' = (faulted \/ apply_one_response_rule(snapshot.rewrite[i], resp, req.h2).out = "error")
        /\ named' = (named \/ Names(snapshot.rewrite[i])) /\ todo' = todo \ {i}
  BY DEF RewriteResponse
<1>2. leg = "response" /\ UNCHANGED <<snapshot, req, leg>>  BY DEF RewriteResponse
<1>3. PICK chosen, r, o : chosen = snapshot.rewrite[i] /\ r = resp /\ o = apply_one_response_rule(chosen, r, req.h2)  OBVIOUS
<1>4. snapshot \in Snapshots /\ i \in DOMAIN snapshot.rewrite /\ IsResponse(r)  BY <1>2, <1>3 DEF PipelineInv
<1>5. Len(chosen.actions) \in Nat /\ DOMAIN chosen.actions = 1..Len(chosen.actions)  BY <1>3, <1>4, StoredRule
<1>6. IsResponse(o.msg) /\ (Covers(r.ce, r.body) /\ ~Names(chosen) => Covers(o.msg.ce, o.msg.body))
  BY <1>3, <1>4, <1>5, ResponseRuleKeeps
<1>7. /\ resp' = o.msg /\ (named' <=> named \/ Names(chosen)) /\ named' \in BOOLEAN /\ faulted' \in BOOLEAN
      /\ ~faulted' => ~faulted
  BY <1>1, <1>3 DEF PipelineInv
<1>8. ~named => Covers(r.ce, r.body)  BY <1>2, <1>3 DEF PipelineInv
<1>9. ~named' => Covers(o.msg.ce, o.msg.body)  BY <1>6, <1>7, <1>8
<1> QED  BY <1>1, <1>2, <1>6, <1>7, <1>9 DEF PipelineInv

\* A script on the response.
LEMMA ScriptKeepsResponse ==
  ASSUME PipelineInv, NEW s, ScriptResponse(s)
  PROVE  PipelineInv'
<1>1. leg = "response_scripts" /\ UNCHANGED <<snapshot, req, leg>>  BY DEF ScriptResponse
<1>2. (named' <=> named \/ Relabels(s, resp.body, resp.ce)) /\ named' \in BOOLEAN  BY DEF ScriptResponse, PipelineInv
<1>3. CASE UNCHANGED <<resp, faulted>>  BY <1>1, <1>2, <1>3 DEF PipelineInv
<1>4. CASE s.kind = "changed" /\ resp' = apply_script_response(resp, s).msg /\ faulted' = (faulted \/ apply_script_response(resp, s).out = "error")
  <2>1. PICK r, o : r = resp /\ o = apply_script_response(r, s)  OBVIOUS
  <2>2. /\ IsResponse(o.msg)
        /\ Covers(r.ce, r.body) /\ ~Relabels(s, r.body, r.ce) => Covers(o.msg.ce, o.msg.body)
    BY <1>1, <1>4, <2>1, ScriptResponseKeeps DEF PipelineInv
  <2>3. resp' = o.msg /\ faulted' \in BOOLEAN /\ (~faulted' => ~faulted)  BY <1>4, <2>1 DEF PipelineInv
  <2>4. ~named => Covers(r.ce, r.body)  BY <1>1, <2>1 DEF PipelineInv
  <2>5. ~named' => Covers(o.msg.ce, o.msg.body)  BY <1>2, <2>1, <2>2, <2>4
  <2> QED  BY <1>1, <1>2, <2>2, <2>3, <2>5 DEF PipelineInv
<1> QED  BY <1>3, <1>4 DEF ScriptResponse

\* Every step of an exchange through the rules keeps the invariant.
LEMMA PipelineStep ==
  ASSUME PipelineInv, [NextPipeline]_pipeVars
  PROVE  PipelineInv'
<1>1. CASE UNCHANGED pipeVars  BY <1>1 DEF PipelineInv, pipeVars
<1>2. CASE RewriteRequest  BY <1>2, RewriteRequestKeeps
<1>3. CASE MapRequest  BY <1>3, MapKeeps
<1>4. CASE SelectResponseRules
  <2>1. leg = "answered" /\ leg' = "response" /\ todo' \subseteq DOMAIN snapshot.rewrite /\ named' = FALSE
        /\ UNCHANGED <<snapshot, req, resp, faulted>>
    BY <1>4 DEF SelectResponseRules, active_rewrite_rules
  <2> QED  BY <2>1 DEF PipelineInv
<1>5. CASE RewriteResponse  BY <1>5, RewriteResponseKeeps
<1>6. CASE BeginResponseScripts
  <2>1. leg = "response" /\ leg' = "response_scripts" /\ UNCHANGED <<snapshot, req, resp, faulted, named>>
    BY <1>6 DEF BeginResponseScripts
  <2> QED  BY <2>1 DEF PipelineInv
<1>7. ASSUME NEW s \in ScriptReturns, ScriptRequest(s) \/ ScriptResponse(s) PROVE PipelineInv'
  BY <1>7, ScriptKeepsRequest, ScriptKeepsResponse
<1>8. ASSUME NEW p \in Payloads, ReceiveResponse(p) PROVE PipelineInv'  BY <1>8, ReceiveKeeps
<1> QED  BY <1>1, <1>2, <1>3, <1>4, <1>5, <1>6, <1>7, <1>8 DEF NextPipeline

\* For any rules with any number of actions, any script returns and any payloads: what a
\* request and a response declare is what they carry (encoded bytes keep their encoding, plain
\* bytes have none) unless a rule or a script wrote the header itself, a script left alone a
\* body that could not be decoded, or, for the request, a trace reports a failure; and the
\* upstream gets the headers and host of the request as rewritten (DeclaredAsCarried).  PipelineInv adds where there is a response,
\* and that one just received or made is declared as carried whatever was written before.
THEOREM AlwaysDeclaredAsCarried == PipelineSpec => []DeclaredAsCarried
<1>1. PipelineInit => PipelineInv
  <2> SUFFICES ASSUME PipelineInit PROVE PipelineInv  OBVIOUS
  <2>1. PICK p \in Payloads, h2 \in BOOLEAN :
          req = [method |-> "GET", url |-> "a", host |-> "a", entries |-> [ce |-> p[1], etag |-> TRUE, illegal |-> FALSE],
                 headers |-> [ce |-> p[1], etag |-> TRUE, illegal |-> FALSE], h2 |-> h2, body |-> Body(p[1], p[2], 0)]
    BY DEF PipelineInit
  <2>2. PICK h, b : h = [ce |-> p[1], etag |-> TRUE, illegal |-> FALSE] /\ b = Body(p[1], p[2], 0)  OBVIOUS
  <2>3. IsHeaders(h) /\ IsBody(b) /\ b.enc = p[1] /\ h.ce = p[1]  BY <2>2 DEF IsHeaders, IsBody, Body
  <2>4. req = [method |-> "GET", url |-> "a", host |-> "a", entries |-> h, headers |-> h, h2 |-> h2, body |-> b]  BY <2>1, <2>2
  <2>5. IsRequest(req) /\ req.headers = req.entries /\ req.host = req.url /\ Covers(req.headers.ce, req.body)
    BY <2>3, <2>4 DEF IsRequest, Covers
  <2>6. snapshot \in Snapshots /\ resp = NoMessage /\ leg = "rewrite" /\ faulted = FALSE /\ named = FALSE
        /\ todo \subseteq DOMAIN snapshot.rewrite
    BY DEF PipelineInit, active_rewrite_rules
  <2> QED  BY <2>5, <2>6 DEF PipelineInv
<1>2. PipelineInv /\ [NextPipeline]_pipeVars => PipelineInv'  BY PipelineStep
<1>3. PipelineInv => DeclaredAsCarried  BY DEF PipelineInv, DeclaredAsCarried, Covers
<1> QED  BY <1>1, <1>2, <1>3, PTL DEF PipelineSpec

=============================================================================
