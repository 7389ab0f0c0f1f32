------------------------------ MODULE Exchange ------------------------------
(***************************************************************************)
(* One HTTP exchange through the proxy (handle_http_request in             *)
(* http_proxy.rs): parse, request rules, request breakpoint, pending       *)
(* session record, request throttle, upstream, response rules, response    *)
(* breakpoint, response throttle, final session record.  The client may    *)
(* go away at any await, which drops the future of the whole pipeline;     *)
(* PendingRequestCancellationGuard then writes the final record.           *)
(***************************************************************************)
EXTENDS Breakpoints

VARIABLES
  guard,   \* PendingRequestCancellationGuard: "none" until the pending record
           \* is sent, then "armed", then "disarmed"
  finals   \* final session records sent

recordVars == <<guard, finals>>
vars == <<rules, cancelling, pending, value, pc, stage, rule, events, shown, call,
          guard, finals>>

AwaitPCs == {"parse", "rules", "paused", "announce", "throttle", "forward",
             "process", "responseThrottle", "record"}
PCs == {"idle", "done", "gone"} \cup AwaitPCs \cup BreakpointPCs

Init ==
  /\ InitBreakpoints
  /\ pc = [s \in Sessions |-> "idle"]
  /\ guard = [s \in Sessions |-> "none"]
  /\ finals = [s \in Sessions |-> 0]

-----------------------------------------------------------------------------
Go(s, from, to) == pc[s] = from /\ pc' = [pc EXCEPT ![s] = to]

\* A request arrives; its id is new.
Accept(s) ==
  /\ Go(s, "idle", "parse")
  /\ UNCHANGED <<bpVars, recordVars>>

\* stage_parse_request: parsed; 413 or 408, which are recorded; or a read
\* error, which is not.
Parse(s) ==
  /\ Go(s, "parse", "rules") \/ Go(s, "parse", "record") \/ Go(s, "parse", "done")
  /\ UNCHANGED <<bpVars, recordVars>>

\* stage_apply_request_rules; a rule error ends the exchange unrecorded.
ApplyRequestRules(s) ==
  /\ Go(s, "rules", "check") \/ Go(s, "rules", "done")
  /\ UNCHANGED <<bpVars, recordVars>>

\* Where the pipeline goes on from a breakpoint that changed nothing.
AfterBreakpoint(s) == IF stage[s] = "request" THEN "announce" ELSE "responseThrottle"

\* Drop ends the exchange at both stages.  Mock replaces the response at the
\* response stage; at the request stage it is answered and recorded, unless a
\* rewrite rule fails on it (unrecorded) or it carries no response (forwarded).
AfterDecision(s, action) ==
  CASE action = "drop" -> {"record"}
    [] action = "mock" /\ stage[s] = "request" -> {"record", "done", AfterBreakpoint(s)}
    [] OTHER -> {AfterBreakpoint(s)}

Breakpoint(s) ==
  /\ \/ FindRule(s, AfterBreakpoint(s))
     \/ Register(s)
     \/ value[s] # None /\ \E next \in AfterDecision(s, value[s].action) : Decided(s, next)
     \/ WaitTimeout(s)
     \/ DropReceiver(s)
     \/ ReleaseUnresolved(s, AfterBreakpoint(s))
  /\ UNCHANGED recordVars

\* stage_send_pending_and_throttle: the pending record, then the guard.
Announce(s) ==
  /\ Go(s, "announce", "throttle")
  /\ guard' = [guard EXCEPT ![s] = "armed"]
  /\ UNCHANGED <<bpVars, finals>>

RequestThrottle(s) ==
  /\ Go(s, "throttle", "forward") \/ Go(s, "throttle", "record")
  /\ UNCHANGED <<bpVars, recordVars>>

\* stage_forward_upstream: a response (local or upstream) or a timeout.
Forward(s) ==
  /\ Go(s, "forward", "process") \/ Go(s, "forward", "record")
  /\ UNCHANGED <<bpVars, recordVars>>

Disarm(s) == [guard EXCEPT ![s] = IF @ = "armed" THEN "disarmed" ELSE @]

\* ForwardOutcome::UpstreamError: disarmed before the record is sent.
ForwardError(s) ==
  /\ Go(s, "forward", "record")
  /\ guard' = Disarm(s)
  /\ UNCHANGED <<bpVars, finals>>

\* stage_process_upstream_response up to its breakpoint: rewrite and script
\* rules (an error is recorded), or none for a truncated body, which also
\* skips the breakpoint.
ProcessResponse(s) ==
  /\ \/ Go(s, "process", "check") /\ stage' = [stage EXCEPT ![s] = "response"]
     \/ Go(s, "process", "responseThrottle") /\ UNCHANGED stage
     \/ Go(s, "process", "record") /\ UNCHANGED stage
  /\ UNCHANGED <<managerVars, rule, events, uiVars, recordVars>>

\* Delay or loss; either way a record follows.
ResponseThrottle(s) ==
  /\ Go(s, "responseThrottle", "record")
  /\ UNCHANGED <<bpVars, recordVars>>

\* The final record is sent and the guard disarmed; returning drops the guard,
\* which writes another record if it is still armed.
Record(s) ==
  /\ Go(s, "record", "done")
  /\ guard' = Disarm(s)
  /\ finals' = [finals EXCEPT ![s] = IF guard'[s] = "armed" THEN @ + 2 ELSE @ + 1]
  /\ UNCHANGED bpVars

M_SilentDrop(s) == finals

\* Drop for PendingRequestCancellationGuard: a 499 record, by a task of its own.
DropGuard(s) == [finals EXCEPT ![s] = IF guard[s] = "armed" THEN @ + 1 ELSE @]

\* The client disconnects at an await point.  A paused task leaves its entry in
\* the pending map and emits nothing.
ClientGone(s) ==
  /\ pc[s] \in AwaitPCs
  /\ pc' = [pc EXCEPT ![s] = "gone"]
  /\ value' = [value EXCEPT ![s] = None]
  /\ finals' = DropGuard(s)
  /\ UNCHANGED <<rules, cancelling, pending, stage, rule, events, uiVars, guard>>

\* A new exchange takes the place of one nothing refers to any more.
Recycle(s) ==
  /\ pc[s] \in {"done", "gone"}
  /\ pending[s] = None /\ events[s] = <<>> /\ shown[s] = None
  /\ call # None => call.session # s
  /\ pc' = [pc EXCEPT ![s] = "idle"]
  /\ stage' = [stage EXCEPT ![s] = "request"]
  /\ rule' = [rule EXCEPT ![s] = None]
  /\ guard' = [guard EXCEPT ![s] = "none"]
  /\ finals' = [finals EXCEPT ![s] = 0]
  /\ UNCHANGED <<managerVars, events, uiVars>>

-----------------------------------------------------------------------------
TaskStep(s) ==
  \/ Parse(s) \/ ApplyRequestRules(s) \/ Breakpoint(s) \/ Announce(s)
  \/ RequestThrottle(s) \/ Forward(s) \/ ForwardError(s) \/ ProcessResponse(s)
  \/ ResponseThrottle(s) \/ Record(s)

Next ==
  \/ \E s \in Sessions : Accept(s) \/ TaskStep(s) \/ ClientGone(s) \/ Recycle(s)
  \/ (ManagerStep \/ UiStep) /\ UNCHANGED recordVars

Spec == Init /\ [][Next]_vars

\* Tokio runs every ready task, BreakpointWait bounds the pause, and
\* forward_request returns (EveryCallReturns of UpstreamForward).  Nothing is
\* assumed of the user or of the client.
FairSpec == Spec /\ \A s \in Sessions : WF_vars(TaskStep(s))

-----------------------------------------------------------------------------
TypeOK ==
  /\ rules \subseteq Rules /\ cancelling \subseteq Rules
  /\ pending \in [Sessions -> Entries \cup {None}]
  /\ value \in [Sessions -> Decisions \cup {None}]
  /\ pc \in [Sessions -> PCs]
  /\ stage \in [Sessions -> Stages]
  /\ rule \in [Sessions -> Rules \cup {None}]
  /\ events \in [Sessions -> Seq([kind : {"hit", "released"}, stage : Stages])]
  /\ shown \in [Sessions -> Stages \cup {None}]
  /\ call \in [session : Sessions, decision : Decisions,
               reply : {"none", "ok", "no pending", "receiver dropped"}] \cup {None}
  /\ guard \in [Sessions -> {"none", "armed", "disarmed"}]
  /\ finals \in [Sessions -> 0..2]

\* A paused task can always be released: its own entry is in the pending map
\* or a decision is already in its channel.  Were it otherwise (an entry of the
\* other stage, or one removed without a send), neither the user, nor a rule
\* change, nor stopping the proxy could end the pause before the timeout.
WaiterReachable ==
  \A s \in Sessions : pc[s] = "paused" =>
    \/ value[s] # None
    \/ pending[s] # None /\ pending[s].stage = stage[s] /\ pending[s].rule = rule[s]

\* An entry of the pending map belongs to the wait its session is in, unless
\* the client went away during it: no timeout, decision or rule change leaves
\* an entry behind for a later stage to find.
EntryHasOwner ==
  \A s \in Sessions : pending[s] # None =>
    pc[s] \in WaitPCs \cup {"orphaned", "gone"} /\ pending[s].stage = stage[s]

\* No exchange is recorded as finished twice: the guard never adds a
\* client-closed record to one that was already sent.
RecordedOnce == \A s \in Sessions : finals[s] <= 1

\* An exchange that was announced as pending and is over has its final record,
\* whatever the stage at which the client left; otherwise the session list
\* would show it as running for ever.  The one exception is a client that
\* leaves while an upstream error is being recorded, which happens after the
\* guard was disarmed.
AnnouncedIsRecorded ==
  \A s \in Sessions :
    guard[s] # "none" /\ pc[s] \in {"done", "gone"} =>
      finals[s] = 1 \/ (pc[s] = "gone" /\ guard[s] = "disarmed")

\* Every exchange ends, even when nobody ever decides on its breakpoints.
EveryExchangeEnds ==
  \A s \in Sessions : pc[s] = "parse" ~> pc[s] \in {"done", "gone"}

\* The comment at the draft editors of BreakpointInterceptPanel ("Forward would
\* send the previous request's headers/body to this one"): a decision reaches
\* the hit it was made for, never the other stage of the exchange.
DecisionForItsStage ==
  \A s \in Sessions : value[s] # None => value[s].stage = stage[s]

=============================================================================
