---------------------------- MODULE Breakpoints ----------------------------
(***************************************************************************)
(* Breakpoints: the BreakpointManager of proxy-core (breakpoints.rs), the  *)
(* tasks it pauses, and the front end that shows a paused exchange and     *)
(* sends the user's decision back (breakpoint.store.ts,                    *)
(* use-breakpoint-events.ts, BreakpointInterceptPanel.tsx).                *)
(*                                                                         *)
(* A session is one exchange; the rest of its pipeline is in Exchange,     *)
(* which closes the system.  The pending map is keyed by the session id    *)
(* alone, so both stages of an exchange use the same entry.                *)
(***************************************************************************)
EXTENDS Sequences, FiniteSets, Integers

CONSTANTS
  Sessions,       \* exchanges (request ids)
  RequestRules,   \* breakpoint rules whose stage is Request
  ResponseRules,  \* breakpoint rules whose stage is Response
  None            \* "no entry", "no value", "no rule", "no call"

Stages == {"request", "response"}
Rules == RequestRules \cup ResponseRules
RulesOf(stg) == IF stg = "request" THEN RequestRules ELSE ResponseRules
Actions == {"forward", "drop", "mock"}

\* A BreakpointResolution, with the stage of the hit it was made for: a fact
\* about the user that the message itself does not carry.
Decisions == [stage : Stages, action : Actions]

\* PendingBreakpoint; the stage identifies the channel of its sender.
Entries == [rule : Rules, stage : Stages]

ASSUME NoneAssumption ==
  None \notin Sessions \cup Rules \cup Stages \cup Decisions \cup Entries

VARIABLES
  rules,       \* BreakpointManager.rules: the enabled ones
  cancelling,  \* ids set_rules has removed and still has to cancel
  pending,     \* BreakpointManager.pending: session -> entry
  value,       \* what the oneshot channel of the session's waiter holds
  pc,          \* where the task of a session is
  stage,       \* the stage it is in
  rule,        \* the rule it matched
  events,      \* events emitted to the front end, not yet delivered
  shown,       \* pendingHits: the stage of the hit shown for a session
  call         \* the resolve_breakpoint call in flight (resolvingAction)

managerVars == <<rules, cancelling, pending, value>>
uiVars == <<shown, call>>
bpVars == <<rules, cancelling, pending, value, stage, rule, events, shown, call>>

\* The channel is live from register_pending until the awaiting future is
\* dropped, just after the wait is over.
WaitPCs == {"paused", "elapsed"}
BreakpointPCs == {"check", "matched", "orphaned"} \cup WaitPCs

InitBreakpoints ==
  /\ rules = Rules /\ cancelling = {}
  /\ pending = [s \in Sessions |-> None]
  /\ value = [s \in Sessions |-> None]
  /\ stage = [s \in Sessions |-> "request"]
  /\ rule = [s \in Sessions |-> None]
  /\ events = [s \in Sessions |-> <<>>]
  /\ shown = [s \in Sessions |-> None]
  /\ call = None

-----------------------------------------------------------------------------
(* BreakpointManager.                                                      *)

M_RemoveWithoutSending(S) ==
  /\ pending' = [s \in Sessions |-> IF s \in S THEN None ELSE pending[s]]
  /\ UNCHANGED value

\* The entries of S leave the map, each with a Forward sent to its waiter; the
\* send to a receiver that is gone is ignored.
CancelPending(S) ==
  /\ pending' = [s \in Sessions |-> IF s \in S THEN None ELSE pending[s]]
  /\ value' = [s \in Sessions |->
                 IF s \in S /\ pc[s] \in WaitPCs
                 THEN [stage |-> stage[s], action |-> "forward"]
                 ELSE value[s]]

\* set_rules, first half: replace the rules under their lock.
SetRules(new) ==
  /\ cancelling = {} /\ new # rules
  /\ rules' = new
  /\ cancelling' = rules \ new
  /\ UNCHANGED <<pending, value, pc, stage, rule, events, uiVars>>

\* set_rules, second half: the rules lock is released before the pending lock
\* is taken, so tasks run in between.
CancelForRules ==
  /\ cancelling # {}
  /\ CancelPending({s \in Sessions : pending[s] # None /\ pending[s].rule \in cancelling})
  /\ cancelling' = {}
  /\ UNCHANGED <<rules, pc, stage, rule, events, uiVars>>

\* cancel_all: the proxy stops or restarts.
CancelAll ==
  /\ \E s \in Sessions : pending[s] # None
  /\ CancelPending({s \in Sessions : pending[s] # None})
  /\ UNCHANGED <<rules, cancelling, pc, stage, rule, events, uiVars>>

\* resolve: the handler of the resolve_breakpoint command.
Resolve ==
  /\ call # None /\ call.reply = "none"
  /\ LET s == call.session IN
     /\ pending' = [pending EXCEPT ![s] = None]
     /\ value' = IF pending[s] # None /\ pc[s] \in WaitPCs
                 THEN [value EXCEPT ![s] = call.decision] ELSE value
     /\ call' = [call EXCEPT !.reply =
                   IF pending[s] = None THEN "no pending"
                   ELSE IF pc[s] \in WaitPCs THEN "ok" ELSE "receiver dropped"]
  /\ UNCHANGED <<rules, cancelling, pc, stage, rule, events, shown>>

-----------------------------------------------------------------------------
(* intercept_request_stage and intercept_response_stage.  `after` is where *)
(* the pipeline goes when the exchange is not intercepted.                 *)

\* find_matching_rule_id: some enabled rule of the stage, or none.
FindRule(s, after) ==
  /\ pc[s] = "check"
  /\ \/ \E r \in rules \cap RulesOf(stage[s]) :
          /\ rule' = [rule EXCEPT ![s] = r]
          /\ pc' = [pc EXCEPT ![s] = "matched"]
     \/ /\ pc' = [pc EXCEPT ![s] = after]
        /\ UNCHANGED rule
  /\ UNCHANGED <<managerVars, stage, events, uiVars>>

\* register_pending, then emit breakpoint-hit.
Register(s) ==
  /\ pc[s] = "matched"
  /\ pending' = [pending EXCEPT ![s] = [rule |-> rule[s], stage |-> stage[s]]]
  /\ value' = [value EXCEPT ![s] = None]
  /\ events' = [events EXCEPT ![s] = Append(@, [kind |-> "hit", stage |-> stage[s]])]
  /\ pc' = [pc EXCEPT ![s] = "paused"]
  /\ UNCHANGED <<rules, cancelling, stage, rule, uiVars>>

\* The receiver yields a decision; the pipeline goes on at `next`.
Decided(s, next) ==
  /\ pc[s] = "paused" /\ value[s] # None
  /\ value' = [value EXCEPT ![s] = None]
  /\ pc' = [pc EXCEPT ![s] = next]
  /\ UNCHANGED <<rules, cancelling, pending, stage, rule, events, uiVars>>

M_RequestStageTimeout(s) ==
  /\ pc[s] = "paused" /\ value[s] = None /\ stage[s] = "request"
  /\ pc' = [pc EXCEPT ![s] = "elapsed"]
  /\ UNCHANGED bpVars

\* BreakpointWait elapsed with an empty channel.
WaitTimeout(s) ==
  /\ pc[s] = "paused" /\ value[s] = None
  /\ pc' = [pc EXCEPT ![s] = "elapsed"]
  /\ UNCHANGED bpVars

\* The awaiting future and its receiver are dropped; a value that arrived
\* after the last poll is lost with them.
DropReceiver(s) ==
  /\ pc[s] = "elapsed"
  /\ value' = [value EXCEPT ![s] = None]
  /\ pc' = [pc EXCEPT ![s] = "orphaned"]
  /\ UNCHANGED <<rules, cancelling, pending, stage, rule, events, uiVars>>

M_KeepPending(s) == pending

\* remove_pending
RemovePending(s) == [pending EXCEPT ![s] = None]

\* remove_pending, emit breakpoint-released, go on unmodified.
ReleaseUnresolved(s, after) ==
  /\ pc[s] = "orphaned"
  /\ pending' = RemovePending(s)
  /\ events' = [events EXCEPT ![s] = Append(@, [kind |-> "released", stage |-> stage[s]])]
  /\ pc' = [pc EXCEPT ![s] = after]
  /\ UNCHANGED <<rules, cancelling, value, stage, rule, uiVars>>

-----------------------------------------------------------------------------
(* The front end.                                                          *)

\* addPendingHit replaces the hit of the same session; a released event
\* removes whatever hit the session has.
DeliverEvent(s) ==
  /\ events[s] # <<>>
  /\ shown' = [shown EXCEPT ![s] =
                 IF Head(events[s]).kind = "hit" THEN Head(events[s]).stage ELSE None]
  /\ events' = [events EXCEPT ![s] = Tail(@)]
  /\ UNCHANGED <<managerVars, pc, stage, rule, call>>

\* handleResolve: one call at a time.
Decide(s, action) ==
  /\ call = None /\ shown[s] # None
  /\ call' = [session |-> s, reply |-> "none",
              decision |-> [stage |-> shown[s], action |-> action]]
  /\ UNCHANGED <<managerVars, pc, stage, rule, events, shown>>

\* The promise settles: success and "no pending breakpoint" remove the hit of
\* the session, any other error leaves it.
Settle ==
  /\ call # None /\ call.reply # "none"
  /\ shown' = IF call.reply = "receiver dropped" THEN shown
              ELSE [shown EXCEPT ![call.session] = None]
  /\ call' = None
  /\ UNCHANGED <<managerVars, pc, stage, rule, events>>

ManagerStep == (\E new \in SUBSET Rules : SetRules(new)) \/ CancelForRules \/ CancelAll

UiStep ==
  \/ \E s \in Sessions : DeliverEvent(s) \/ \E a \in Actions : Decide(s, a)
  \/ Resolve \/ Settle

=============================================================================
