------------------------------ MODULE MCRules -------------------------------
(***************************************************************************)
(* Rules and who may change them, on small instances: the rule pipeline of *)
(* an exchange and its algorithms, user scripts, what agents are allowed,  *)
(* the automation engine, the checks on a plan, its verification, and the  *)
(* channel from an agent's tool call to the desktop.  Each behaviour runs  *)
(* one part, chosen at the start, so the state space is the sum of theirs; *)
(* the other parts keep their initial state.                               *)
(***************************************************************************)
EXTENDS RulePipeline, RuleAlgorithms, ScriptEngine, AgentControl, Automation, PlanChecks, Verification,
        ControlChannel, TLC

VARIABLE part

Interchangeable == Permutations(Conns)   \* the idempotency keys are the same two values

---------------------------------------------------------------------------
(* Rule pipeline: pairs of actions in one rule or in two, and mappings.    *)

RuleAction(type, target, name, op, mode, edit, to) ==
  [type |-> type, target |-> target, name |-> name, op |-> op, mode |-> mode, edit |-> edit, to |-> to]
HeaderAction(target, name, op) == RuleAction("header", target, name, op, "", FALSE, "")
BodyAction(target, mode, edit) == RuleAction("body", target, "", "", mode, edit, "")
Redirect(to) == RuleAction("redirect", "", "", "", "", FALSE, to)
MCActions ==
  {HeaderAction("request", "content-encoding", "set"), HeaderAction("request", "illegal", "set"),
   HeaderAction("response", "illegal", "set"), HeaderAction("response", "content-encoding", "remove"),
   Redirect("b"), Redirect(""), Redirect("invalid"),
   RuleAction("query", "", "", "", "", FALSE, ""), RuleAction("other", "", "", "", "", FALSE, "")}
  \cup {BodyAction(t, m, e) : t \in {"request", "response"}, m \in {"fields"}, e \in BOOLEAN}
  \cup {BodyAction(t, "replace", TRUE) : t \in {"request", "response"}}
\* The first action of a pair changes the request.
MCFirstActions ==
  {HeaderAction("request", "illegal", "set"), BodyAction("request", "fields", TRUE), BodyAction("request", "replace", TRUE),
   Redirect("b"), Redirect("")}
MCRule(actions, priority, lock, at) ==
  [actions |-> actions, priority |-> priority, lock |-> lock, stage |-> at, enabled |-> TRUE, methods |-> {}, urls |-> {"a", "b"}]
MCMaps ==
  {<<[priority |-> 1, lock |-> l, enabled |-> TRUE, urls |-> {"a", "b"}, mode |-> "remote", to |-> t]>> :
     l \in {"none", "a"}, t \in {"b", "", "invalid"}}
  \cup {<<[priority |-> 1, lock |-> "none", enabled |-> TRUE, urls |-> {"a"}, mode |-> "local", to |-> t]>> : t \in {"missing", "file"}}
MCSnapshots ==
  [rewrite : {<<MCRule(<<x, y>>, 1, "none", "both")>> : x \in MCFirstActions, y \in MCActions}
             \cup {<<MCRule(<<x>>, 1, "none", "request"), MCRule(<<y>>, 2, "a", "both")>> : x \in MCFirstActions, y \in MCActions},
   map : {<< >>}]
  \cup [rewrite : {<< >>} \cup {<<MCRule(<<x>>, 1, "none", "request")>> : x \in MCFirstActions}, map : MCMaps]
MCPayloads == {<<"identity", "json">>, <<"gzip", "json">>, <<"zstd", "text">>, <<"identity", "binary">>}

ScriptReturn(kind, method, url, headers, text, base64) ==
  [kind |-> kind, method |-> method, status |-> "200", url |-> url, headers |-> headers, text |-> text, base64 |-> base64]
MCScriptReturns ==
  {ScriptReturn(k, "GET", "a", "echo", "echo", "echo") : k \in {"nothing", "mock"}}
  \cup {[ScriptReturn(k, "invalid", "a", "echo", "edit", "echo") EXCEPT !.status = "invalid"] : k \in {"changed", "mock"}}
  \cup {ScriptReturn("changed", "POST", "invalid", "echo", "echo", "echo"), ScriptReturn("changed", "GET", "b", "illegal", "echo", "invalid"),
        ScriptReturn("changed", "GET", "a", "setEncoding", "echo", "echo")}
  \cup {ScriptReturn("changed", "GET", "a", "echo", t, b) : t, b \in {"echo", "edit", "null"}}

---------------------------------------------------------------------------
(* User scripts: what one exports and does; one call may fail or time out. *)

UserScript(exports, hook, body) == [exports |-> exports, hook |-> hook, body |-> body, named |-> TRUE, fits |-> TRUE, parses |-> TRUE]
MCScripts ==
  {UserScript({Form("plain", "onRequest")}, "onRequest", <<"edit", "one", "two", "log">>),
   UserScript({Form("broken_line", "onRequest"), Form("async", "onResponse")}, "onRequest", <<"edit", "log", "bad">>),
   UserScript({Form("comment", "onRequest")}, "onResponse", <<"throw">>), UserScript({Form("plain", "onRequest")}, "onRequest", <<"edit", "one", "empty">>),
   UserScript({Form("comment", "onRequest")}, "onRequest", <<"throw">>),
   UserScript({Form("plain", "onRequest"), Form("default", "onResponse")}, "onRequest", <<"edit">>),
   [UserScript({Form("plain", "onRequest")}, "onRequest", <<"edit">>) EXCEPT !.parses = FALSE]}
Troubled == CHOOSE h \in HookCalls \ Conns : TRUE
Untroubled(h) ==
  /\ threads[h].outcome \in {"none", "result"} /\ ~threads[h].cancel
  /\ calls[h].outcome \in {"RuntimeError", "InvalidResult"} => threads[h].state # "none"

---------------------------------------------------------------------------
(* Agents. *)

\* A write needs both capabilities; "read" may be granted for several uses.
MCNeeds == [o \in ControlOps |-> {"manage", "read"}]
\* Either a second grant or an edit of the settings.
MCStarts == {<<0, 1>>, <<1, 0>>}

\* Each allowance lets one or two kinds of disturbance meet a change of one or two items.
Allow(i, c, s, t, f, v) == [items |-> i, crash |-> c, save |-> s, temp |-> t, fault |-> f, verify |-> v]
MCAllowances == {Allow(2, 1, 0, 0, 0, 0), Allow(1, 1, 0, 0, 1, 0), Allow(1, 0, 1, 0, 0, 0),
                 Allow(1, 0, 0, 1, 0, 0), Allow(1, 0, 0, 0, 0, 1)}

\* Captures and the clock matter only to the checks that look at them.
Bounded ==
  /\ \A h \in HookCalls \ {Troubled} : Untroubled(h)
  /\ check.mode = "offline" => captured = << >> /\ vclock = 0 /\ times = << >>
  /\ check.mode = "external" => vclock = 0 /\ times = << >>
  /\ Len(captured) = 2 => vclock = 0

---------------------------------------------------------------------------
RulesInit ==
  /\ part \in {"pipeline", "algorithms", "scripts", "control", "automation", "plan", "verification", "channel"}
  /\ PipelineInit /\ (part # "pipeline" => snapshot = [rewrite |-> << >>, map |-> CHOOSE m \in MCMaps : TRUE]
                                         /\ ~req.h2 /\ req.body = Body("identity", "json", 0))
  /\ AlgorithmInit
  /\ EngineInit /\ (part # "scripts" => \A h \in HookCalls : calls[h].script.body = <<"edit">>)
  /\ ControlInit /\ (part # "control" => edits = 0)
  /\ AutomationInit /\ (part # "automation" => spare = Allow(2, 1, 0, 0, 0, 0))
  /\ PlanInit /\ VerificationInit /\ ChannelInit

RulesNext ==
  \/ /\ part = "pipeline" /\ NextPipeline
     /\ UNCHANGED <<part, sample, engineVars, controlVars, automationVars, asked, verificationVars, channelVars>>
  \/ /\ part = "algorithms" /\ NextAlgorithm
     /\ UNCHANGED <<part, pipeVars, engineVars, controlVars, automationVars, asked, verificationVars, channelVars>>
  \/ /\ part = "scripts" /\ NextEngine
     /\ UNCHANGED <<part, pipeVars, sample, controlVars, automationVars, asked, verificationVars, channelVars>>
  \/ /\ part = "control" /\ ControlNext
     /\ UNCHANGED <<part, pipeVars, sample, engineVars, automationVars, asked, verificationVars, channelVars>>
  \/ /\ part = "automation" /\ AutomationNext
     /\ UNCHANGED <<part, pipeVars, sample, engineVars, controlVars, asked, verificationVars, channelVars>>
  \/ /\ part = "plan" /\ PlanNext
     /\ UNCHANGED <<part, pipeVars, sample, engineVars, controlVars, automationVars, verificationVars, channelVars>>
  \/ /\ part = "verification" /\ VerificationNext
     /\ UNCHANGED <<part, pipeVars, sample, engineVars, controlVars, automationVars, asked, channelVars>>
  \/ /\ part = "channel" /\ NextChannel
     /\ UNCHANGED <<part, pipeVars, sample, engineVars, controlVars, automationVars, asked, verificationVars>>

RulesSpec ==
  /\ RulesInit
  /\ [][RulesNext]_<<part, pipeVars, sample, engineVars, controlVars, automationVars, asked, verificationVars, channelVars>>
=============================================================================
