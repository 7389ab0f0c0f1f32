---------------------------- MODULE RulePipeline ----------------------------
(***************************************************************************)
(* One exchange on its way through the rules: rewrite rules, the map rule  *)
(* and scripts on the request, rewrite rules and scripts on the response.  *)
(* A header list is abstracted to the content encoding it declares, its    *)
(* etag and whether it holds a header no HTTP library accepts; a body to   *)
(* its real encoding, its form and its version.                            *)
(***************************************************************************)
EXTENDS Naturals, Sequences, FiniteSets

CONSTANTS
  Snapshots,     \* the rewrite and map rules that may be installed, in stored order
  ScriptReturns, \* what a script hook may hand back
  Payloads,      \* encoding and form of the bodies that arrive
  MaxScripts     \* bound: script rules of one stage

\* A stored rule has a list of actions.
ASSUME PipelineAssumption ==
  /\ MaxScripts \in Nat
  /\ \A shot \in Snapshots : \A i \in DOMAIN shot.rewrite :
       LET actions == shot.rewrite[i].actions IN Len(actions) \in Nat /\ DOMAIN actions = 1..Len(actions)

VARIABLES
  snapshot, \* the rules captured when the exchange began
  req,      \* the request and the state derived from it
  resp,     \* the response, once there is one
  leg,    \* where the exchange is
  todo,     \* the rules still to apply in this stage, by their places in the list
  faulted,  \* a trace reports a failure
  named     \* since the message began, a rule or a script wrote the content-encoding header itself,
            \* or a script left a body alone that the bridge could not decode
pipeVars == <<snapshot, req, resp, leg, todo, faulted, named>>

NoMessage == [body |-> "none"]

-----------------------------------------------------------------------------
(* Bodies and their encodings: gzip can be decoded, zstd can not.          *)

Body(enc, form, v) == [enc |-> enc, form |-> form, v |-> v]
EmptyBody == Body("identity", "empty", 0)
Edited(form) == Body("identity", form, 1)

\* The decoded bytes, or the wire bytes when they can not be decoded.
decode_body_bytes(body, declared) ==
  IF declared = "gzip" /\ body.enc = "gzip" THEN [body EXCEPT !.enc = "identity"] ELSE body

should_render_body_as_text(body) == body.enc = "identity" /\ body.form \in {"json", "text"}

\* The text and base64 images of a body that a script is given.
body_text_and_base64(body, declared) ==
  LET decoded == decode_body_bytes(body, declared) IN
  [text |-> body # EmptyBody /\ should_render_body_as_text(decoded), base64 |-> body # EmptyBody, bytes |-> decoded]

\* Mutant: the encoding header survives an edit.
M_KeepEncoding(h) == [h EXCEPT !.etag = FALSE]
strip_plain_body_edit_headers(h) == [h EXCEPT !.ce = "identity", !.etag = FALSE]

replace_response_body(r, body) == [r EXCEPT !.body = body]

-----------------------------------------------------------------------------
(* The request's derived state.                                            *)

RuleOutcome(out, msg) == [out |-> out, msg |-> msg]

\* The headers are replaced before the host is found missing.
rebuild_request_runtime_state(r) ==
  IF r.entries.illegal THEN RuleOutcome("error", r)
  ELSE LET built == [r EXCEPT !.headers = r.entries] IN
       IF r.url = "" THEN RuleOutcome("error", built) ELSE RuleOutcome("success", [built EXCEPT !.host = r.url])

-----------------------------------------------------------------------------
(* Which rules apply: enabled, right stage, host lock, pattern; the higher *)
(* priority first, and the stored order among equals.                      *)

rule_stage_matches(rule, at) == rule.stage \in {"", "both", "either", at}
host_lock_matches(rule, r) == rule.lock \in {"none", r.host}
method_matches(rule, r) == rule.methods = {} \/ r.method \in rule.methods
Selects(rule, r) == rule.enabled /\ host_lock_matches(rule, r) /\ r.url \in rule.urls

Before(rules, i, j) ==
  rules[i].priority > rules[j].priority \/ (rules[i].priority = rules[j].priority /\ i < j)
ByPriority(rules, S, i) == i \in S /\ \A j \in S \ {i} : Before(rules, i, j)

active_rewrite_rules(rules, at, r) ==
  {i \in DOMAIN rules : rule_stage_matches(rules[i], at) /\ method_matches(rules[i], r) /\ Selects(rules[i], r)}

NoRule == [mode |-> "none"]
active_map_rule(rules, r) ==
  LET found == {i \in DOMAIN rules : Selects(rules[i], r)} IN
  IF found = {} THEN NoRule ELSE rules[CHOOSE i \in found : ByPriority(rules, found, i)]

-----------------------------------------------------------------------------
(* Rewrite actions.                                                        *)

\* Fields mode parses the decoded bytes; a rewrite of nothing keeps them.
apply_body_field_rewrite(body, declared, edit) ==
  LET decoded == decode_body_bytes(body, declared) IN
  IF ~should_render_body_as_text(decoded) \/ decoded.form # "json" THEN RuleOutcome("error", body)
  ELSE RuleOutcome("success", IF edit THEN Edited("json") ELSE decoded)

NewBody(a, body, declared) ==
  IF a.mode = "fields" THEN apply_body_field_rewrite(body, declared, a.edit) ELSE RuleOutcome("success", Edited("text"))

set_header_entry(h, a) ==
  CASE a.name = "content-encoding" -> [h EXCEPT !.ce = IF a.op = "remove" THEN "identity" ELSE "gzip"]
    [] a.name = "illegal" -> [h EXCEPT !.illegal = a.op # "remove"]
    [] OTHER -> h

RequestBodyAction(a, r, h2) ==
  IF a.target # "request" \/ h2 THEN RuleOutcome("skipped", r)
  ELSE LET new == NewBody(a, r.body, r.headers.ce) IN
       IF new.out = "error" THEN RuleOutcome("error", r)
       ELSE RuleOutcome("success", [r EXCEPT !.body = new.msg, !.entries = strip_plain_body_edit_headers(@)])

apply_request_action(a, r, h2) ==
  CASE a.type = "header" ->
         IF a.target # "request" THEN RuleOutcome("skipped", r)
         ELSE RuleOutcome("success", [r EXCEPT !.entries = set_header_entry(@, a)])
    [] a.type = "query" -> RuleOutcome("success", r)
    [] a.type = "body" -> RequestBodyAction(a, r, h2)
    [] a.type = "redirect" ->
         IF a.to = "invalid" THEN RuleOutcome("error", r) ELSE RuleOutcome("success", [r EXCEPT !.url = a.to])
    [] OTHER -> RuleOutcome("skipped", r)

\* Header names and values are checked before the response is touched.
ResponseHeaderAction(a, r) ==
  IF a.target # "response" THEN RuleOutcome("skipped", r)
  ELSE IF a.name = "illegal" THEN RuleOutcome("error", r)
  ELSE RuleOutcome("success", set_header_entry(r, a))

\* Encoding and integrity headers go only when the bytes really changed.
ResponseBodyAction(a, r, h2) ==
  IF a.target # "response" \/ h2 THEN RuleOutcome("skipped", r)
  ELSE LET new == NewBody(a, r.body, r.ce) IN
       IF new.out = "error" THEN RuleOutcome("error", r)
       ELSE LET written == replace_response_body(r, new.msg) IN
            RuleOutcome("success", IF new.msg # r.body THEN strip_plain_body_edit_headers(written) ELSE written)

apply_response_action(a, r, h2) ==
  CASE a.type = "header" -> ResponseHeaderAction(a, r)
    [] a.type = "body" -> ResponseBodyAction(a, r, h2)
    [] OTHER -> RuleOutcome("skipped", r)

\* A failing action leaves the others to run; a rule fails when none succeeds.
Concluded(ran) ==
  RuleOutcome(IF "success" \in ran.outs THEN "success" ELSE IF "skipped" \in ran.outs THEN "skipped" ELSE "error", ran.msg)
And(ran, o) == [outs |-> ran.outs \cup {o.out}, msg |-> o.msg]

\* The actions of a rule, in order, each on what the one before left.
ApplyAction(at, a, r, h2) == IF at = "request" THEN apply_request_action(a, r, h2) ELSE apply_response_action(a, r, h2)
ApplyActions(at, actions, r, h2) ==
  LET Ran[i \in 0..Len(actions)] ==
        IF i = 0 THEN [outs |-> {}, msg |-> r] ELSE And(Ran[i - 1], ApplyAction(at, actions[i], Ran[i - 1].msg, h2))
  IN  Ran[Len(actions)]

apply_one_request_rule(rule, r, h2) == Concluded(ApplyActions("request", rule.actions, r, h2))
apply_one_response_rule(rule, r, h2) == Concluded(ApplyActions("response", rule.actions, r, h2))

\* The derived state is rebuilt after a rule that changed something.
RequestRule(rule, r, h2) ==
  LET o == apply_one_request_rule(rule, r, h2) IN
  IF o.out = "success" THEN rebuild_request_runtime_state(o.msg) ELSE o

-----------------------------------------------------------------------------
(* The map rule.                                                           *)

apply_remote_map_rule(rule, r) ==
  IF rule.to = "invalid" THEN RuleOutcome("error", r) ELSE rebuild_request_runtime_state([r EXCEPT !.url = rule.to])

\* A remote rule that fails restores the URL and rebuilds once more.
RemoteMap(rule, r) ==
  LET o == apply_remote_map_rule(rule, r) IN
  IF o.out = "success" THEN o
  ELSE RuleOutcome("error", rebuild_request_runtime_state([o.msg EXCEPT !.url = r.url]).msg)

LocalResponse == [body |-> Edited("text"), ce |-> "identity", etag |-> FALSE]

-----------------------------------------------------------------------------
(* Scripts.                                                                *)

\* s: what the hook left in bodyText and bodyBase64 ("echo", "edit", "null", "invalid").
script_body_update(s, given) ==
  LET hasText == s.text = "edit" \/ (s.text = "echo" /\ given.text)
      hasBase64 == s.base64 \in {"edit", "invalid"} \/ (s.base64 = "echo" /\ given.base64)
      New(b) == [ok |-> TRUE, unchanged |-> FALSE, bytes |-> b]
  IN  CASE hasText /\ hasBase64 /\ s.base64 # "invalid" ->
             IF s.text = "echo" /\ s.base64 = "echo" THEN [ok |-> TRUE, unchanged |-> TRUE, bytes |-> given.bytes]
             ELSE IF s.text = "echo" THEN New(Edited("binary")) ELSE New(Edited("text"))
        [] hasText /\ ~(hasBase64 /\ s.base64 # "invalid") ->
             New(IF s.text = "echo" THEN given.bytes ELSE Edited("text"))
        [] ~hasText /\ s.base64 = "invalid" -> [ok |-> FALSE, unchanged |-> FALSE, bytes |-> EmptyBody]
        [] ~hasText /\ hasBase64 /\ s.base64 # "invalid" ->
             New(IF s.base64 = "echo" THEN given.bytes ELSE Edited("binary"))
        [] OTHER -> New(EmptyBody)

\* A body that could not be decoded has no text image, and what is not given cannot be
\* echoed: a script that leaves it alone counts as having written its bytes.
Undecoded(s, given) == given.bytes.enc # "identity" /\ s.base64 = "echo" /\ s.text # "edit"

ScriptHeaders(h, s) ==
  [h EXCEPT !.ce = CASE s.headers = "dropEncoding" -> "identity" [] s.headers = "setEncoding" -> "gzip" [] OTHER -> @]

\* A request keeps the header entry its map cannot carry.
ScriptEntries(h, s) == LET g == ScriptHeaders(h, s) IN [g EXCEPT !.illegal = (g.illegal \/ s.headers = "illegal")]

\* Method, URL and headers are written before the body can be refused.
apply_script_request(r, s) ==
  IF s.method = "invalid" THEN RuleOutcome("error", r)
  ELSE IF s.url = "invalid" THEN RuleOutcome("error", [r EXCEPT !.method = s.method])
  ELSE LET moved == [r EXCEPT !.method = s.method, !.url = s.url,
                              !.entries = ScriptEntries(@, s)]
           new == script_body_update(s, body_text_and_base64(r.body, r.headers.ce))
       IN  IF ~new.ok THEN RuleOutcome("error", moved)
           ELSE rebuild_request_runtime_state(
                  IF new.unchanged THEN moved
                  ELSE [moved EXCEPT !.body = new.bytes, !.entries = strip_plain_body_edit_headers(@)])

\* A status that is none fails first; an illegal header is dropped from a response and
\* does not fail the script.
apply_script_response(r, s) ==
  LET moved == ScriptHeaders(r, s)
      new == script_body_update(s, body_text_and_base64(r.body, r.ce))
  IN  IF s.status = "invalid" THEN RuleOutcome("error", r)
      ELSE IF ~new.ok THEN RuleOutcome("error", moved)
      ELSE IF new.unchanged THEN RuleOutcome("success", moved)
      ELSE RuleOutcome("success", strip_plain_body_edit_headers(replace_response_body(moved, new.bytes)))

\* A mock: its body is the script's own, whatever it declares; a body that is not base64
\* and a status that is none are refused.
upstream_response_from_override(s) ==
  RuleOutcome(IF s.status = "invalid" \/ (s.text = "null" /\ s.base64 = "invalid") THEN "error" ELSE "success", LocalResponse)

-----------------------------------------------------------------------------
(* The exchange.                                                           *)

PipelineInit ==
  /\ snapshot \in Snapshots
  /\ \E p \in Payloads, h2 \in BOOLEAN :
       LET h == [ce |-> p[1], etag |-> TRUE, illegal |-> FALSE] IN
       req = [method |-> "GET", url |-> "a", host |-> "a", entries |-> h, headers |-> h, h2 |-> h2, body |-> Body(p[1], p[2], 0)]
  /\ resp = NoMessage
  /\ leg = "rewrite" /\ todo = active_rewrite_rules(snapshot.rewrite, "request", req)
  /\ faulted = FALSE /\ named = FALSE

\* The rule being applied writes the content-encoding header.
Names(rule) == \E i \in DOMAIN rule.actions : rule.actions[i].type = "header" /\ rule.actions[i].name = "content-encoding"

\* apply_request_rewrite_rules_with_snapshot: one rule after the other.
RewriteRequest ==
  /\ leg = "rewrite"
  /\ \E i \in todo :
       LET rule == snapshot.rewrite[i]
           o == RequestRule(rule, req, req.h2) IN
       /\ ByPriority(snapshot.rewrite, todo, i)
       /\ req' = o.msg /\ faulted' = (faulted \/ o.out = "error")
       /\ named' = (named \/ Names(rule))
       /\ todo' = todo \ {i}
  /\ UNCHANGED <<snapshot, resp, leg>>

\* apply_map_rules_with_snapshot: at most one rule, chosen for the rewritten request.
MapRequest ==
  LET rule == active_map_rule(snapshot.map, req) IN
  /\ leg = "rewrite" /\ todo = {}
  /\ \/ /\ rule.mode \notin {"local", "remote"}
        /\ UNCHANGED <<req, resp, faulted>> /\ leg' = "scripts"
     \/ /\ rule.mode = "remote"
        /\ LET o == RemoteMap(rule, req) IN req' = o.msg /\ faulted' = (faulted \/ o.out = "error")
        /\ leg' = "scripts" /\ UNCHANGED resp
     \/ /\ rule.mode = "local"
        /\ IF rule.to = "missing"
           THEN faulted' = TRUE /\ leg' = "scripts" /\ UNCHANGED resp
           ELSE resp' = LocalResponse /\ leg' = "answered" /\ UNCHANGED faulted
        /\ UNCHANGED req
  /\ todo' = 1..MaxScripts
  /\ UNCHANGED <<snapshot, named>>

\* A script writes the header, or leaves alone a body it could not be given as text.
Relabels(s, body, declared) ==
  s.headers \in {"dropEncoding", "setEncoding"} \/ (s.kind = "changed" /\ Undecoded(s, body_text_and_base64(body, declared)))

\* The scripts run in their order, one after the other.
NextScript == \E i \in todo : (\A j \in todo : i <= j) /\ todo' = todo \ {i}

\* apply_request_script_rules: a mock ends the loop, an error and an invalid mock do not.
ScriptRequest(s) ==
  /\ leg = "scripts" /\ todo # {}
  /\ \/ /\ s.kind = "nothing" /\ UNCHANGED <<req, resp, leg, faulted>> /\ NextScript
     \/ /\ s.kind = "mock" /\ upstream_response_from_override(s).out = "success"
        /\ resp' = upstream_response_from_override(s).msg
        /\ leg' = "answered" /\ todo' = {} /\ UNCHANGED <<req, faulted>>
     \/ /\ s.kind = "mock" /\ upstream_response_from_override(s).out = "error"
        /\ faulted' = TRUE /\ NextScript /\ UNCHANGED <<req, resp, leg>>
     \/ /\ s.kind = "changed"
        /\ LET o == apply_script_request(req, s) IN req' = o.msg /\ faulted' = (faulted \/ o.out = "error")
        /\ NextScript /\ UNCHANGED <<resp, leg>>
  /\ named' = (named \/ Relabels(s, req.body, req.headers.ce))
  /\ UNCHANGED <<snapshot>>

\* The upstream's answer: a body over the capture limit is passed on untouched.
ReceiveResponse(p) ==
  /\ leg = "scripts" /\ todo = {}
  /\ resp' = [body |-> Body(p[1], p[2], 0), ce |-> p[1], etag |-> TRUE]
  /\ leg' \in {"answered", "passthrough"}
  /\ named' = FALSE
  /\ UNCHANGED <<snapshot, req, todo, faulted>>

\* Response rules are selected for the request as it was sent.
SelectResponseRules ==
  /\ leg = "answered"
  /\ leg' = "response" /\ todo' = active_rewrite_rules(snapshot.rewrite, "response", req)
  /\ named' = FALSE
  /\ UNCHANGED <<snapshot, req, resp, faulted>>

\* apply_response_rewrite_rules_with_snapshot.
RewriteResponse ==
  /\ leg = "response"
  /\ \E i \in todo :
       LET rule == snapshot.rewrite[i]
           o == apply_one_response_rule(rule, resp, req.h2) IN
       /\ ByPriority(snapshot.rewrite, todo, i)
       /\ resp' = o.msg /\ faulted' = (faulted \/ o.out = "error")
       /\ named' = (named \/ Names(rule))
       /\ todo' = todo \ {i}
  /\ UNCHANGED <<snapshot, req, leg>>

BeginResponseScripts ==
  /\ leg = "response" /\ todo = {}
  /\ leg' = "response_scripts" /\ todo' = 1..MaxScripts
  /\ UNCHANGED <<snapshot, req, resp, faulted, named>>

\* apply_response_script_rules.
ScriptResponse(s) ==
  /\ leg = "response_scripts" /\ todo # {}
  /\ \/ s.kind # "changed" /\ UNCHANGED <<resp, faulted>>
     \/ /\ s.kind = "changed"
        /\ LET o == apply_script_response(resp, s) IN resp' = o.msg /\ faulted' = (faulted \/ o.out = "error")
  /\ named' = (named \/ Relabels(s, resp.body, resp.ce))
  /\ NextScript
  /\ UNCHANGED <<snapshot, req, leg>>

NextPipeline ==
  \/ RewriteRequest \/ MapRequest \/ SelectResponseRules \/ RewriteResponse \/ BeginResponseScripts
  \/ \E s \in ScriptReturns : ScriptRequest(s) \/ ScriptResponse(s)
  \/ \E p \in Payloads : ReceiveResponse(p)

PipelineSpec == PipelineInit /\ [][NextPipeline]_pipeVars

-----------------------------------------------------------------------------

\* What a message declares is what it carries, through any rules and scripts: encoded bytes
\* keep their content-encoding and plain bytes have none (strip_plain_body_edit_headers and
\* the comment on ScriptBodyUpdate), and the upstream gets the headers and host of the request
\* as rewritten.  Excused are a header a rule or a script wrote itself, a request of which a
\* trace reports a failure, and a body that could not be decoded and that a script left alone:
\* without a text image to echo it loses the encoding it has (script_body_update).
DeclaredAsCarried ==
  /\ ~faulted => req.headers = req.entries /\ req.host = req.url
  /\ ~faulted /\ ~named /\ leg \in {"rewrite", "scripts"} => req.headers.ce = req.body.enc
  /\ ~named /\ resp # NoMessage => resp.ce = resp.body.enc
=============================================================================
