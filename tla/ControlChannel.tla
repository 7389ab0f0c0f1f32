--------------------------- MODULE ControlChannel ---------------------------
(***************************************************************************)
(* A tool call of the MCP sidecar and the desktop's control socket.  The   *)
(* sidecar finds the desktop through a descriptor file, launches it when   *)
(* it is not there, asks for approvals, sends one request and reads one    *)
(* response; the desktop executes, writes the audit row and answers.  The  *)
(* desktop may crash, quit or restart at any point.                        *)
(***************************************************************************)
EXTENDS Naturals, FiniteSets

CONSTANTS
  Tools,         \* the tools that are called
  MaxInstances   \* bound: desktop processes started

-----------------------------------------------------------------------------
(* The tools of the MCP server.                                            *)

SessionReads == {"list_workspaces", "search_sessions", "wait_for_sessions", "get_session"}
BodyReads == {"get_session_body", "get_session_fields", "export_session_as_curl", "get_websocket_messages"}
AnalysisReads == {"get_insights", "compare_sessions", "get_app_status", "diagnose_ai_proxy_issue"}
WorkspaceTools == {"configure_workspace", "start_capture"}
ProxyTools == {"stop_capture", "set_system_proxy"}
CertificateTools == {"generate_certificate", "open_certificate_installer", "remove_certificate_trust"}
SessionTools == {"clear_sessions", "delete_sessions", "replay_session"}
RuleTools == {"create_agent_rule", "list_agent_rules", "remove_agent_rules"}
PlanTools == {"list_automation_resources", "get_automation_resource", "validate_automation_plan"}
ChangeTools == {"apply_automation_plan", "verify_automation_change"}
ChangeEndTools == {"get_automation_change", "rollback_automation_change", "clear_agent_automation"}

ControlTools == UNION {WorkspaceTools, ProxyTools, CertificateTools, SessionTools, RuleTools, PlanTools, ChangeTools, ChangeEndTools}
\* available_tools.
available_tools == UNION {SessionReads, BodyReads, AnalysisReads, ControlTools}

\* The desktop audits every operation that is not one of these.
is_write(tool) ==
  tool \in ControlTools \ {"list_agent_rules", "list_automation_resources", "get_automation_resource",
                           "validate_automation_plan", "get_automation_change"}
\* The sidecar leaves the audit row of these to the desktop.
is_agent_control_tool(tool) ==
  tool \in {"configure_workspace", "start_capture", "stop_capture", "set_system_proxy", "generate_certificate",
            "open_certificate_installer", "remove_certificate_trust", "clear_sessions", "delete_sessions", "replay_session",
            "create_agent_rule", "remove_agent_rules", "apply_automation_plan", "verify_automation_change",
            "rollback_automation_change", "clear_agent_automation"}

\* Tools that may ask for a capability of their own before they read.
NeedsCapability(tool) == tool \in (BodyReads \ {"export_session_as_curl"}) \cup {"compare_sessions"}
\* Whether an answer without its audit row is withheld; by redaction mode for two of them.
Sensitive(tool) ==
  CASE tool \in BodyReads \ {"export_session_as_curl"} -> {TRUE}
    [] tool \in {"get_session", "export_session_as_curl", "compare_sessions"} -> BOOLEAN
    [] OTHER -> {FALSE}

ASSUME ChannelAssumption == Tools \subseteq available_tools /\ MaxInstances \in Nat \ {0}

VARIABLES
  desktop,  \* the desktop process: inst (its token), up, the socket bound
  desc,     \* the instance agent-control.json names, 0 when there is no file
  beat,     \* agent-status.json: none, fresh or stale
  call,     \* the tool call of the sidecar
  handler,      \* the request in the desktop's handler
  ran,      \* history: how often the operation of the call was executed
  rows,     \* audit rows about the call: who wrote it, attempt, outcome
  probe     \* the sidecar's cached schema probe and whether the database is ready

channelVars == <<desktop, desc, beat, call, handler, ran, rows, probe>>

NoRequest == [phase |-> "none"]
NoCall == [phase |-> "idle"]

ChannelInit ==
  /\ desktop = [inst |-> 0, up |-> "down"] /\ desc = 0 /\ beat = "none"
  /\ call = NoCall /\ handler = NoRequest /\ ran = 0 /\ rows = {} /\ probe = [ok |-> FALSE, ready |-> FALSE]

DesktopRuns == desktop.up # "down"
Bound == desktop.up \in {"binding", "serving"}

-----------------------------------------------------------------------------
(* The desktop's side of the files.                                        *)

\* start: the old descriptor goes first; the name is reclaimed and the socket bound.
StartDesktop ==
  /\ ~DesktopRuns /\ desktop.inst < MaxInstances
  /\ desktop' = [inst |-> desktop.inst + 1, up |-> "binding"]
  /\ desc' = 0 /\ beat' = "fresh" /\ probe' = [probe EXCEPT !.ready = TRUE]
  /\ UNCHANGED <<handler, ran, rows>>

\* write_descriptor replaces the file in one rename.
PublishDescriptor ==
  /\ desktop.up = "binding"
  /\ desktop' = [desktop EXCEPT !.up = "serving"] /\ desc' = desktop.inst
  /\ UNCHANGED <<beat, call, handler, ran, rows, probe>>

\* The listener, the descriptor or the accept thread failed: the application runs without it.
StartFails ==
  /\ desktop.up = "binding"
  /\ desktop' = [desktop EXCEPT !.up = "deaf"] /\ desc' = 0
  /\ UNCHANGED <<beat, call, handler, ran, rows, probe>>

\* shutdown at quit, then write_shutdown; the process ends later.
ShutdownChannel ==
  /\ desktop.up \in {"serving", "deaf"}
  /\ desktop' = [desktop EXCEPT !.up = "closing"] /\ desc' = 0 /\ beat' = "none"
  /\ UNCHANGED <<call, handler, ran, rows, probe>>

\* The heartbeat thread writes until the process ends, after write_shutdown too.
Heartbeat ==
  /\ DesktopRuns /\ beat' = "fresh"
  /\ UNCHANGED <<desktop, desc, call, handler, ran, rows, probe>>

\* A crash, or the end of a quit: connections break, the files stay.
DesktopDies ==
  /\ DesktopRuns /\ desktop' = [desktop EXCEPT !.up = "down"] /\ handler' = NoRequest
  /\ call' = IF call.phase = "waiting" THEN [call EXCEPT !.phase = "broken"] ELSE call
  /\ UNCHANGED <<desc, beat, ran, rows, probe>>

\* read_capture_status: a heartbeat nobody renews for two minutes is stale.
BeatAges ==
  /\ ~DesktopRuns /\ beat = "fresh" /\ beat' = "stale"
  /\ UNCHANGED <<desktop, desc, call, handler, ran, rows, probe>>

HeartbeatFresh == beat = "fresh"

-----------------------------------------------------------------------------
(* The sidecar: descriptor, launch and approvals.                          *)

Surroundings == <<desktop, desc, beat, probe>>

\* missing: a permission the operation needs is off and may be asked for; later: the desktop
\* finds that the operation needs one more; sensitive: the answer must be audited.
BeginCall(tool, missing, later, sensitive) ==
  /\ call = NoCall /\ tool \in Tools
  /\ call' = [phase |-> IF tool \in ControlTools THEN "check" ELSE IF tool = "get_app_status" THEN "find" ELSE "config", tool |-> tool, desc |-> 0, prev |-> 0, attempt |-> 1,
              missing |-> missing, later |-> later, granted |-> FALSE, sensitive |-> sensitive, launched |-> FALSE,
              answer |-> "none", remote |-> FALSE, retryable |-> FALSE]
  /\ UNCHANGED <<Surroundings, handler, ran, rows>>

CallOnly == UNCHANGED <<Surroundings, handler, ran, rows>>
CallAt(phase) == call' = [call EXCEPT !.phase = phase] /\ CallOnly
Replied(code, remote) == [call EXCEPT !.phase = "finish", !.answer = code, !.remote = remote]
Answered(code) == call' = Replied(code, FALSE) /\ CallOnly

\* Each control tool: settings, a permission held or one that may be asked for, an audit log
\* that can be opened (for writes), and well-formed arguments.
CheckTool(outcome) ==
  /\ call.phase = "check" /\ (outcome = "auditUnavailable" => is_write(call.tool))
  /\ IF outcome = "pass" THEN CallAt("find") ELSE Answered(outcome)

\* resolve_descriptor and the head of call_control.  get_app_status never launches.
FindDescriptor ==
  /\ call.phase = "find"
  /\ IF desc # 0 THEN call' = [call EXCEPT !.phase = IF call.missing \/ NeedsCapability(call.tool) THEN "approval" ELSE "send", !.desc = desc] /\ CallOnly
     ELSE IF call.tool = "get_app_status" \/ HeartbeatFresh THEN Answered("unavailable")
     ELSE CallAt("launch")

\* descriptor_unreadable_error and validate_descriptor: a descriptor that cannot be read, is
\* incomplete or of another protocol ends the call, on looking it up and after a launch.
RefuseDescriptor == call.phase \in {"find", "poll"} /\ desc # 0 /\ Answered("unavailable")

\* launch_desktop remembers the descriptor of a crashed instance, so as not to take it again.
LaunchDesktop ==
  /\ call.phase = "launch"
  /\ IF HeartbeatFresh THEN Answered("unavailable")
     ELSE call' = [call EXCEPT !.phase = "poll", !.prev = desc, !.launched = TRUE] /\ CallOnly

\* The spawned process; while another instance runs the single-instance plugin ends it.
SpawnedStarts ==
  /\ call.phase = "poll" /\ StartDesktop /\ UNCHANGED call

UserStarts == StartDesktop /\ UNCHANGED call

descriptor_is_new(previous, current) == current # 0 /\ current # previous

PollDescriptor ==
  /\ call.phase = "poll" /\ descriptor_is_new(call.prev, desc)
  /\ call' = [call EXCEPT !.desc = desc,
                          !.phase = IF call.attempt = 1 /\ (call.missing \/ NeedsCapability(call.tool)) THEN "approval" ELSE "send"]
  /\ CallOnly

PollTimesOut == call.phase = "poll" /\ Answered("launchFailed")

\* prepare_control_auth and request_capability_grant ask the desktop of the descriptor; a
\* connection that fails here ends the call, and nothing is launched.
GrantDecision(code) ==
  /\ call.phase = "approval"
  /\ IF ~Bound THEN code = "unavailable" /\ Answered(code)
     ELSE IF call.desc # desktop.inst THEN code = "denied" /\ call' = Replied(code, TRUE) /\ CallOnly
     ELSE IF code = "approved"
       THEN call' = [call EXCEPT !.phase = IF NeedsCapability(call.tool) THEN "consume" ELSE "send", !.granted = TRUE] /\ CallOnly
       ELSE Answered(code)

\* consume_capability_grant, without launching; the desktop may be another one by now.
ConsumeGrant ==
  /\ call.phase = "consume"
  /\ IF desc # 0 /\ Bound /\ desc = desktop.inst THEN CallAt("database") ELSE Answered("unavailable")

-----------------------------------------------------------------------------
(* One request and its response.                                           *)

M_MayRelaunch(code, retryable) == code = "unavailable"
\* Only a failure to connect is retryable: after the request was sent a lost response does
\* not prove that the write did not run.
MayRelaunch(code, retryable) == code = "unavailable" /\ retryable

\* What call_control does with the error of its first attempt.
AfterFailure(code, remote, retryable) ==
  IF MayRelaunch(code, retryable) /\ call.attempt = 1 /\ call.tool # "get_app_status"
  THEN IF HeartbeatFresh THEN Replied("unavailable", FALSE) ELSE [call EXCEPT !.phase = "launch", !.attempt = 2]
  ELSE Replied(code, remote)

\* Every instance binds the same endpoint: the connection reaches whichever one is bound.
ConnectEndpoint ==
  /\ call.phase = "send"
  /\ IF Bound
     THEN /\ handler' = [phase |-> "received", valid |-> call.desc = desktop.inst, outcome |-> "none"]
          /\ call' = [call EXCEPT !.phase = "waiting"]
     ELSE handler' = NoRequest /\ call' = AfterFailure("unavailable", FALSE, TRUE)
  /\ UNCHANGED <<Surroundings, ran, rows>>

\* The connection was dropped at the limit, or the listener was not accepting any more.
ConnectionDropped ==
  /\ call.phase = "waiting" /\ handler.phase = "received"
  /\ handler' = NoRequest /\ call' = [call EXCEPT !.phase = "broken"]
  /\ UNCHANGED <<Surroundings, ran, rows>>

\* execute_request: token, settings, grants and arguments are checked before anything runs.
Refuse(outcome) ==
  /\ handler.phase = "received"
  /\ \/ ~handler.valid /\ outcome = "denied"
     \/ handler.valid /\ call.phase = "waiting" /\ call.later /\ ~call.granted /\ outcome = "approvalRequired"
     \/ handler.valid /\ outcome \in {"denied", "auditUnavailable"}
  /\ handler' = [handler EXCEPT !.phase = "executed", !.outcome = outcome]
  /\ UNCHANGED <<Surroundings, call, ran, rows>>

Perform(outcome) ==
  /\ handler.phase = "received" /\ handler.valid /\ outcome \in {"ok", "failed"}
  /\ (call.phase = "waiting" /\ call.later) => call.granted
  /\ ran' = ran + 1 /\ handler' = [handler EXCEPT !.phase = "executed", !.outcome = outcome]
  /\ UNCHANGED <<Surroundings, call, rows>>

\* append_control_audit; a success without its row is not reported as one.
Audit(written) ==
  /\ handler.phase = "executed"
  /\ IF is_write(call.tool) /\ written THEN rows' = rows \cup {<<"desktop", call.attempt, handler.outcome>>} ELSE rows' = rows
  /\ handler' = [handler EXCEPT !.phase = "respond", !.outcome = IF is_write(call.tool) /\ ~written /\ @ = "ok" THEN "auditLost" ELSE @]
  /\ UNCHANGED <<Surroundings, call, ran>>

\* cap_response_size and the write of the response.
Respond(outcome) ==
  /\ handler.phase = "respond"
  /\ outcome = handler.outcome \/ (handler.outcome = "ok" /\ outcome = "resultTooLarge")
  /\ handler' = NoRequest
  /\ call' = IF call.phase # "waiting" THEN call
             ELSE IF outcome = "ok" THEN Replied("ok", FALSE)
             ELSE IF outcome = "approvalRequired" /\ call.attempt = 1 THEN [call EXCEPT !.phase = "approval", !.attempt = 2]
             ELSE AfterFailure(outcome, TRUE, FALSE)
  /\ UNCHANGED <<Surroundings, ran, rows>>

\* mark_lost_write_response: a write that reached the socket may have been executed and audited.
mark_lost_write_response(code) == AfterFailure(code, is_write(call.tool), FALSE)

ResponseLost ==
  /\ call.phase = "broken" /\ call' = mark_lost_write_response("unavailable") /\ CallOnly
ResponseTimesOut ==
  /\ call.phase = "waiting" /\ call' = mark_lost_write_response("timeout") /\ CallOnly

-----------------------------------------------------------------------------
(* Queries and the end of every call.                                      *)

\* config and the schema probe, which is repeated only while it has failed.
CheckConfig(enabled) ==
  /\ call.phase = "config"
  /\ IF ~enabled THEN Answered("disabled")
     ELSE CallAt(IF NeedsCapability(call.tool) /\ call.missing THEN "find" ELSE "database")
Probed == probe.ok \/ probe.ready
QueryDatabase(outcome) ==
  /\ call.phase = "database"
  /\ outcome = "unavailable" <=> ~Probed
  /\ probe' = [probe EXCEPT !.ok = Probed] /\ ran' = IF Probed THEN ran + 1 ELSE ran
  /\ call' = Replied(outcome, FALSE)
  /\ UNCHANGED <<desktop, desc, beat, handler, rows>>

\* finish_success_with_summary and finish_error_with_summary; get_app_status turns an
\* unreachable desktop into an answer of its own.
SidecarRow(outcome) == <<"sidecar", call.attempt, outcome>>
FinishCall(fits, written) ==
  /\ call.phase = "finish"
  /\ LET good     == call.answer = "ok" \/ (call.tool = "get_app_status" /\ call.answer \in {"unavailable", "timeout"})
         answer   == IF good /\ ~fits THEN "resultTooLarge" ELSE IF good THEN "ok" ELSE call.answer
         recorded == IF answer = "ok" THEN ~is_agent_control_tool(call.tool)
                     ELSE ~(is_agent_control_tool(call.tool) /\ call.remote /\ ~good) IN
     /\ rows' = IF recorded /\ written THEN rows \cup {SidecarRow(answer)} ELSE rows
     /\ call' = [call EXCEPT !.phase = "done",
                             !.answer = IF answer = "ok" /\ recorded /\ ~written /\ call.sensitive THEN "auditUnavailable" ELSE answer]
  /\ UNCHANGED <<Surroundings, handler, ran>>

NextChannel ==
  \/ UserStarts \/ PublishDescriptor \/ StartFails \/ ShutdownChannel \/ Heartbeat \/ DesktopDies \/ BeatAges
  \/ \E t \in Tools, m, l \in BOOLEAN : \E s \in Sensitive(t) : BeginCall(t, m, l, s)
  \/ \E c \in {"pass", "disabled", "denied", "auditUnavailable", "invalid"} : CheckTool(c)
  \/ FindDescriptor \/ RefuseDescriptor \/ LaunchDesktop \/ SpawnedStarts \/ PollDescriptor \/ PollTimesOut
  \/ \E c \in {"approved", "denied", "expired", "unavailable"} : GrantDecision(c)
  \/ ConsumeGrant \/ ConnectEndpoint \/ ConnectionDropped
  \/ \E o \in {"denied", "approvalRequired", "auditUnavailable"} : Refuse(o)
  \/ \E o \in {"ok", "failed"} : Perform(o)
  \/ \E w \in BOOLEAN : Audit(w)
  \/ \E o \in {"ok", "failed", "denied", "approvalRequired", "auditUnavailable", "auditLost", "resultTooLarge"} : Respond(o)
  \/ ResponseLost \/ ResponseTimesOut
  \/ \E e \in BOOLEAN : CheckConfig(e)
  \/ \E o \in {"ok", "failed", "timeout", "unavailable"} : QueryDatabase(o)
  \/ \E f, w \in BOOLEAN : FinishCall(f, w)

ChannelSpec == ChannelInit /\ [][NextChannel]_channelVars

-----------------------------------------------------------------------------
(* Properties.                                                             *)

\* Whatever the desktop does, the answer of a call tells the truth about it: the operation ran
\* at most once over both attempts, an answer that says it was not done means it was not and
\* will not be, a write reported done has its audit row, and a write that ran without a row,
\* or with an error row of the sidecar, was answered as uncertain (call_control,
\* mark_lost_write_response, finish_error_with_summary).
AnswersAreTrue ==
  /\ ran <= 1
  /\ call.phase = "done" =>
       /\ call.answer \in {"denied", "expired", "launchFailed", "disabled", "invalid", "approvalRequired"} => ran = 0 /\ handler = NoRequest
       /\ is_write(call.tool) =>
            /\ call.answer = "unavailable" /\ ~call.remote => ran = 0
            /\ call.answer = "ok" => ran = 1 /\ \E a \in {1, 2} : <<"desktop", a, "ok">> \in rows
            /\ (ran = 1 /\ handler = NoRequest /\ ~\E r \in rows : r[1] = "desktop") =>
                 call.answer \in {"auditLost", "unavailable", "timeout", "resultTooLarge", "failed"}
            /\ (ran = 1 /\ \E r \in rows : r[1] = "sidecar") => call.answer = "resultTooLarge"
=============================================================================
