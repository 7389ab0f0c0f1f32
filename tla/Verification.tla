---------------------------- MODULE Verification ----------------------------
(***************************************************************************)
(* verify_automation_change: evidence that an active change does what its  *)
(* plan says.  Offline evidence evaluates the rules on a request, external *)
(* evidence reads sessions a client made, proxied evidence sends requests  *)
(* through the running proxy, rate limited, and finds the session each one *)
(* left in a list other clients write to at the same time.  The result is  *)
(* recorded under the mutation lock, if the change still stands then.      *)
(***************************************************************************)
EXTENDS Naturals, Sequences, FiniteSets

CONSTANTS
  RateLimit,   \* MAX_PROXY_VERIFICATION_REQUESTS_PER_MINUTE
  Window,      \* the minute it counts over
  MaxClock,    \* bound: how far the clock runs
  MaxRequests, \* bound: requests of a verification
  MaxCaptured  \* bound: sessions captured

ASSUME VerificationAssumption == {RateLimit, Window, MaxClock, MaxRequests, MaxCaptured} \subseteq Nat \ {0}

VARIABLES
  vclock,    \* the time
  times,     \* PROXY_VERIFICATION_TIMES
  reserved,  \* history: when each slot was reserved, in order
  captured,  \* the captured sessions, oldest first
  check,     \* the verification under way and what it has found
  standing   \* the change under test: "active", "edited" (a target is no longer as it left it), "ended"

verificationVars == <<vclock, times, reserved, captured, check, standing>>

\* What the rules left on an exchange: none matched, others did, a target did, or a target
\* matched and failed.
Traces == {"none", "other", "target", "failed"}
\* A captured session: like the request or not, made by the verification, its trace, an
\* upstream failure, a redirect off the host, a replay, before the change became active.
Session(like, own, trace, upstream, kind) == [like |-> like, own |-> own, trace |-> trace, upstream |-> upstream, kind |-> kind]
\* A session taken as evidence, its place in the list and how many the list had when the
\* request went out.
Seen(s, place, mark) == [s |-> s, place |-> place, mark |-> mark]
NoCheck == [mode |-> "none"]

VerificationInit ==
  /\ vclock = 0 /\ times = << >> /\ reserved = << >> /\ captured = << >> /\ check = NoCheck /\ standing = "active"

\* mark and stood are history: the sessions there when the last request went out, and what
\* the change was when the result was recorded.
Started(mode, n, targets) ==
  [mode |-> mode, todo |-> n, targets |-> targets, sent |-> FALSE, before |-> {}, mark |-> 0, used |-> << >>,
   statuses |-> << >>, overall |-> "none", stood |-> "none"]

-----------------------------------------------------------------------------
(* What one request shows.                                                 *)

\* matched_rule_ids and classify_match_status: a rule that failed leaves a trace too, and
\* its outcome is not looked at.
TargetMatched(trace) == trace \in {"target", "failed"}
classify_match_status(targets, trace) ==
  IF ~targets THEN "insufficient_evidence"
  ELSE IF TargetMatched(trace) THEN "passed"
  ELSE IF trace = "other" THEN "shadowed" ELSE "not_matched"

\* Assertions only turn a pass into a failure.
Asserted(status, hold) == IF status = "passed" /\ ~hold THEN "assertion_failed" ELSE status

\* verify_offline for one request.
OfflineStatus(targets, trace, hold, evaluated) ==
  LET status == Asserted(IF trace = "failed" THEN "rule_failed" ELSE classify_match_status(targets, trace), hold) IN
  IF ~evaluated /\ status \in {"passed", "not_matched", "shadowed"} THEN "insufficient_evidence" ELSE status

\* verify_external for one session.
ExternalStatus(targets, s, hold) ==
  Asserted(IF s.upstream THEN "upstream_failed" ELSE classify_match_status(targets, s.trace), hold)

\* verify_proxy for one request and the session found for it, if any.
ProxyStatus(targets, link, hold) ==
  IF link = {} THEN "insufficient_evidence"
  ELSE LET s == CHOOSE x \in link : TRUE IN
       Asserted(IF s.kind = "crossHost" THEN "rule_failed"
                ELSE IF s.upstream THEN "upstream_failed" ELSE classify_match_status(targets, s.trace), hold)

\* persist_verification: passed when all are, otherwise the gravest.
Gravest == <<"rule_failed", "assertion_failed", "upstream_failed", "shadowed", "insufficient_evidence">>
Overall(statuses) ==
  LET seen == {statuses[i] : i \in DOMAIN statuses}
      bad  == {i \in DOMAIN Gravest : Gravest[i] \in seen} IN
  IF seen \subseteq {"passed"} THEN "passed"
  ELSE IF bad = {} THEN "not_matched" ELSE Gravest[CHOOSE i \in bad : \A j \in bad : i <= j]

Noted(status, link) ==
  check' = [check EXCEPT !.statuses = Append(@, status), !.used = Append(@, link), !.todo = @ - 1, !.sent = FALSE]

-----------------------------------------------------------------------------
(* Offline and external evidence.                                          *)

BeginOffline(n, targets) ==
  /\ check = NoCheck /\ standing = "active" /\ check' = Started("offline", n, targets)
  /\ UNCHANGED <<vclock, times, reserved, captured, standing>>

\* Response-stage rules need a baseline response to be evaluated.
OfflineRequest(trace, hold, evaluated) ==
  /\ check.mode = "offline" /\ check.todo > 0
  /\ Noted(OfflineStatus(check.targets, trace, hold, evaluated),
           {Seen(Session(TRUE, TRUE, trace, FALSE, IF evaluated THEN "evaluated" ELSE "partial"), 0, 0)})
  /\ UNCHANGED <<vclock, times, reserved, captured, standing>>

BeginExternal(n, targets) ==
  /\ check = NoCheck /\ standing = "active" /\ Len(captured) > 0 /\ check' = Started("external", n, targets)
  /\ UNCHANGED <<vclock, times, reserved, captured, standing>>

\* A replay bypasses the rules, an earlier session ran without them: both are refused.
Admissible(s) == s.kind \notin {"replay", "early"}
ExternalSession(i, hold) ==
  /\ check.mode = "external" /\ check.todo > 0
  /\ IF Admissible(captured[i]) THEN Noted(ExternalStatus(check.targets, captured[i], hold), {Seen(captured[i], i, 0)}) ELSE check' = NoCheck
  /\ UNCHANGED <<vclock, times, reserved, captured, standing>>

-----------------------------------------------------------------------------
(* Proxied evidence.                                                       *)

\* The oldest reservations go while they are a window old: the first k of them.
PoppedFirst(now, window, k) ==
  /\ \A j \in 1..k : now - times[j] >= window
  /\ k < Len(times) => now - times[k + 1] < window
Popped(now, window) == SubSeq(times, (CHOOSE k \in 0..Len(times) : PoppedFirst(now, window, k)) + 1, Len(times))

M_Fresh(now) == Popped(now, Window - 1)
\* reserve_proxy_verification_slots: the reservations of the last minute.
Recent(now) == Popped(now, Window)

WithinLimit(n) == Len(Recent(vclock)) + n <= RateLimit

\* The slots are taken before anything else is checked; old ones are dropped even when
\* the limit refuses the call.
BeginProxy(n, targets) ==
  LET slots == IF WithinLimit(n) THEN [i \in 1..n |-> vclock] ELSE << >> IN
  /\ check = NoCheck /\ standing = "active"
  /\ times' = Recent(vclock) \o slots /\ reserved' = reserved \o slots
  /\ \/ WithinLimit(n) /\ check' = Started("proxy", n, targets)
     \/ UNCHANGED check \* refused, the proxy is not running, a target is not allowed, HTTPS is not set up
  /\ UNCHANGED <<vclock, captured, standing>>

\* The client sends the request; `before` holds the sessions already there.
SendRequest ==
  /\ check.mode = "proxy" /\ check.todo > 0 /\ ~check.sent
  /\ check' = [check EXCEPT !.sent = TRUE, !.before = DOMAIN captured, !.mark = Len(captured)]
  /\ UNCHANGED <<vclock, times, reserved, captured, standing>>

\* The request fails, or its answer is larger than MAX_PROXY_VERIFICATION_BODY_BYTES.
SendFails ==
  /\ check.mode = "proxy" /\ check.sent /\ check' = NoCheck
  /\ UNCHANGED <<vclock, times, reserved, captured, standing>>

\* A session reaches the list: the request's own or another client's.
Capture(s) ==
  /\ Len(captured) < MaxCaptured
  /\ s.own => check.mode = "proxy" /\ check.sent /\ s.like /\ \A i \in DOMAIN captured \ check.before : ~captured[i].own
  /\ captured' = Append(captured, s)
  /\ UNCHANGED <<vclock, times, reserved, check, standing>>

\* find_verification_session: a session that was not there, with the request's method and URL.
Findable == {i \in DOMAIN captured \ check.before : captured[i].like}
Link(i, hold) ==
  /\ check.mode = "proxy" /\ check.sent /\ i \in Findable
  /\ Noted(ProxyStatus(check.targets, {captured[i]}, hold), {Seen(captured[i], i, check.mark)})
  /\ UNCHANGED <<vclock, times, reserved, captured, standing>>
\* PROXY_SESSION_WAIT passes without one.
LinkNone(hold) ==
  /\ check.mode = "proxy" /\ check.sent /\ Findable = {}
  /\ Noted(ProxyStatus(check.targets, {}, hold), {})
  /\ UNCHANGED <<vclock, times, reserved, captured, standing>>

\* Under automation_mutation_lock: ensure_change_still_active and
\* ensure_verification_targets_current, then persist_verification; evidence about a change
\* that ended or was edited meanwhile is discarded.
FinishCheck ==
  /\ check # NoCheck /\ check.todo = 0 /\ check.overall = "none"
  /\ check' = IF standing = "active" THEN [check EXCEPT !.overall = Overall(check.statuses), !.stood = standing] ELSE NoCheck
  /\ UNCHANGED <<vclock, times, reserved, captured, standing>>

\* Rollback, cleanup, clear or promotion end the change, and another plan or the user edits a
\* target or puts its content back, all while evidence is gathered without the lock.
ChangeMoves ==
  /\ \/ standing = "active" /\ standing' \in {"edited", "ended"}
     \/ standing = "edited" /\ standing' \in {"active", "ended"}
  /\ UNCHANGED <<vclock, times, reserved, captured, check>>

EndCheck == check # NoCheck /\ check.overall # "none" /\ check' = NoCheck /\ UNCHANGED <<vclock, times, reserved, captured, standing>>
TickClock == vclock < MaxClock /\ vclock' = vclock + 1 /\ UNCHANGED <<times, reserved, captured, check, standing>>

-----------------------------------------------------------------------------
\* Sessions that differ from a plain one in one respect.
Capturable ==
  {Session(p[1], p[2], p[3], FALSE, "plain") : p \in BOOLEAN \X BOOLEAN \X {"none", "target"}}
  \cup {Session(TRUE, TRUE, t, FALSE, "plain") : t \in {"other", "failed"}} \cup {Session(TRUE, TRUE, "target", TRUE, "plain")}
  \cup {Session(TRUE, FALSE, "target", FALSE, k) : k \in {"early", "crossHost"}}
  \cup {Session(TRUE, FALSE, "none", FALSE, "replay")} \* a replay bypasses the rules

VerificationNext ==
  \/ \E n \in 1..MaxRequests, targets \in BOOLEAN : BeginOffline(n, targets) \/ BeginExternal(n, targets) \/ BeginProxy(n, targets)
  \/ \E t \in Traces, hold, evaluated \in BOOLEAN : OfflineRequest(t, hold, evaluated)
  \/ \E i \in DOMAIN captured, hold \in BOOLEAN : ExternalSession(i, hold) \/ Link(i, hold)
  \/ \E hold \in BOOLEAN : LinkNone(hold)
  \/ SendRequest \/ SendFails \/ (\E s \in Capturable : Capture(s)) \/ FinishCheck \/ EndCheck \/ ChangeMoves \/ TickClock

VerificationSpec == VerificationInit /\ [][VerificationNext]_verificationVars

-----------------------------------------------------------------------------
\* A change is reported as verified only while it stands, and on evidence for every request:
\* a target rule matched a session that reached its upstream on the request's own host, that
\* was captured after the request went out and looks like it, and that is no replay and, when
\* a client made it, not older than the change; offline, in an evaluation that was complete
\* and in which no rule failed.  Outside offline mode a rule that matched and failed counts:
\* the code does not look at the outcome in a trace, where docs/API_SPEC.md:3039 and
\* docs/MCP_AGENT_AUTOMATION_CONTROL_PLAN.md:300 want rule_failed.  The slots reserved in any
\* minute never exceed the limit, whichever requests were refused after they had theirs.
VerifiedOnEvidence ==
  /\ check # NoCheck /\ check.overall # "none" => check.stood = "active"
  /\ check # NoCheck /\ check.overall = "passed" =>
       /\ check.targets
       /\ \A i \in DOMAIN check.used : \E e \in check.used[i] :
            /\ TargetMatched(e.s.trace) /\ ~e.s.upstream /\ e.s.kind \notin {"replay", "partial"}
            /\ check.mode = "external" => e.s.kind # "early"
            /\ check.mode = "offline" => e.s.trace # "failed"
            /\ check.mode = "proxy" => e.s.like /\ e.place > e.mark /\ e.s.kind # "crossHost"
  /\ \A i \in 1..Len(reserved) :
       i + RateLimit <= Len(reserved) => reserved[i + RateLimit] - reserved[i] >= Window

=============================================================================
