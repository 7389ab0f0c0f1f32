----------------------------- MODULE PlanChecks -----------------------------
(***************************************************************************)
(* What an automation plan must pass before it may change rules: the shape *)
(* of the plan, the exact host each rule is confined to, the redirect and  *)
(* Map Local targets it may name, and which running rules its scope hash   *)
(* covers, against the requests that rules really match.  A check is asked *)
(* once per step; `asked` holds its input.  Ports, user names and letter   *)
(* case of hosts are left out, and no label is a part of another.          *)
(***************************************************************************)
EXTENDS Naturals, Sequences, FiniteSetsExt, SequencesExt

CONSTANTS
  Labels,    \* labels of host names
  MaxLabels, \* bound: labels of a host
  PlanIds,   \* rules that exist when a plan is made
  MaxItems   \* MAX_PLAN_ITEMS

ASSUME PlanAssumption ==
  MaxLabels \in Nat \ {0} /\ MaxItems \in Nat \ {0} /\ {"*", "part*"} \cap Labels = {} /\ "none" \notin PlanIds

VARIABLE asked \* the plan, resource or pair of patterns under test

NoHost == << >>
Hosts == UNION {[1..n -> Labels] : n \in 1..MaxLabels}

\* The code of the first check that fails, in the order of the code.
FirstError(checks) ==
  LET failed == {i \in DOMAIN checks : ~checks[i][1]} IN
  IF failed = {} THEN "OK" ELSE checks[Min(failed)][2]

-----------------------------------------------------------------------------
(* The shape of a plan.                                                    *)

\* A plan: upserts name a rule of PlanIds to update or none to create, deletes name one.
Upserts == [id : PlanIds \cup {"none"}, version : BOOLEAN]
NewRule == [id |-> "none", version |-> FALSE]
SoundPlan ==
  [kind |-> "plan", scope |-> "workspace", workspaceId |-> TRUE, lifecycle |-> "persistent", ttl |-> 600,
   key |-> 16, upserts |-> <<NewRule>>, deletes |-> << >>, feature |-> "none", bytes |-> "fits"]

\* Each field at and around its limits.
Deviations ==
  [scope |-> {"global", "other"}, workspaceId |-> {FALSE}, lifecycle |-> {"ephemeral", "other"}, ttl |-> {59, 60, 3600, 3601},
   key |-> {15, 128, 129}, upserts |-> SeqOf(Upserts, MaxItems + 1), deletes |-> SeqOf(PlanIds, MaxItems),
   feature |-> {"activation", "dns", "script", "throttle", "breakpoint"}, bytes |-> {"exceeds"}]

ItemCount(p) == Len(p.upserts) + Len(p.deletes)
\* validate_plan_shape up to the resources.
PlanHeaderChecks(p) ==
  << <<p.scope \in {"workspace", "global"}, "INVALID_ARGUMENT">>,
     <<p.scope = "workspace" => p.workspaceId, "INVALID_ARGUMENT">>,
     <<p.lifecycle \in {"persistent", "ephemeral"}, "INVALID_ARGUMENT">>,
     <<p.lifecycle = "ephemeral" => p.ttl \in 60..3600, "INVALID_ARGUMENT">>,
     <<p.key \in 16..128, "INVALID_ARGUMENT">>,
     <<ItemCount(p) \in 1..MaxItems, "INVALID_ARGUMENT">> >>
\* No rule is updated twice, deleted twice, or both.
RepeatChecks(p) ==
  << <<\A i, j \in DOMAIN p.upserts : p.upserts[i].id # "none" /\ p.upserts[i].id = p.upserts[j].id => i = j, "INVALID_ARGUMENT">>,
     <<\A i, j \in DOMAIN p.deletes : p.deletes[i] = p.deletes[j] => i = j, "INVALID_ARGUMENT">>,
     <<\A i \in DOMAIN p.deletes, j \in DOMAIN p.upserts : p.deletes[i] # p.upserts[j].id, "INVALID_ARGUMENT">> >>
\* What this release does not automate.
FeatureChecks(p) ==
  << <<p.feature = "none", "FEATURE_NOT_AVAILABLE">>, <<p.scope # "global", "FEATURE_NOT_AVAILABLE">> >>
\* Ephemeral plans only create; updates name the version they replace.
UpdateChecks(p) ==
  << <<p.lifecycle = "ephemeral" => p.deletes = << >> /\ \A i \in DOMAIN p.upserts : p.upserts[i] = NewRule, "INVALID_ARGUMENT">>,
     <<p.bytes = "fits", "INVALID_ARGUMENT">>,
     <<\A i \in DOMAIN p.upserts : p.upserts[i].id # "none" => p.upserts[i].version, "INVALID_ARGUMENT">> >>
validate_plan_shape(p) == FirstError(PlanHeaderChecks(p) \o RepeatChecks(p) \o FeatureChecks(p) \o UpdateChecks(p))

\* What one item does to a rule that was there: an item with nothing left to change fails.
\* An item is <<what it does, its place in the plan, the rule it names>>.
Items(p) ==
  {<<"write", i, p.upserts[i].id>> : i \in {k \in DOMAIN p.upserts : p.upserts[k].id # "none"}} \cup
  {<<"delete", i, p.deletes[i]>> : i \in DOMAIN p.deletes}
Does(item, rule) == IF rule \in {"gone", "failed"} THEN "failed" ELSE IF item[1] = "delete" THEN "gone" ELSE item

-----------------------------------------------------------------------------
(* Hosts of patterns.                                                      *)

\* A pattern: its scheme, whether it starts as a path, the labels of its host ("*" first for a
\* wildcard, "part*" for a wildcard inside a label, none at all), what follows, how it matches.
Patterns ==
  {p \in [scheme : {"none", "https", "wss", "ftp"}, slash : BOOLEAN,
          host : {NoHost, <<"*">>} \cup Hosts \cup {<<"*">> \o h : h \in Hosts} \cup {<<"part*">> \o h : h \in Hosts},
          tail : {"", "/", "/*"}, type : {"contains", "exact", "wildcard"}] :
     p.slash => p.scheme = "none" /\ p.host \in Hosts}

HasWildcard(host) == \E i \in DOMAIN host : host[i] \in {"*", "part*"}
Starred(p) == p.host # NoHost /\ p.host[1] \in {"*", "part*"}

\* pattern_host: the host a rule is filed under, or NoHost when it may be any.
pattern_host(p) ==
  IF p.slash \/ p.host = NoHost \/ p.host = <<"*">> \/ p.host[1] = "part*" THEN NoHost ELSE p.host

\* exact_pattern_host: an agent's rule must name one host.  The URL parser skips the slash a
\* path starts with and takes its first label for the host.
exact_pattern_host(p) ==
  FirstError(<< <<p.host # NoHost, "INVALID_ARGUMENT">>,
                <<p.scheme \in {"none", "https", "wss"}, "INVALID_ARGUMENT">>,
                <<~HasWildcard(p.host), "INVALID_ARGUMENT">> >>)

\* host_conflicts compares a host of the plan with the host of a running rule.
IsUnder(host, wildcard) == wildcard[1] = "*" /\ IsSuffix(Tail(wildcard), host)
host_conflicts(target, candidate) ==
  candidate = NoHost \/ target = candidate \/ IsUnder(candidate, target) \/ IsUnder(target, candidate)

\* scope_hash covers a running rule of the planned rule's kind that may touch its host.
InScope(planned, running, sameKind) ==
  sameKind /\ (pattern_host(planned) = NoHost \/ host_conflicts(pattern_host(planned), pattern_host(running)))

-----------------------------------------------------------------------------
(* What a rule matches.                                                    *)

\* A request: its host, and the labels its path or query names.
Requests == [host : Hosts, rest : {NoHost} \cup Hosts]
Url(u) == <<"https", "/">> \o u.host \o <<"/">> \o u.rest

\* The text of a pattern: before a wildcard, and after it.
Lead(p) == (IF p.scheme = "none" THEN << >> ELSE <<p.scheme, "/">>) \o (IF p.slash THEN <<"/">> ELSE << >>)
Core(p) == (IF Starred(p) THEN Tail(p.host) ELSE p.host) \o (IF p.tail = "" THEN << >> ELSE <<"/">>)
At(text, url, i) == i + Len(text) <= Len(url) + 1 /\ SubSeq(url, i, i + Len(text) - 1) = text
AnyText(p) == p.scheme = "none" /\ p.tail = "" /\ p.host \in {NoHost, <<"*">>}
Plain(p) == ~Starred(p) /\ p.tail # "/*"

WildcardMatches(p, url) ==
  /\ At(Lead(p), url, 1)
  /\ \E i \in 1..(Len(url) + 1) :
       /\ At(Core(p), url, i) /\ (p.tail = "/*" \/ i + Len(Core(p)) = Len(url) + 1)
       /\ IF ~Starred(p) THEN i = Len(Lead(p)) + 1 ELSE i > Len(Lead(p)) + (IF p.host[1] = "*" THEN 0 ELSE 1)

\* pattern_matches: over the whole URL; by default a pattern need only be part of it.
PatternMatches(p, url) ==
  CASE p.type = "exact" -> Plain(p) /\ url = Lead(p) \o Core(p)
    [] p.type = "wildcard" -> AnyText(p) \/ WildcardMatches(p, url)
    [] OTHER -> AnyText(p) \/ (Plain(p) /\ \E i \in DOMAIN url : At(Lead(p) \o Core(p), url, i))

\* runtime_host_lock_for_resource: a rule an agent owns is published with the host it names.
HostLockMatches(p, owner, host) == owner = "agent" => p.host = host
\* active_rewrite_rules_for_snapshot, active_map_rule_for_snapshot.
Reaches(p, owner, u) == HostLockMatches(p, owner, u.host) /\ PatternMatches(p, Url(u))

-----------------------------------------------------------------------------
(* Resources.                                                              *)

\* validate_rewrite_redirect_target: a redirect stays on the host the rule matches.
validate_rewrite_redirect_target(host, r) ==
  FirstError(<< <<r.url, "INVALID_ARGUMENT">>, <<r.scheme \in {"http", "https"}, "INVALID_ARGUMENT">>,
                <<r.host # NoHost, "INVALID_ARGUMENT">>, <<r.host = host, "FEATURE_NOT_AVAILABLE">> >>)

Redirects == [url : BOOLEAN, scheme : {"https", "ftp"}, host : {NoHost} \cup Hosts]

RedirectError(host, redirects) ==
  LET errors == {validate_rewrite_redirect_target(host, t) : t \in redirects} \ {"OK"} IN
  IF errors = {} THEN "OK" ELSE CHOOSE e \in errors : TRUE

\* build_rewrite_rule: name, pattern, exact host, actions, and the redirect if there is one.
build_rewrite_rule(r) ==
  FirstError(<< <<r.named, "INVALID_ARGUMENT">>,
                <<exact_pattern_host(r.pattern) = "OK", exact_pattern_host(r.pattern)>>,
                <<r.actions \in 1..100, "INVALID_ARGUMENT">>,
                <<RedirectError(r.pattern.host, r.redirect) = "OK", RedirectError(r.pattern.host, r.redirect)>> >>)

\* A path as the file system resolves it.
Paths == [dots : BOOLEAN, resolves : BOOLEAN, file : BOOLEAN, real : {"inside", "outside"}]

M_Textual(p, approved) ==
  IF p.dots THEN "PATH_NOT_APPROVED" ELSE IF ~approved THEN "PATH_NOT_APPROVED" ELSE "OK"
\* resolve_approved_path: no "..", canonical, a regular file, within an approved root.
resolve_approved_path(p, approved) ==
  FirstError(<< <<~p.dots, "PATH_NOT_APPROVED">>, <<p.resolves, "PATH_NOT_APPROVED">>,
                <<p.file, "PATH_NOT_APPROVED">>, <<approved /\ p.real = "inside", "PATH_NOT_APPROVED">> >>)

\* validate_asset.
validate_asset(a) ==
  FirstError(<< <<a.ref, "INVALID_ARGUMENT">>, <<a.name = "plain", "INVALID_ARGUMENT">>, <<a.base64, "INVALID_ARGUMENT">> >>)

\* resolve_map_target: a managed asset, an approved path, or the target the rule has already.
resolve_map_target(m) ==
  IF m.asset # "none" /\ m.path # {} THEN <<"INVALID_ARGUMENT", "none">>
  ELSE IF m.asset # "none" THEN IF m.asset = "known" THEN <<"OK", "asset">> ELSE <<"INVALID_ARGUMENT", "none">>
  ELSE IF m.path # {} THEN LET p == CHOOSE q \in m.path : TRUE IN <<resolve_approved_path(p, m.approved), p.real>>
  ELSE IF m.value # "none" THEN IF m.value = "same" /\ m.existing THEN <<"OK", "existing">> ELSE <<"INVALID_ARGUMENT", "none">>
  ELSE IF m.existing THEN <<"OK", "existing">> ELSE <<"INVALID_ARGUMENT", "none">>

\* build_map_rule, after the plan's assets: Map Local only, an exact host, and a file that exists.
build_map_rule(m) ==
  FirstError(<< <<m.asset # "none" => validate_asset(m.upload) = "OK", "INVALID_ARGUMENT">>,
                <<resolve_map_target(m)[1] = "OK", resolve_map_target(m)[1]>>,
                <<m.mode = "local", "FEATURE_NOT_AVAILABLE">>,
                <<exact_pattern_host(m.pattern) = "OK", exact_pattern_host(m.pattern)>>,
                <<m.asset # "none" \/ m.readable, "INVALID_ARGUMENT">> >>)

SomePattern == [scheme |-> "https", slash |-> FALSE, host |-> CHOOSE h \in Hosts : TRUE, tail |-> "", type |-> "contains"]
MapResources ==
  [kind : {"map"}, mode : {"local", "remote"}, pattern : {SomePattern}, asset : {"none", "known", "unknown"},
   upload : [ref : {TRUE}, name : {"plain", "path"}, base64 : BOOLEAN], path : {{}} \cup {{p} : p \in Paths}, approved : BOOLEAN, value : {"none", "same", "other"},
   existing : BOOLEAN, readable : BOOLEAN]

-----------------------------------------------------------------------------
(* Assertions on what a verification observed.                             *)

Subjects == {"status", "requestHeader", "responseHeader", "responseBody", "queryParam", "ruleTrace", "durationMs", "other"}
Operators == {"equals", "contains", "exists", "notExists", "gte", "lte", "other"}

\* validate_assertion.
validate_assertion(a) ==
  FirstError(<< <<a.id \in 1..128, "INVALID_ARGUMENT">>, <<a.subject # "other", "INVALID_ARGUMENT">>,
                <<a.operator # "other", "INVALID_ARGUMENT">>,
                <<a.operator \in {"equals", "contains", "gte", "lte"} => a.expected # {}, "INVALID_ARGUMENT">> >>)

\* A JSON value: a number, a text that may read as a number, or a list of them.
Number(n) == [type |-> "number", number |-> {n}, text |-> "", items |-> {}]
Text(t, n) == [type |-> "text", number |-> n, text |-> t, items |-> {}]
ListOf(S) == [type |-> "list", number |-> {}, text |-> "", items |-> S]
Simple == {Number(1), Number(2), Text("1", {1}), Text("1.0", {1}), Text("x", {})}
Values == Simple \cup {ListOf(S) : S \in SUBSET {Number(1), Text("1", {1})}}

\* values_equal: as JSON, two texts only as texts, anything else as numbers.
values_equal(a, b) == a = b \/ ({a.type, b.type} # {"text"} /\ a.number # {} /\ a.number = b.number)
numeric(a, b) == a.number # {} /\ b.number # {}
numeric_compare(a, b, signs) ==
  numeric(a, b) /\ \A x \in a.number, y \in b.number : (IF x < y THEN "less" ELSE IF x = y THEN "equal" ELSE "greater") \in signs
Within == [x \in {"1", "1.0", "x"} |-> IF x = "1.0" THEN {"1", "1.0"} ELSE {x}]
\* value_contains; values of two other types are compared by their JSON text.
value_contains(a, b) ==
  IF a.type = "text" /\ b.type = "text" THEN b.text \in Within[a.text]
  ELSE IF a.type = "list" THEN \E v \in a.items : values_equal(v, b) ELSE a = b

\* evaluate_assertion on the value observed, if any.
evaluate_assertion(operator, observed, expected) ==
  IF operator = "notExists" THEN observed = {}
  ELSE IF operator = "exists" THEN observed # {}
  ELSE \E a \in observed, b \in expected :
         CASE operator = "equals" -> values_equal(a, b)
           [] operator = "contains" -> value_contains(a, b)
           [] operator = "gte" -> numeric_compare(a, b, {"equal", "greater"})
           [] operator = "lte" -> numeric_compare(a, b, {"equal", "less"})
           [] OTHER -> FALSE

\* build_offline_observations, build_session_observations, build_proxy_observations: headers
\* are filed in lower case, query parameters as they are; evaluate_assertions looks for the
\* path in lower case, then for the subject alone.
Lower(name) == IF name = "NAME" THEN "name" ELSE name
Filed(subject, name) == IF subject = "queryParam" THEN name ELSE Lower(name)
evaluate_assertions(a) ==
  evaluate_assertion(a.operator, IF Filed(a.subject, a.there) = Lower(a.path) THEN a.value ELSE {}, a.expected)

-----------------------------------------------------------------------------
PlanInit == asked = [kind |-> "nothing"]

\* A plan with two fields away from a sound one.
AskPlan ==
  \E f, g \in DOMAIN Deviations : \E x \in Deviations[f] \cup {SoundPlan[f]}, y \in Deviations[g] :
    asked' = [SoundPlan EXCEPT ![f] = x, ![g] = y]
\* A rule of a plan, and a running rule of an agent or the user.
AskScope ==
  \E p, q \in Patterns, owner \in {"agent", "user"}, same \in BOOLEAN :
    /\ p.scheme \in {"none", "https"} /\ p.type = "contains" /\ p.tail = "" \* bound: the planned rule is a plain one
    /\ q.scheme \in {"none", "https"} /\ q.type # "exact" /\ q.tail # "/"
    /\ exact_pattern_host(p) = "OK" /\ (owner = "agent" => exact_pattern_host(q) = "OK")
    /\ asked' = [kind |-> "scope", planned |-> p, running |-> q, owner |-> owner, same |-> same]
AskRewrite ==
  \E p \in Patterns, r \in {{}} \cup {{t} : t \in Redirects}, n \in {0, 1, 100, 101} :
    /\ n # 1 => r = {} \* bound: one oddity at a time
    /\ asked' = [kind |-> "rewrite", named |-> TRUE, pattern |-> p, actions |-> n, redirect |-> r]
AskMap == \E m \in MapResources : asked' = m
AskAssertion ==
  \E subject \in Subjects, operator \in Operators, value \in {{}} \cup {{v} : v \in Values}, expected \in {{}} \cup {{v} : v \in Simple},
     there, path \in {"name", "NAME"}, id \in {0, 128, 129} :
    /\ (id # 128 \/ subject = "other") => there = path /\ value = {} \* bound: one oddity at a time
    /\ asked' = [kind |-> "assertion", id |-> id, subject |-> subject, operator |-> operator, value |-> value,
                 expected |-> expected, there |-> there, path |-> path]

PlanNext == asked.kind = "nothing" /\ (AskPlan \/ AskScope \/ AskRewrite \/ AskMap \/ AskAssertion)
PlanSpec == PlanInit /\ [][PlanNext]_asked

-----------------------------------------------------------------------------
\* What passes the checks stays within what was approved.  The items of a plan can be
\* carried out in any order with one result, and a plan that runs out of time names no rule
\* that was there before it.  Whatever URL text its pattern finds, an accepted rewrite rule
\* acts on requests to one host and redirects to no other.  A Map Local target is the
\* plan's asset, the rule's own target, or a file whose real path lies inside an approved
\* root.  And a running rule that meets an accepted rule at some request is under the scope
\* hash of the plan, unless it is of the other kind (Rewrite and Map rules do compete for
\* requests, docs/MCP_AGENT_AUTOMATION_CONTROL_PLAN.md:231), or it is the user's and the host
\* its pattern reads as is not the request's: a pattern is searched for in the whole URL, so
\* example.com also meets api.example.com.
AcceptedStaysInBounds ==
  /\ asked.kind = "plan" /\ validate_plan_shape(asked) = "OK" =>
       /\ \A x, y \in Items(asked) : x # y /\ x[3] = y[3] =>
            Does(x, Does(y, "was")) = Does(y, Does(x, "was")) /\ Does(x, Does(y, "was")) # "failed"
       /\ asked.lifecycle = "ephemeral" => Items(asked) = {} /\ asked.ttl \in 60..3600
  /\ asked.kind = "rewrite" /\ build_rewrite_rule(asked) = "OK" =>
       \E h \in Hosts : /\ \A u \in Requests : Reaches(asked.pattern, "agent", u) => u.host = h
                       /\ \A t \in asked.redirect : t.host = h
  /\ asked.kind = "map" /\ build_map_rule(asked) = "OK" =>
       LET to == resolve_map_target(asked)[2] IN
       \/ to = "asset" /\ asked.asset = "known" /\ asked.upload.name = "plain"
       \/ to = "existing" /\ asked.existing
       \/ to = "inside" /\ asked.approved /\ \E p \in asked.path : p.real = "inside" /\ p.file /\ p.resolves
  /\ asked.kind = "scope" =>
       \A u \in Requests :
         Reaches(asked.planned, "agent", u) /\ Reaches(asked.running, asked.owner, u) =>
           \/ InScope(asked.planned, asked.running, asked.same) \/ ~asked.same
           \/ asked.owner = "user" /\ LET h == pattern_host(asked.running) IN h # u.host /\ ~IsUnder(u.host, h)

\* An assertion about a header holds whatever the case its name is written in, asks of an
\* absent value nothing but its absence, and equal values pass every comparison.  (A query
\* parameter whose name has capitals is never found.)
AssertionsReadTheExchange ==
  asked.kind = "assertion" /\ validate_assertion(asked) = "OK" =>
    /\ asked.subject \in {"requestHeader", "responseHeader"} /\ asked.operator \in {"exists", "notExists"} =>
         (evaluate_assertions(asked) <=> ((asked.value # {}) <=> (asked.operator = "exists")))
    /\ evaluate_assertions(asked) => asked.value # {} \/ asked.operator = "notExists" \/ asked.subject = "queryParam"
    /\ \A a \in asked.value, b \in asked.expected :
         values_equal(a, b) /\ numeric(a, b) =>
           evaluate_assertion("gte", {a}, {b}) /\ evaluate_assertion("lte", {a}, {b})

\* The checks an agent's plan and its assertions pass mean what they say (validate_plan_shape,
\* build_rewrite_rule, build_map_rule, host_conflicts, evaluate_assertions): the two parts above.
ChecksAreSound == AcceptedStaysInBounds /\ AssertionsReadTheExchange

=============================================================================
