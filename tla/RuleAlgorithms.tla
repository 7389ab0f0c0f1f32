--------------------------- MODULE RuleAlgorithms ---------------------------
(***************************************************************************)
(* The algorithms under the rules, each beside a definition of what it     *)
(* should compute: wildcard patterns, JSON field edits, Map Local and Map  *)
(* Remote paths, hop-by-hop headers, bandwidth shaping and the choice of a *)
(* throttle profile and a DNS override.  `sample` holds one input.         *)
(***************************************************************************)
EXTENDS Integers, Sequences, FiniteSets

LOCAL INSTANCE SequencesExt
LOCAL INSTANCE FiniteSetsExt

CONSTANTS
  Letters,    \* characters of candidates
  MaxLetters, \* bound: length of a candidate
  MaxPattern, \* bound: length of a pattern
  ChunkBytes, \* THROTTLE_CHUNK_BYTES
  DelayCap    \* MAX_THROTTLE_TRANSFER_DELAY_MS

ASSUME AlgorithmAssumption ==
  MaxLetters \in Nat /\ MaxPattern \in Nat /\ ChunkBytes \in Nat \ {0} /\ DelayCap \in Nat /\ "*" \notin Letters

VARIABLE sample

Words(S, n) == UNION {[1..k -> S] : k \in 0..n}

-----------------------------------------------------------------------------
(* Patterns.                                                               *)

StartsWith(p, s) == Len(p) <= Len(s) /\ SubSeq(s, 1, Len(p)) = p
EndsWith(p, s) == Len(p) <= Len(s) /\ SubSeq(s, Len(s) - Len(p) + 1, Len(s)) = p
\* Where p occurs in s, and the first of these places.
Occurrences(p, s) == {i \in 0..(Len(s) - Len(p)) : SubSeq(s, i + 1, i + Len(p)) = p}

contains_matches(p, s) == p \in {<< >>, <<"*">>} \/ Occurrences(p, s) # {}

\* The first place is tried, then places after its end.
RECURSIVE match_middles(_, _)
match_middles(middles, window) ==
  \/ middles = << >>
  \/ LET first == Head(middles) IN
     /\ Occurrences(first, window) # {}
     /\ LET end == Min(Occurrences(first, window)) + Len(first)
            after == SubSeq(window, end + 1, Len(window))
        IN  \/ match_middles(Tail(middles), after)
            \/ after # << >> /\ match_middles(middles, Tail(after))

\* The pieces between the stars.
RECURSIVE Parts(_, _)
Parts(p, acc) ==
  IF p = << >> THEN (IF acc = << >> THEN << >> ELSE <<acc>>)
  ELSE IF Head(p) = "*" THEN (IF acc = << >> THEN << >> ELSE <<acc>>) \o Parts(Tail(p), << >>)
  ELSE Parts(Tail(p), Append(acc, Head(p)))

SinglePart(part, leading, trailing, s) ==
  CASE ~leading /\ ~trailing -> s = part
    [] leading /\ ~trailing -> EndsWith(part, s)
    [] ~leading /\ trailing -> StartsWith(part, s)
    [] OTHER -> Occurrences(part, s) # {}

\* First and last piece are pinned to the ends and must not overlap.
Anchored(head, tail, s) ==
  StartsWith(head, s) /\ Len(s) - Len(head) >= Len(tail) /\ EndsWith(tail, SubSeq(s, Len(head) + 1, Len(s)))

wildcard_matches(p, s) ==
  LET parts == Parts(p, << >>)
      leading == p[1] = "*"
      trailing == p[Len(p)] = "*"
      head == IF leading THEN << >> ELSE parts[1]
      tail == IF trailing THEN << >> ELSE parts[Len(parts)]
      middles == SubSeq(parts, IF leading THEN 1 ELSE 2, Len(parts) - (IF trailing THEN 0 ELSE 1))
  IN  IF p = << >> \/ parts = << >> THEN TRUE
      ELSE IF Len(parts) = 1 THEN SinglePart(parts[1], leading, trailing, s)
      ELSE Anchored(head, tail, s) /\ match_middles(middles, SubSeq(s, Len(head) + 1, Len(s) - Len(tail)))

pattern_matches(p, s, type) ==
  CASE type = "exact" -> p = s [] type = "wildcard" -> wildcard_matches(p, s) [] OTHER -> contains_matches(p, s)

\* What a wildcard means: a star stands for any characters.
RECURSIVE Glob(_, _)
Glob(p, s) ==
  IF p = << >> THEN s = << >>
  ELSE IF Head(p) = "*" THEN Glob(Tail(p), s) \/ (s # << >> /\ Glob(p, Tail(s)))
  ELSE s # << >> /\ Head(s) = Head(p) /\ Glob(Tail(p), Tail(s))

-----------------------------------------------------------------------------
(* JSON field edits.  A value is a leaf, null, an object or an array; a    *)
(* path is a sequence of keys and of indices from 0.                       *)

Leaf(n) == [type |-> "leaf", n |-> n]
Null == [type |-> "null"]
Object(members) == [type |-> "object", members |-> members]
Array(items) == [type |-> "array", items |-> items]
NoValue == [type |-> "absent"]
Key(k) == <<"key", k>>
Position(i) == <<"index", i>>
IsKey(seg) == seg[1] = "key"
Error == [type |-> "error"]

RECURSIVE get_json_path_value(_, _)
get_json_path_value(v, path) ==
  IF path = << >> THEN v
  ELSE CASE IsKey(Head(path)) /\ v.type = "object" /\ Head(path)[2] \in DOMAIN v.members ->
              get_json_path_value(v.members[Head(path)[2]], Tail(path))
         [] ~IsKey(Head(path)) /\ v.type = "array" /\ Head(path)[2] < Len(v.items) ->
              get_json_path_value(v.items[Head(path)[2] + 1], Tail(path))
         [] OTHER -> NoValue

\* Missing and null containers become objects; a scalar is never overwritten; an array
\* may grow by one at its end.
RECURSIVE set_json_path_value(_, _, _)
set_json_path_value(v, path, new) ==
  IF path = << >> THEN new
  ELSE LET seg == Head(path)
           at == seg[2]
           Put(members) ==
             LET old == IF at \in DOMAIN members THEN members[at] ELSE Object([x \in {} |-> Null])
                 sub == IF Len(path) = 1 THEN new ELSE set_json_path_value(old, Tail(path), new)
             IN  IF sub = Error THEN Error
                 ELSE Object([x \in DOMAIN members \cup {at} |-> IF x = at THEN sub ELSE members[x]])
       IN  CASE IsKey(seg) /\ v.type = "null" -> Put([x \in {} |-> Null])
             [] IsKey(seg) /\ v.type = "object" -> Put(v.members)
             [] ~IsKey(seg) /\ v.type = "array" /\ at < Len(v.items) ->
                  LET sub == set_json_path_value(v.items[at + 1], Tail(path), new) IN
                  IF sub = Error THEN Error ELSE Array([v.items EXCEPT ![at + 1] = sub])
             [] ~IsKey(seg) /\ v.type = "array" /\ at = Len(v.items) /\ Len(path) = 1 -> Array(Append(v.items, new))
             [] OTHER -> Error

RECURSIVE remove_json_path_value(_, _)
remove_json_path_value(v, path) ==
  LET seg == Head(path) IN
  IF Len(path) = 1
  THEN CASE IsKey(seg) /\ v.type = "object" -> Object([x \in DOMAIN v.members \ {seg[2]} |-> v.members[x]])
         [] ~IsKey(seg) /\ v.type = "array" /\ seg[2] < Len(v.items) -> Array(RemoveAt(v.items, seg[2] + 1))
         [] OTHER -> Error
  ELSE LET below == get_json_path_value(v, <<seg>>)
           sub == IF below = NoValue THEN Error ELSE remove_json_path_value(below, Tail(path))
       IN  IF sub = Error THEN Error ELSE set_json_path_value(v, <<seg>>, sub)

\* The byte span of a value contains those of the values below it.
Covers(p, q) == Len(p) <= Len(q) /\ SubSeq(q, 1, Len(p)) = p

\* Mutant: equal and nested spans are patched all the same.
M_AnySpans(v, edits) == \A i \in DOMAIN edits : get_json_path_value(v, edits[i][1]) # NoValue
\* Values can be patched in place when each is there and no two spans overlap.
json_spans(v, edits) ==
  /\ edits # << >>
  /\ \A i \in DOMAIN edits : get_json_path_value(v, edits[i][1]) # NoValue
  /\ \A i, j \in DOMAIN edits : i # j => ~Covers(edits[i][1], edits[j][1])

\* Each span of the original text is replaced: a nested edit of a replaced value is lost.
RECURSIVE PatchText(_, _, _)
PatchText(v, at, edits) ==
  LET here == {i \in DOMAIN edits : edits[i][1] = at} IN
  IF here # {} THEN edits[Min(here)][2]
  ELSE CASE v.type = "object" -> Object([x \in DOMAIN v.members |-> PatchText(v.members[x], Append(at, Key(x)), edits)])
         [] v.type = "array" -> Array([i \in DOMAIN v.items |-> PatchText(v.items[i], Append(at, Position(i - 1)), edits)])
         [] OTHER -> v
patch_json_field_values(v, edits) == IF json_spans(v, edits) THEN PatchText(v, << >>, edits) ELSE NoValue

\* One edit after the other on the parsed document.
ApplyEdits(v, edits) ==
  FoldLeft(LAMBDA acc, e : IF acc = Error THEN Error ELSE set_json_path_value(acc, e[1], e[2]), v, edits)

\* What a body field rewrite writes: patched text when it can be, a new rendering otherwise.
RewrittenFields(v, edits) ==
  LET plain == ApplyEdits(v, edits)
      patched == patch_json_field_values(v, edits)
  IN  IF plain \in {Error, v} \/ patched = NoValue THEN plain ELSE patched

-----------------------------------------------------------------------------
(* Paths, as sequences of segments.                                        *)

\* The target's path is a base; it is not doubled when the request already has it.
join_remote_base_path(base, path) ==
  IF base = << >> \/ StartsWith(base, path) THEN path ELSE base \o path

is_safe_local_segment(seg) == seg \notin {"nul", "drive"}
Kept(path) == SelectSeq(path, LAMBDA seg : seg \notin {"", ".", ".."})
sanitize_request_path(path) ==
  LET kept == Kept(path) IN IF \A i \in DOMAIN kept : is_safe_local_segment(kept[i]) THEN {kept} ELSE {}

\* "link" is a symbolic link planted in the mapped directory, "dir" a directory in it and
\* "missing" no file at all.
Exists(path) == "missing" \notin Range(path)
Canonical(path) == IF path # << >> /\ path[1] = "link" THEN <<"elsewhere">> \o Tail(path) ELSE <<"root">> \o path
path_is_within(real) == real[1] = "root"
\* A path canonicalize cannot resolve (no such file, or any other error) is taken as it is.
Resolved(path, fails) == IF fails \/ ~Exists(path) THEN <<"root">> \o path ELSE Canonical(path)
resolve_local_path(path, fails) ==
  UNION {LET file == IF q = << >> \/ q[Len(q)] = "dir" THEN Append(q, "index.html") ELSE q
         IN  {real \in {Resolved(file, fails)} : path_is_within(real)}
         : q \in sanitize_request_path(path)}

-----------------------------------------------------------------------------
(* Headers that belong to one hop.  A request is the set of its headers;   *)
(* `listed` are the names its Connection header lists.                     *)

Standard == {"connection", "proxy-connection", "keep-alive", "te", "trailer", "upgrade", "proxy-authenticate", "proxy-authorization"}
should_skip_request_header(h) == h \in {"host", "connection", "proxy-connection", "content-length", "transfer-encoding"}
is_hop_by_hop_only(h) == h \in {"host", "proxy-connection", "content-length", "transfer-encoding"}
hop_by_hop_strip_set(listed) == listed \cup Standard
should_strip_hop_by_hop(h, strip, ws) == h \in strip /\ (ws => h \notin {"connection", "upgrade"})
build_upstream_headers(headers, listed, ws) ==
  {h \in headers : /\ ~(should_skip_request_header(h) /\ ~ws)
                   /\ ~(ws /\ is_hop_by_hop_only(h))
                   /\ ~should_strip_hop_by_hop(h, hop_by_hop_strip_set(listed), ws)
                   /\ h # ":path"}

-----------------------------------------------------------------------------
(* Bandwidth: bytes per rate unit; a delay is rounded up.                  *)

transfer_delay_ms(bytes, kbps) == IF bytes = 0 \/ kbps = 0 THEN 0 ELSE (bytes + kbps - 1) \div kbps
chunk_delay_ms(bytes, kbps) == Min({transfer_delay_ms(bytes, kbps), DelayCap})

\* What ThrottledBody emits for one data frame: pieces, each after its own sleep.
RECURSIVE Emitted(_, _)
Emitted(frame, kbps) ==
  IF kbps = 0 \/ frame = << >> THEN <<[data |-> frame, sleep |-> 0]>>
  ELSE LET take == Min({ChunkBytes, Len(frame)})
           piece == [data |-> SubSeq(frame, 1, take), sleep |-> chunk_delay_ms(take, kbps)]
       IN  IF take = Len(frame) THEN <<piece>> ELSE <<piece>> \o Emitted(SubSeq(frame, take + 1, Len(frame)), kbps)
poll_frame(frames, kbps) == FlattenSeq([i \in DOMAIN frames |-> Emitted(frames[i], kbps)])

-----------------------------------------------------------------------------
(* The throttle profile and the DNS override of a request.  Lists are in   *)
(* the order the managers keep them.                                       *)

\* The first of the highest priority.
Foremost(rules) ==
  LET top == {i \in DOMAIN rules : \A j \in DOMAIN rules : rules[j].priority <= rules[i].priority} IN
  IF rules = << >> THEN {} ELSE {rules[Min(top)]}

active_throttle_profile_for_workspace(profiles) ==
  LET on == SelectSeq(profiles, LAMBDA p : p.enabled) IN IF on = << >> THEN {} ELSE {on[1].id}

\* A rule counts only with an enabled profile; otherwise the workspace's own.
active_throttle_selection(profiles, rules) ==
  LET Enabled(id) == \E i \in DOMAIN profiles : profiles[i].id = id /\ profiles[i].enabled
      usable == SelectSeq(rules, LAMBDA r : r.enabled /\ r.matches /\ Enabled(r.profile))
  IN  IF usable # << >> THEN {r.profile : r \in Foremost(usable)} ELSE active_throttle_profile_for_workspace(profiles)

set_active_profile(profiles, ids) == [i \in DOMAIN profiles |-> [profiles[i] EXCEPT !.enabled = profiles[i].id \in ids]]

\* A rule whose address does not parse gives way to the next.
resolve_dns_override(rules) ==
  {r.ip : r \in Foremost(SelectSeq(rules, LAMBDA r : r.enabled /\ r.matches /\ r.ip # "invalid"))}

\* save_rule of every manager: in place, or at the end.
save_rule(rules, rule) ==
  IF \E i \in DOMAIN rules : rules[i].id = rule.id
  THEN LET at == Min({i \in DOMAIN rules : rules[i].id = rule.id}) IN [rules EXCEPT ![at] = rule]
  ELSE Append(rules, rule)

-----------------------------------------------------------------------------
Docs ==
  LET leaves == {Leaf(0), Null}
      flat == leaves \cup {Object([x \in {"k"} |-> v]) : v \in leaves} \cup {Array(<<v>>) : v \in leaves}
  IN  {Object([x \in {"k", "l"} |-> IF x = "k" THEN v ELSE w]) : v, w \in flat}
FieldPaths == {<<Key("k")>>, <<Key("l")>>, <<Key("k"), Key("k")>>, <<Key("k"), Key("l")>>, <<Key("k"), Position(0)>>, <<Key("l"), Position(1)>>}
Edits == FieldPaths \X {Leaf(1), Object([x \in {"k"} |-> Leaf(2)])}
ThrottleProfiles == {<<p, q>> : p \in [id : {"p"}, enabled : BOOLEAN], q \in [id : {"q"}, enabled : BOOLEAN]}
ThrottleRules == [id : {"1", "2"}, enabled : BOOLEAN, matches : {TRUE}, profile : {"p", "q"}, priority : {1, 2}]
DnsRules == [id : {"1", "2"}, enabled : {TRUE}, matches : BOOLEAN, ip : {"x", "y", "invalid"}, priority : {1, 2}]

AlgorithmInit == sample = [kind |-> "nothing"]
AskPattern == \E p \in Words(Letters \cup {"*"}, MaxPattern), s \in Words(Letters, MaxLetters) : sample' = [kind |-> "pattern", p |-> p, s |-> s]
AskFields == \E d \in Docs, e, f \in Edits : sample' = [kind |-> "fields", doc |-> d, edits |-> <<e, f>>]
AskRemoval == \E d \in Docs, p \in FieldPaths : sample' = [kind |-> "removal", doc |-> d, path |-> p]
AskPaths == \E b \in Words({"a", "b"}, 2), p \in Words({"a", "b"}, 3) : sample' = [kind |-> "join", base |-> b, path |-> p]
AskLocal == \E p \in Words({"", "..", "x", "dir", "link", "drive", "missing"}, 3), f \in BOOLEAN : sample' = [kind |-> "local", path |-> p, fails |-> f]
AskHeaders ==
  \E h \in SUBSET {"host", "connection", "te", "upgrade", "proxy-authenticate", "content-length", "x-a", "x-b", ":path"}, l \in SUBSET {"x-a", "upgrade"}, ws \in BOOLEAN :
    sample' = [kind |-> "headers", headers |-> h, listed |-> IF "connection" \in h THEN l ELSE {}, ws |-> ws /\ "upgrade" \in h]
AskThrottle == \E f, g \in {[i \in 1..n |-> i] : n \in 0..6}, k \in 0..3 : sample' = [kind |-> "throttle", frames |-> <<f, g>>, kbps |-> k]
AskSelection ==
  \/ \E ps \in ThrottleProfiles, r, s \in ThrottleRules : sample' = [kind |-> "select", profiles |-> ps, rules |-> save_rule(<<r>>, s)]
  \/ \E r, s \in DnsRules : sample' = [kind |-> "dns", rules |-> save_rule(<<r>>, s)]
NextAlgorithm ==
  /\ sample.kind = "nothing"
  /\ AskPattern \/ AskFields \/ AskRemoval \/ AskPaths \/ AskLocal \/ AskHeaders \/ AskThrottle \/ AskSelection
AlgorithmSpec == AlgorithmInit /\ [][NextAlgorithm]_sample

-----------------------------------------------------------------------------
Total(pieces) == FoldLeft(LAMBDA acc, p : acc + p.sleep, 0, pieces)
Sent(pieces) == FlattenSeq([i \in DOMAIN pieces |-> pieces[i].data])

\* Every algorithm computes what it stands for.  A wildcard pattern matches exactly what the
\* stars can stand for; patching JSON text gives the document that editing the parsed value
\* gives, and a removed field is gone; a remote map keeps the request below its base and a
\* local map opens no file outside its root unless canonicalize failed on a file that is
\* there; no header of this hop reaches the next one, except those a WebSocket upgrade is
\* made of; a throttled body arrives whole, in order and
\* no faster than its rate allows; and with every profile off nothing is throttled.
AlgorithmsMeetTheirMeaning ==
  CASE sample.kind = "pattern" -> sample.p # << >> =>
         /\ pattern_matches(sample.p, sample.s, "wildcard") <=> Glob(sample.p, sample.s)
         /\ "*" \notin Range(sample.p) =>
              /\ pattern_matches(sample.p, sample.s, "exact") <=> Glob(sample.p, sample.s)
              /\ pattern_matches(sample.p, sample.s, "contains") <=> Glob(<<"*">> \o sample.p \o <<"*">>, sample.s)
    [] sample.kind = "fields" ->
         LET out == RewrittenFields(sample.doc, sample.edits) IN
         out = ApplyEdits(sample.doc, sample.edits) /\ (out # Error => get_json_path_value(out, sample.edits[2][1]) = sample.edits[2][2])
    [] sample.kind = "removal" ->
         LET out == remove_json_path_value(sample.doc, sample.path) IN
         out # Error /\ IsKey(Last(sample.path)) => get_json_path_value(out, sample.path) = NoValue
    [] sample.kind = "join" ->
         LET out == join_remote_base_path(sample.base, sample.path) IN StartsWith(sample.base, out) /\ EndsWith(sample.path, out)
    [] sample.kind = "local" ->
         \A real \in resolve_local_path(sample.path, sample.fails) :
           Exists(real) => path_is_within(Canonical(Tail(real))) \/ sample.fails
    [] sample.kind = "headers" ->
         LET out == build_upstream_headers(sample.headers, sample.listed, sample.ws) IN
         /\ out \cap (Standard \cup sample.listed \cup {"host", "content-length", ":path"}) \subseteq (IF sample.ws THEN {"connection", "upgrade"} ELSE {})
         /\ {"x-a", "x-b"} \cap sample.headers \subseteq out \cup sample.listed
    [] sample.kind = "throttle" ->
         LET out == poll_frame(sample.frames, sample.kbps) IN
         /\ Sent(out) = sample.frames[1] \o sample.frames[2]
         /\ sample.kbps > 0 /\ transfer_delay_ms(ChunkBytes, sample.kbps) <= DelayCap =>
              Total(out) >= transfer_delay_ms(Len(Sent(out)), sample.kbps)
    [] sample.kind = "select" ->
         LET on == active_throttle_selection(sample.profiles, sample.rules) IN
         /\ \A id \in on : \E i \in DOMAIN sample.profiles : sample.profiles[i].id = id /\ sample.profiles[i].enabled
         /\ active_throttle_selection(set_active_profile(sample.profiles, {}), sample.rules) = {}
    [] sample.kind = "dns" ->
         resolve_dns_override(sample.rules) = {} <=> \A i \in DOMAIN sample.rules : ~sample.rules[i].matches \/ sample.rules[i].ip = "invalid"
    [] OTHER -> TRUE
=============================================================================
