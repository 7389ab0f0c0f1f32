---------------------------- MODULE BodyQueries -----------------------------
(***************************************************************************)
(* What get_session_body answers without a page: textQuery                 *)
(* (tools/text_search.rs) searches a JSON body as a stream of redacted     *)
(* tokens through a sliding buffer, jsonPaths (tools/body_stream.rs)       *)
(* extracts values while the body is parsed.  Neither builds the document; *)
(* both promise the redacted view that redact_text makes of the whole.     *)
(*                                                                         *)
(* A document is a tree; its rendering is a sequence of characters, a key  *)
(* and each punctuation mark one character.  "v" of one byte and "w" of    *)
(* two are the same letter in another case.                                *)
(***************************************************************************)
EXTENDS BodyPages

CONSTANTS
  SearchAsks,     \* searches: document, mode, query, context
  PathAsks,       \* extractions: document, mode, paths
  TextScanLimit,  \* MAX_TEXT_QUERY_SCAN_BYTES
  MaxHits,        \* MAX_TEXT_QUERY_HITS
  Window,         \* SEARCH_WINDOW_BYTES
  MatchSlack,     \* MATCH_SLACK_BYTES
  Batch,          \* SCAN_BATCH_BYTES
  Growth,         \* bytes a letter of the query may match
  PathScanLimit,  \* MAX_JSON_PATH_SCAN_BYTES
  RootScanLimit,  \* ROOT_PATH_SCAN_BYTES
  MaxValue,       \* MAX_EXTRACTED_VALUE_BYTES
  MaxMatches,     \* MAX_JSON_PATH_MATCHES
  MaxResult,      \* MAX_EXTRACTED_RESULT_BYTES
  MaxDepth        \* MAX_JSON_DEPTH, or the parser's own limit where that is less

VARIABLES
  hunt,    \* a search: what is left to write, the sink
  answer   \* an extraction: its question and what it returned

queryVars == <<hunt, answer>>

-----------------------------------------------------------------------------
(* Documents.                                                              *)

Doc(t, text, kids) == [t |-> t, text |-> text, kids |-> kids]
Str(text) == Doc("string", text, << >>)
Num == Doc("number", <<"7">>, << >>)
Null == Doc("null", <<"n">>, << >>)
Kid(k, v) == [key |-> k, val |-> v]
Obj(kids) == Doc("object", << >>, kids)
Arr(vals) == Doc("array", << >>, [i \in DOMAIN vals |-> Kid("", vals[i])])
IsContainer(v) == v.t \in {"object", "array"}

\* classify: "S" names a secret, "U" an identifier.
is_sensitive_name(k) == k \in {"S", "U"}
\* redact_json_field: a pseudonym for an identifier; null and containers are redacted as secrets are.
redact_json_field(k, v) == Str(IF k = "U" /\ ~IsContainer(v) /\ v # Null THEN <<"#">> ELSE <<"R">>)
Redact(text) == redact_text(text, "earlier")

Comma(i) == IF i > 1 THEN <<",">> ELSE << >>
Opens(v) == IF v.t = "object" THEN <<"{">> ELSE <<"[">>
Closes(v) == IF v.t = "object" THEN <<"}">> ELSE <<"]">>
KeyText(v, i) == IF v.t = "object" THEN <<v.kids[i].key, ":">> ELSE << >>
\* serde_json::to_string
RECURSIVE Render(_)
Render(v) ==
  IF IsContainer(v)
  THEN Opens(v) \o FlattenSeq([i \in DOMAIN v.kids |-> Comma(i) \o KeyText(v, i) \o Render(v.kids[i].val)]) \o Closes(v)
  ELSE v.text
Bulk(v) == Size(Render(v))

RECURSIVE Depth(_)
Depth(v) == IF IsContainer(v) THEN 1 + Max({0} \cup {Depth(v.kids[i].val) : i \in DOMAIN v.kids}) ELSE 0

\* serde_json::from_str accepts it.
IsJson(v) == v.t # "text" /\ Depth(v) <= MaxDepth

\* Map::insert: a repeated key keeps its place and takes the new value.
Insert(kids, k, v) ==
  IF \E i \in DOMAIN kids : kids[i].key = k THEN [i \in DOMAIN kids |-> IF kids[i].key = k THEN Kid(k, v) ELSE kids[i]]
  ELSE Append(kids, Kid(k, v))
\* serde_json::from_str
RECURSIVE Parsed(_)
Parsed(v) ==
  CASE v.t = "object" -> Obj(FoldLeft(LAMBDA kids, kid : Insert(kids, kid.key, Parsed(kid.val)), << >>, v.kids))
    [] v.t = "array" -> Arr([i \in DOMAIN v.kids |-> Parsed(v.kids[i].val)])
    [] OTHER -> v

\* redact_json_value_inner, redact_object
RECURSIVE redact_json_value(_)
redact_json_value(v) ==
  CASE IsContainer(v) ->
         Doc(v.t, << >>, [i \in DOMAIN v.kids |-> LET kid == v.kids[i] IN
           Kid(kid.key, IF is_sensitive_name(kid.key) THEN redact_json_field(kid.key, kid.val) ELSE redact_json_value(kid.val))])
    [] v.t = "string" -> Str(Redact(v.text))
    [] OTHER -> v

\* redact_text: what every read of the body promises.
ViewOf(v) == IF IsJson(v) THEN redact_json_value(Parsed(v)) ELSE Doc("text", Redact(Render(v)), << >>)

-----------------------------------------------------------------------------
(* textQuery: matches in a text.                                           *)

Fold(c) == IF c = "w" THEN "v" ELSE c
Letters(bytes) == LET first == SelectSeq(bytes, LAMBDA b : b[2] = 1) IN [i \in DOMAIN first |-> first[i][1]]
Monus(a, b) == IF a > b THEN a - b ELSE 0

MatchAt(text, query, i) ==
  i + Len(query) - 1 <= Len(text) /\ \A j \in DOMAIN query : Fold(text[i + j - 1]) = Fold(query[j])
Span(text, i, n) == [from |-> Size(SubSeq(text, 1, i - 1)), to |-> Size(SubSeq(text, 1, i + n - 1)), next |-> i + n]
\* find_iter: leftmost matches that do not overlap, as byte offsets.
find_iter(text, query) ==
  FoldLeft(LAMBDA found, i : IF MatchAt(text, query, i) /\ (found = << >> \/ i >= Last(found).next)
                             THEN Append(found, Span(text, i, Len(query))) ELSE found,
           << >>, [i \in DOMAIN text |-> i])

Hit(at, snippet) == [at |-> at, snippet |-> snippet]
FloorTo(text, offset) == Max({b \in Boundaries(text) : b <= offset})
CeilTo(text, offset) == Min({b \in Boundaries(text) : b >= offset} \cup {Size(text)})
\* text_matches: the search over a text that is all there.
text_matches(text, query, context) ==
  LET found == find_iter(text, query)
      Shown(m) == Hit(m.from, SubSeq(Bytes(text), FloorTo(text, Monus(m.from, context)) + 1, CeilTo(text, m.to + context)))
  IN [hits |-> [i \in 1..Min({Len(found), MaxHits}) |-> Shown(found[i])], limited |-> Len(found) > MaxHits]

-----------------------------------------------------------------------------
(* MatchSink: the same over a buffer that slides.                          *)

EmptySink == [buffer |-> << >>, start |-> 0, next |-> 0, total |-> 0, hits |-> << >>, limited |-> FALSE]
\* Mutant: a match may not reach past the part that is final.
M_NoRoom(query) == 0
max_match_bytes(query) == Growth * Len(query)
retention(context) == Max({Window, context + MatchSlack})

release_buffer(s) == [s EXCEPT !.buffer = << >>, !.start = s.total, !.next = s.total]
floor_boundary(s, offset) == s.start + FloorTo(Letters(s.buffer), Monus(Min({offset, s.total}), s.start))
ceil_boundary(s, offset) == s.start + CeilTo(Letters(s.buffer), Monus(Min({offset, s.total}), s.start))

trim(s, context) ==
  LET keep == floor_boundary(s, Monus(s.next, context + MatchSlack)) IN
  IF keep > s.start THEN [s EXCEPT !.buffer = SubSeq(@, keep - s.start + 1, Len(@)), !.start = keep] ELSE s

\* One match of a scan: kept for later, one too many, or taken.
Judge(acc, m, safe, flush, context) ==
  LET s == acc.sink
      from == floor_boundary(s, Monus(m.from, context))
      to == ceil_boundary(s, Min({m.to + context, s.total})) IN
  CASE acc.stop -> acc
    [] ~acc.stop /\ (m.from >= safe \/ (~flush /\ m.to + context > safe)) -> [acc EXCEPT !.stop = TRUE, !.pending = TRUE]
    [] ~acc.stop /\ m.from < safe /\ (flush \/ m.to + context <= safe) ->
         IF Len(s.hits) >= MaxHits THEN [acc EXCEPT !.stop = TRUE, !.sink.limited = TRUE]
         ELSE IF to - s.start > Len(s.buffer) THEN [acc EXCEPT !.stop = TRUE, !.pending = TRUE]
         ELSE [acc EXCEPT !.advance = m.to,
                          !.sink.hits = Append(@, Hit(m.from, SubSeq(s.buffer, from - s.start + 1, to - s.start)))]

\* The matches of the window; a slice inside a character would panic.
WindowMatches(window, from, query) ==
  LET found == IF IsUtf8(window) THEN find_iter(Letters(window), query) ELSE << >> IN
  [i \in DOMAIN found |-> [from |-> found[i].from + from, to |-> found[i].to + from]]

scan(s, flush, query, context) ==
  LET safe == floor_boundary(s, IF flush THEN s.total ELSE Monus(s.total, retention(context)))
      from == Max({s.next, s.start})
      end == Min({Monus(ceil_boundary(s, Min({safe + max_match_bytes(query), s.total})), s.start), Len(s.buffer)})
      acc == FoldLeft(LAMBDA a, m : Judge(a, m, safe, flush, context),
                      [sink |-> s, advance |-> from, pending |-> FALSE, stop |-> FALSE],
                      WindowMatches(SubSeq(s.buffer, from - s.start + 1, end), from, query)) IN
  IF s.limited THEN release_buffer(s)
  ELSE IF from >= safe \/ from - s.start >= end THEN s
  ELSE IF acc.sink.limited THEN release_buffer(acc.sink)
  ELSE trim([acc.sink EXCEPT !.next = Max({@, IF acc.pending THEN acc.advance ELSE safe})], context)

write_str(s, text, query, context) ==
  LET total == s.total + Size(text)
      longer == [s EXCEPT !.total = total, !.buffer = @ \o Bytes(text)] IN
  IF text = << >> THEN s
  ELSE IF s.limited THEN release_buffer([s EXCEPT !.total = total])
  ELSE IF Monus(Monus(total, retention(context)), s.next) >= Batch THEN scan(longer, FALSE, query, context)
  ELSE longer

\* RedactVisitor, SensitiveVisitor: the texts written while the document is parsed.
RECURSIVE Streamed(_)
Streamed(v) ==
  CASE IsContainer(v) ->
         <<Opens(v)>> \o FlattenSeq([i \in DOMAIN v.kids |-> LET kid == v.kids[i] IN
            <<Comma(i)>>
            \o (IF v.t = "object" THEN <<<<kid.key>>, <<":">>>> ELSE << >>)
            \o (IF is_sensitive_name(kid.key) THEN <<redact_json_field(kid.key, kid.val).text>> ELSE Streamed(kid.val))]) \o <<Closes(v)>>
    [] v.t = "string" -> <<Redact(v.text)>>
    [] OTHER -> <<v.text>>

NoHunt == [pc |-> "idle", ask |-> "none", left |-> << >>, sink |-> EmptySink]

\* The raw bytes, or the view of the whole.
SearchedText(ask) == Render(IF ask.raw THEN ask.doc ELSE ViewOf(ask.doc))
\* search_text: too large, raw or not JSON (the whole text is searched), or a stream.
BeginSearch ==
  /\ hunt.pc = "idle"
  /\ \E ask \in SearchAsks :
       LET whole == text_matches(SearchedText(ask), ask.query, ask.context) IN
       hunt' = IF Bulk(ask.doc) > TextScanLimit THEN [hunt EXCEPT !.pc = "refused", !.ask = ask]
               ELSE IF ask.raw \/ ~IsJson(ask.doc)
               THEN [hunt EXCEPT !.pc = "done", !.ask = ask, !.sink.hits = whole.hits, !.sink.limited = whole.limited]
               ELSE [hunt EXCEPT !.pc = "stream", !.ask = ask, !.left = Streamed(ask.doc)]
  /\ UNCHANGED answer

\* The parser calls the visitor with the next token.
StreamToken ==
  /\ hunt.pc = "stream" /\ hunt.left # << >>
  /\ hunt' = [hunt EXCEPT !.left = Tail(@), !.sink = write_str(@, Head(hunt.left), hunt.ask.query, hunt.ask.context)]
  /\ UNCHANGED answer

FinishSearch ==
  /\ hunt.pc = "stream" /\ hunt.left = << >>
  /\ hunt' = [hunt EXCEPT !.pc = "done", !.sink = scan(@, TRUE, hunt.ask.query, hunt.ask.context)]
  /\ UNCHANGED answer

-----------------------------------------------------------------------------
(* jsonPaths.  A path is a sequence of keys, positions and "*".            *)

KeySeg(k) == [kind |-> "key", key |-> k, index |-> 0]
IndexSeg(n) == [kind |-> "index", key |-> "", index |-> n]
Wildcard == [kind |-> "any", key |-> "", index |-> 0]

\* A node of the path tree: the paths that lead here, and what is left of them.
build_path_tree(paths) == {<<i, paths[i]>> : i \in DOMAIN paths}
collect_terminals(nodes) == SetToSortSeq({n[1] : n \in {m \in nodes : m[2] = << >>}}, <)
\* child_nodes_for_key, child_nodes_for_index
child_nodes(nodes, seg) == {<<n[1], Tail(n[2])>> : n \in {m \in nodes : m[2] # << >> /\ Head(m[2]) \in {seg, Wildcard}}}
SegOf(v, i) == IF v.t = "object" THEN KeySeg(v.kids[i].key) ELSE IndexSeg(i - 1)

Match(pos, v, cut) == [pos |-> pos, value |-> v, truncated |-> cut]
match_storage_bytes(m) == Bulk(m.value) + Len(m.pos)
NewState(paths) == [slots |-> [i \in DOMAIN paths |-> << >>], limited |-> {}, omitted |-> {}, bytes |-> 0]

Storage(ms) == IF ms = << >> THEN 0 ELSE match_storage_bytes(ms[1])
\* A value at a position seen before replaces the earlier one; a full slot or result drops it.
Put(slot, m, seen) == IF seen THEN [j \in DOMAIN slot |-> IF slot[j].pos = m.pos THEN m ELSE slot[j]] ELSE Append(slot, m)
Pushed(st, m, i, seen, freed, bytes) ==
  IF ~seen /\ Len(st.slots[i]) >= MaxMatches THEN [st EXCEPT !.limited = @ \cup {i}]
  ELSE IF bytes > MaxResult
  THEN [st EXCEPT !.limited = @ \cup {i}, !.omitted = @ \cup {i}, !.bytes = freed,
                  !.slots[i] = SelectSeq(@, LAMBDA old : old.pos # m.pos)]
  ELSE [st EXCEPT !.bytes = bytes, !.slots[i] = Put(@, m, seen)]
Freed(st, same) == Monus(st.bytes, Storage(same))
push(st, m, i) ==
  LET same == SelectSeq(st.slots[i], LAMBDA old : old.pos = m.pos) IN
  Pushed(st, m, i, same # << >>, Freed(st, same), Freed(st, same) + match_storage_bytes(m))
capture(st, terminals, m) == FoldLeft(LAMBDA s, i : push(s, m, i), st, terminals)

\* captured_string: a string is redacted, then cut to whole characters.
Bounded(text) ==
  IF Size(text) <= MaxValue THEN [val |-> Str(text), cut |-> FALSE]
  ELSE [val |-> Str(Letters(SubSeq(Bytes(text), 1, FloorTo(text, MaxValue))) \o <<"~">>), cut |-> TRUE]
captured_scalar(v, raw) == IF v.t = "string" THEN Bounded(IF raw THEN v.text ELSE Redact(v.text)) ELSE [val |-> v, cut |-> FALSE]

\* append_object_entry, append_array_entry: too large, and the container is given up.
Appended(acc, t, k, v, size) ==
  IF acc.cut THEN acc
  ELSE IF size > MaxValue THEN [acc EXCEPT !.cut = TRUE, !.kids = << >>, !.size = size]
  ELSE [acc EXCEPT !.size = size, !.kids = IF t = "object" THEN Insert(@, k, v) ELSE Append(@, Kid(k, v))]
append_entry(acc, t, k, v) ==
  Appended(acc, t, k, v, acc.size + (IF acc.kids = << >> THEN 0 ELSE 1) + (IF t = "object" THEN 2 ELSE 0) + Bulk(v))

Captured(v, cut, st) == [val |-> v, cut |-> cut, st |-> st]
\* A container that is built, given up, or only passed through.
Assembled(v, build, acc) ==
  Captured(IF build /\ ~acc.cut THEN Doc(v.t, << >>, acc.kids) ELSE Null, build /\ acc.cut, acc.st)
Grown(acc, kid, t, build, got) == [IF build THEN append_entry(acc, t, kid.key, got.val) ELSE acc EXCEPT !.st = got.st]
Matched(got, terminals, pos) == [got EXCEPT !.st = capture(@, terminals, Match(pos, got.val, got.cut))]

\* CaptureSeed, visit_map, visit_seq: what a value captures, and the matches inside it.
\* A sensitive value is replaced before anything inside it is looked at.
RECURSIVE Visit(_, _, _, _, _, _), VisitKid(_, _, _, _, _, _, _)
VisitKid(acc, kid, t, under, pos, build, raw) ==
  IF ~build /\ under = {} THEN acc
  ELSE Grown(acc, kid, t, build,
             IF ~raw /\ is_sensitive_name(kid.key)
             THEN Matched(Captured(redact_json_field(kid.key, kid.val), FALSE, acc.st), collect_terminals(under), pos)
             ELSE Visit(kid.val, under, pos, build, raw, acc.st))
Visit(v, nodes, pos, all, raw, st) ==
  LET build == all \/ \E n \in nodes : n[2] = << >>
      Child(acc, i) == VisitKid(acc, v.kids[i], v.t, child_nodes(nodes, SegOf(v, i)), Append(pos, SegOf(v, i)), build, raw) IN
  IF ~build /\ nodes = {} THEN Captured(Null, FALSE, st)
  ELSE Matched(IF IsContainer(v)
               THEN Assembled(v, build, FoldLeft(Child, [kids |-> << >>, size |-> 2, cut |-> FALSE, st |-> st], [i \in DOMAIN v.kids |-> i]))
               ELSE Captured(captured_scalar(v, raw).val, captured_scalar(v, raw).cut, st),
               collect_terminals(nodes), pos)

NoAnswer == [pc |-> "idle", ask |-> "none", st |-> NewState(<< >>), found |-> << >>, truncated |-> FALSE]

\* A path's values in the order they were parsed; what was dropped or cut is marked.
build_results(ask, st) ==
  LET Cut(i) == i \in st.limited \/ \E j \in DOMAIN st.slots[i] : st.slots[i][j].truncated IN
  [pc |-> "done", ask |-> ask, st |-> st, truncated |-> \E i \in DOMAIN ask.paths : Cut(i),
   found |-> [i \in DOMAIN ask.paths |-> [values |-> st.slots[i], truncated |-> Cut(i), omitted |-> st.slots[i] = << >> /\ i \in st.omitted]]]

\* extract_json_paths: every error comes before a value does.
extract_json_paths(ask) ==
  IF Bulk(ask.doc) > PathScanLimit \/ ((\E i \in DOMAIN ask.paths : ask.paths[i] = << >>) /\ Bulk(ask.doc) > RootScanLimit)
  THEN [NoAnswer EXCEPT !.pc = "BODY_TOO_LARGE", !.ask = ask]
  ELSE IF ~IsJson(ask.doc) THEN [NoAnswer EXCEPT !.pc = IF ask.doc.t = "text" THEN "BODY_NOT_JSON" ELSE "JSON_TOO_DEEP", !.ask = ask]
  ELSE build_results(ask, Visit(ask.doc, build_path_tree(ask.paths), << >>, FALSE, ask.raw, NewState(ask.paths)).st)

Extract ==
  /\ answer.pc = "idle" /\ \E ask \in PathAsks : answer' = extract_json_paths(ask)
  /\ UNCHANGED hunt

\* An agent asks one thing: a search, or some paths.
QueryInit == \/ hunt = NoHunt /\ answer = [NoAnswer EXCEPT !.pc = "off"]
             \/ hunt = [NoHunt EXCEPT !.pc = "off"] /\ answer = NoAnswer
QueryNext == BeginSearch \/ StreamToken \/ FinishSearch \/ Extract

-----------------------------------------------------------------------------
(* References: the document as a whole.                                    *)

RECURSIVE Unrepeated(_)
Unrepeated(v) == /\ \A i, j \in DOMAIN v.kids : v.t = "object" /\ v.kids[i].key = v.kids[j].key => i = j
                 /\ \A i \in DOMAIN v.kids : Unrepeated(v.kids[i].val)

\* Every value with its position, children before their parent.
RECURSIVE Everywhere(_, _)
Everywhere(v, pos) ==
  FlattenSeq([i \in DOMAIN v.kids |-> Everywhere(v.kids[i].val, Append(pos, SegOf(v, i)))]) \o <<Match(pos, v, FALSE)>>
Reaches(path, pos) == Len(path) = Len(pos) /\ \A i \in DOMAIN path : path[i] \in {pos[i], Wildcard}

\* A value without the containers inside it that are too large: each shows as null.
RECURSIVE WithoutLarge(_)
WithoutLarge(v) ==
  [v EXCEPT !.kids = [i \in DOMAIN @ |-> LET kid == WithoutLarge(@[i].val) IN
     Kid(@[i].key, IF IsContainer(kid) /\ Bulk(kid) > MaxValue THEN Null ELSE kid)]]
ShowsSecret(text) == \E i \in 1..Len(text) - 1 : text[i] = "s" /\ text[i + 1] = "s"

\* A search of the stream finds what a search of the whole redacted text finds, at the same
\* offsets with the same context, and says "limited" for the same texts.
SearchMissesNothing ==
  hunt.pc = "done" =>
    /\ Unrepeated(hunt.ask.doc) \/ hunt.ask.raw =>
         LET whole == text_matches(SearchedText(hunt.ask), hunt.ask.query, hunt.ask.context) IN
         hunt.sink.hits = whole.hits /\ hunt.sink.limited = whole.limited
    /\ ~hunt.ask.raw => \A i \in DOMAIN hunt.sink.hits : ~ShowsSecret(Letters(hunt.sink.hits[i].snippet))

\* A path gets the values it reaches in the redacted document and no others: all of them and
\* whole, or marked truncated on the value, its path and the answer; and nothing is marked that
\* is whole.  The one loss the code does not mark is a container too large to extract inside
\* one that is not: visit_map and visit_seq keep its null and drop its mark.
PathsAreFaithful ==
  answer.pc = "done" /\ Unrepeated(answer.ask.doc) =>
    \A i \in DOMAIN answer.ask.paths :
      LET view == IF answer.ask.raw THEN Parsed(answer.ask.doc) ELSE ViewOf(answer.ask.doc)
          want == SelectSeq(Everywhere(view, << >>), LAMBDA m : Reaches(answer.ask.paths[i], m.pos))
          got == answer.found[i] IN
      /\ ~got.truncated => Len(got.values) = Len(want)
      /\ \A j \in DOMAIN got.values : LET m == got.values[j] IN
           /\ \E w \in Range(want) :
                w.pos = m.pos /\ IF m.truncated THEN Bulk(WithoutLarge(w.value)) > MaxValue ELSE m.value = WithoutLarge(w.value)
           /\ m.truncated => got.truncated /\ answer.truncated
           /\ ~answer.ask.raw => ~ShowsSecret(Render(m.value))
      /\ got.omitted => got.truncated

\* Pages, textQuery and jsonPaths of a body agree (tools/body.rs:536, tools/text_search.rs:314,
\* tools/body_stream.rs:918): pages join to the body or its redacted view, and both queries find
\* what that view has, however the tokens fall into the buffer and whatever is cut off.
ReadsAreFaithful == PagesJoin /\ SearchMissesNothing /\ PathsAreFaithful
=============================================================================
