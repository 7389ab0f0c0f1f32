----------------------------- MODULE FileExport -----------------------------
(***************************************************************************)
(* Files written and read for the user (commands/files.rs): the export of  *)
(* captured response bodies into a picked folder, the export of one text   *)
(* into Downloads, and the tokens that stand for attached files.  Exports  *)
(* run on the blocking pool: two of them, and other programs, work in one  *)
(* folder at a time.                                                       *)
(*                                                                         *)
(* A name is [stem, ext, n], n the number of a " (n)" suffix; a path is a  *)
(* sequence of names under the picked folder.  The folder maps the paths   *)
(* that exist to [kind, by]: a directory, a link or a file and who wrote   *)
(* its bytes.  File opening is the Unix one (O_NOFOLLOW).                  *)
(***************************************************************************)
EXTENDS Integers, Sequences, FiniteSets

CONSTANTS Exporters,       \* export commands that may run
          Captures,        \* capture id |-> [url, mime, started, body, socket]
          Selections,      \* what a renderer may ask for: sequences of ids
          Folders0,        \* what the picked folder may hold at first
          MaxDepth,        \* MAX_EXPORT_PATH_DEPTH
          MaxSuffix,       \* candidates before giving up
          Lifetime,        \* of an attachment token
          MaxTicks, MaxTokens, MaxPlants   \* bounds

ASSUME ExportAssumption ==
  /\ MaxDepth \in Nat \ {0} /\ {MaxSuffix, Lifetime, MaxTicks, MaxTokens, MaxPlants} \subseteq Nat
  /\ \A c \in DOMAIN Captures :
       /\ Captures[c].url.segs \in Seq([stem : STRING, ext : STRING]) /\ Captures[c].mime \in STRING
       /\ Captures[c].started \in Nat
  /\ \A ids \in Selections : ids \in Seq(STRING)
  /\ \A f \in Folders0 : \A p \in DOMAIN f : f[p].kind \in {"dir", "link", "file"}

VARIABLES folder,    \* path |-> [kind, by]
          exports,   \* exporter |-> command
          firstFolder, \* ghost: the folder when nothing had run
          written,   \* ghost: files an exporter was told are saved: [path, by, who]
          plants,    \* what another program added
          tokens,    \* attachment_token_store: token |-> expiry
          tokenFile,  \* attachment-tokens.json, the same form
          answered,  \* ghost: tokens handed to the renderer |-> expiry
          ticks      \* now_unix_secs

folderVars == <<folder, exports, firstFolder, written, plants>>
tokenVars == <<tokens, tokenFile, answered, ticks>>
exportVars == <<folder, exports, firstFolder, written, plants, tokens, tokenFile, answered, ticks>>

---------------------------------------------------------------------------
(* From a URL to a path. *)

\* A name as it is in the URL: one that is all dots or blank becomes "_", one
\* with a separator or an illegal character keeps the rest, a device name gets
\* a prefix.
sanitize_path_segment(seg) ==
  [stem |-> CASE seg.stem \in {"..", "blank"} -> "_" [] seg.stem = "a/b" -> "a_b" [] seg.stem = "con" -> "_con" [] OTHER -> seg.stem,
   ext |-> IF seg.stem = ".." THEN "" ELSE seg.ext, n |-> 0]

guess_response_extension(mime) ==
  CASE mime \in {"application/json", "vendor+json"} -> "json"
    [] mime = "text/html" -> "html"
    [] mime = "text/other" -> "txt"
    [] OTHER -> "bin"

ensure_file_extension(name, mime) == IF name.ext # "" THEN name ELSE [name EXCEPT !.ext = guess_response_extension(mime)]

\* A URL that ends in a slash names a directory: its file is "index".
derive_response_relative_path(url, mime) ==
  LET segs == url.segs
      dirs == IF url.slash \/ segs = << >> THEN segs ELSE SubSeq(segs, 1, Len(segs) - 1)
      stem == IF url.slash \/ segs = << >> THEN [stem |-> "index", ext |-> "", n |-> 0]
              ELSE sanitize_path_segment(segs[Len(segs)])
      deep == IF Len(dirs) < MaxDepth THEN Len(dirs) ELSE MaxDepth - 1
  IN [k \in 1..deep |-> sanitize_path_segment(dirs[k])] \o <<ensure_file_extension(stem, mime)>>

is_websocket_summary(c) == Captures[c].socket

---------------------------------------------------------------------------
(* The plan: made from the summaries alone, before any body is read. *)

Known(c) == c \in DOMAIN Captures
Exportable(c) == Known(c) /\ ~is_websocket_summary(c) /\ Captures[c].url.valid

\* What stands at some of the places of a list, in order.
PlaceAt(S, n) == CHOOSE k \in S : Cardinality({i \in S : i < k}) = n - 1
Picked(list, S) == [n \in 1..Cardinality(S) |-> list[PlaceAt(S, n)]]

Distinct(ids) == Picked(ids, {k \in DOMAIN ids : \A j \in 1..(k - 1) : ids[j] # ids[k]})
Planned(ids) == Picked(Distinct(ids), {k \in DOMAIN Distinct(ids) : Exportable(Distinct(ids)[k])})
PathOf(c) == derive_response_relative_path(Captures[c].url, Captures[c].mime)

\* Of captures for one path, the one that started last; of those, the later in the selection.
Latest(list, k) ==
  \A j \in DOMAIN list : j # k /\ PathOf(list[j]) = PathOf(list[k]) =>
    \/ Captures[list[j]].started < Captures[list[k]].started
    \/ Captures[list[j]].started = Captures[list[k]].started /\ j < k

build_response_file_plan(ids, strategy) ==
  LET list == Planned(ids)
      kept == {k \in DOMAIN list : strategy = "keep_all" \/ Latest(list, k)}
      plan == Picked(list, kept)
  IN [plan |-> plan, skipped |-> Len(Distinct(ids)) - Len(plan)]

---------------------------------------------------------------------------
(* One export. *)

NoExport == [phase |-> "idle", strategy |-> "none", ids |-> << >>, plan |-> << >>, at |-> 1, depth |-> 1,
             saved |-> 0, skipped |-> 0, failed |-> 0, truncated |-> 0, target |-> << >>]
Kind(f, p) == IF p \in DOMAIN f THEN f[p].kind ELSE "none"
With(f, p, value) == [q \in DOMAIN f \cup {p} |-> IF q = p THEN value ELSE f[q]]
Put(p, kind, by) == folder' = With(folder, p, [kind |-> kind, by |-> by])
Current(e) == exports[e].plan[exports[e].at]
EntryPath(e) == PathOf(Current(e))
WithN(p, n) == [p EXCEPT ![Len(p)].n = n]
FirstFree(free) == CHOOSE n \in free : \A m \in free : n <= m

save_response_files(e, ids, strategy) ==
  LET made == build_response_file_plan(ids, strategy) IN
  /\ exports[e].phase = "idle" /\ ids # << >>
  /\ exports' = [exports EXCEPT ![e] = [NoExport EXCEPT !.phase = "read", !.strategy = strategy, !.ids = ids,
                                          !.plan = made.plan, !.skipped = made.skipped]]
  /\ UNCHANGED <<folder, firstFolder, written, plants, tokenVars>>

\* The next entry, or the answer when there is none.
NextEntry(x) == [x EXCEPT !.at = @ + 1, !.depth = 1, !.phase = "read"]
Skip(x) == [NextEntry(x) EXCEPT !.skipped = @ + 1]
Fail(x) == [NextEntry(x) EXCEPT !.failed = @ + 1]
Save(x, clipped) == [NextEntry(x) EXCEPT !.saved = @ + 1, !.truncated = IF clipped THEN @ + 1 ELSE @]

\* A session that is gone or has no body is a skip; a body that cannot be read a failure.
write_response_file(e, readable) ==
  LET body == Captures[Current(e)].body
      next == IF body = "empty" THEN Skip(exports[e])
              ELSE IF ~readable THEN Fail(exports[e]) ELSE [exports[e] EXCEPT !.phase = "walk"]
  IN
  /\ exports[e].phase = "read" /\ exports[e].at <= Len(exports[e].plan)
  /\ exports' = [exports EXCEPT ![e] = next]
  /\ UNCHANGED <<folder, firstFolder, written, plants, tokenVars>>

\* One directory after the other, links not followed: a component that is there
\* must be a real directory, one that is not is created in a step of its own.
create_export_directories(e) ==
  LET x == exports[e]
      here == SubSeq(EntryPath(e), 1, x.depth)
      next == IF x.depth = Len(EntryPath(e)) THEN [x EXCEPT !.phase = "write"]
              ELSE CASE Kind(folder, here) = "dir" -> [x EXCEPT !.depth = @ + 1]
                     [] Kind(folder, here) = "none" -> [x EXCEPT !.phase = "mkdir"]
                     [] OTHER -> Fail(x)
  IN
  /\ x.phase = "walk"
  /\ exports' = [exports EXCEPT ![e] = next]
  /\ UNCHANGED <<folder, firstFolder, written, plants, tokenVars>>

CreateDir(e) ==
  LET x == exports[e]
      here == SubSeq(EntryPath(e), 1, x.depth)
  IN
  /\ x.phase = "mkdir"
  /\ IF Kind(folder, here) = "none"
     THEN Put(here, "dir", "export") /\ exports' = [exports EXCEPT ![e] = [x EXCEPT !.depth = @ + 1, !.phase = "walk"]]
     ELSE /\ UNCHANGED folder
          /\ exports' = [exports EXCEPT ![e] = IF Kind(folder, here) = "dir" THEN [x EXCEPT !.depth = @ + 1, !.phase = "walk"]
                                               ELSE Fail(x)]
  /\ UNCHANGED <<firstFolder, written, plants, tokenVars>>

\* The bytes follow the open; a failure in between leaves the file short.
FileStored(e, path, ok) ==
  LET x == exports[e]
      next == IF ok THEN Save(x, Captures[Current(e)].body = "clipped") ELSE Fail(x)
  IN
  /\ Put(path, "file", IF ok THEN Current(e) ELSE "short")
  /\ written' = IF ok THEN written \cup {[path |-> path, by |-> Current(e), who |-> e]} ELSE written
  /\ exports' = [exports EXCEPT ![e] = next]

Refused(e) == UNCHANGED <<folder, written>> /\ exports' = [exports EXCEPT ![e] = Fail(@)]

\* The name is taken whatever is there.
M_Replace(e, ok) == FileStored(e, EntryPath(e), ok)

\* The name as it is, replacing a file; a link or a directory there is refused.
overwrite_export_file(e, ok) ==
  IF Kind(folder, EntryPath(e)) \in {"none", "file"} THEN FileStored(e, EntryPath(e), ok) ELSE Refused(e)

\* The first name that nothing has, taken and created in one step.
create_new_export_file(e, ok) ==
  LET free == {n \in 0..MaxSuffix : Kind(folder, WithN(EntryPath(e), n)) = "none"} IN
  IF free = {} THEN Refused(e) ELSE FileStored(e, WithN(EntryPath(e), FirstFree(free)), ok)

write_export_file(e, ok) ==
  /\ exports[e].phase = "write"
  /\ IF exports[e].strategy = "latest_only" THEN overwrite_export_file(e, ok) ELSE create_new_export_file(e, ok)
  /\ UNCHANGED <<firstFolder, plants, tokenVars>>

Finished(e) ==
  /\ exports[e].phase = "read" /\ exports[e].at > Len(exports[e].plan)
  /\ exports' = [exports EXCEPT ![e].phase = "done"]
  /\ UNCHANGED <<folder, firstFolder, written, plants, tokenVars>>

---------------------------------------------------------------------------
(* One text: a free name is looked for and then written. *)

TextName == <<[stem |-> "a", ext |-> "js", n |-> 0]>>
\* exists() follows links: a dangling one looks free, and the write refuses it.
next_available_export_path ==
  LET taken(n) == Kind(folder, WithN(TextName, n)) \in {"file", "dir"}
      free == {n \in 0..MaxSuffix : ~taken(n)}
  IN IF free = {} THEN TextName ELSE WithN(TextName, FirstFree(free))

\* Only a plain name is accepted: no separator, no dot segment, not absolute.
validate_export_basename(name) == name \notin {"blank", ".", "..", "a/b", "/a"}

save_text_file(e, name) ==
  /\ exports[e].phase = "idle"
  /\ exports' = [exports EXCEPT ![e] = IF ~validate_export_basename(name) THEN [NoExport EXCEPT !.phase = "done"]
                  ELSE [NoExport EXCEPT !.phase = "text", !.strategy = "text", !.target = next_available_export_path]]
  /\ UNCHANGED <<folder, firstFolder, written, plants, tokenVars>>

overwrite_regular_file(e) ==
  LET path == exports[e].target IN
  /\ exports[e].phase = "text"
  /\ IF Kind(folder, path) \in {"none", "file"}
     THEN Put(path, "file", "text") /\ written' = written \cup {[path |-> path, by |-> "text", who |-> e]}
     ELSE UNCHANGED <<folder, written>>
  /\ exports' = [exports EXCEPT ![e].phase = "done"]
  /\ UNCHANGED <<firstFolder, plants, tokenVars>>

\* Another program adds a directory, a link or a file under a free name.
Plant(p, kind) ==
  /\ plants < MaxPlants /\ plants' = plants + 1
  /\ Kind(folder, p) = "none" /\ \A k \in 1..(Len(p) - 1) : Kind(folder, SubSeq(p, 1, k)) = "dir"
  /\ Put(p, kind, "other")
  /\ firstFolder' = With(firstFolder, p, [kind |-> kind, by |-> "other"])
  /\ UNCHANGED <<exports, written, tokenVars>>

---------------------------------------------------------------------------
(* Attachment tokens. *)

Unexpired(store, now) == [t \in {u \in DOMAIN store : store[u] > now} |-> store[t]]

persist_attachment_tokens(store, ok) == tokenFile' = IF ok THEN store ELSE tokenFile

\* Outside the media folders, or too large: no token.
pick_attachment_file(allowed, fits) == allowed /\ fits

issue_attachment_token(t, allowed, fits, ok) ==
  LET kept == Unexpired(tokens, ticks)
      store == With(kept, t, ticks + Lifetime)
  IN
  /\ t \notin DOMAIN answered /\ pick_attachment_file(allowed, fits)
  /\ persist_attachment_tokens(store, ok)
  /\ tokens' = IF ok THEN store ELSE kept
  /\ answered' = IF ok THEN With(answered, t, ticks + Lifetime) ELSE answered
  /\ UNCHANGED <<ticks, folderVars>>

\* Expired ones are dropped on the way, and the file follows when any was.
resolve_attachment_token(t, ok) ==
  LET kept == Unexpired(tokens, ticks) IN
  /\ tokens' = kept
  /\ IF t \in DOMAIN kept /\ kept # tokens THEN persist_attachment_tokens(kept, ok) ELSE UNCHANGED tokenFile
  /\ UNCHANGED <<answered, ticks, folderVars>>

load_attachment_tokens == tokens' = Unexpired(tokenFile, ticks) /\ UNCHANGED <<tokenFile, answered, ticks, folderVars>>
Tick == ticks < MaxTicks /\ ticks' = ticks + 1 /\ UNCHANGED <<tokens, tokenFile, answered, folderVars>>

---------------------------------------------------------------------------
ExportInit ==
  /\ folder \in Folders0 /\ firstFolder = folder
  /\ exports = [e \in Exporters |-> NoExport]
  /\ written = {} /\ plants = 0
  /\ tokens = [t \in {} |-> 0] /\ tokenFile = tokens /\ answered = tokens /\ ticks = 0

FileStep ==
  \/ \E e \in Exporters :
       \/ \E ids \in Selections, strategy \in {"latest_only", "keep_all"} : save_response_files(e, ids, strategy)
       \/ \E ok \in BOOLEAN : write_response_file(e, ok) \/ write_export_file(e, ok)
       \/ create_export_directories(e) \/ CreateDir(e) \/ Finished(e)
       \/ \E name \in {"a", "..", "a/b"} : save_text_file(e, name)
       \/ overwrite_regular_file(e)
  \/ \E c \in DOMAIN Captures, kind \in {"dir", "link", "file"} : Plant(PathOf(c), kind)
  \/ \E c \in DOMAIN Captures : Plant(SubSeq(PathOf(c), 1, 1), "link")

TokenStep ==
  \/ \E t \in 1..MaxTokens, ok \in BOOLEAN :
       \/ \E allowed, fits \in BOOLEAN : issue_attachment_token(t, allowed, fits, ok)
       \/ resolve_attachment_token(t, ok)
  \/ Tick \/ load_attachment_tokens

\* Files and tokens share no state: a behaviour takes steps of one of them.
NextExport ==
  \/ ticks = 0 /\ DOMAIN answered = {} /\ FileStep
  \/ folder = firstFolder /\ (\A e \in Exporters : exports[e] = NoExport) /\ TokenStep

\* The exports that replace the file of a path.
Overwrites(x, p) ==
  \/ x.strategy = "latest_only" /\ \E k \in DOMAIN x.plan : PathOf(x.plan[k]) = p
  \/ x.strategy = "text" /\ x.target = p

\* ExportsKeepFiles: an export accounts for every request it was given; what was
\* in the folder or saved there stays as it is unless a latest-only export or a
\* text was written to that very path, links and directories always; files
\* written lie in real directories, no deeper than the limit and under safe
\* names; a latest-only export that is alone leaves the newest capture of each path it
\* wrote; and a token answered to the renderer resolves, here and after a
\* restart, until it expires.
ExportsKeepFiles ==
  /\ \A e \in Exporters : exports[e].phase = "done" /\ exports[e].strategy \in {"latest_only", "keep_all"} =>
       exports[e].saved + exports[e].skipped + exports[e].failed = Cardinality({exports[e].ids[k] : k \in DOMAIN exports[e].ids})
  /\ \A p \in DOMAIN firstFolder : folder[p] = firstFolder[p] \/ (folder[p].kind = "file" /\ firstFolder[p].kind = "file")
  /\ \A p \in DOMAIN firstFolder : folder[p] = firstFolder[p] \/ \E e \in Exporters : Overwrites(exports[e], p)
  /\ \A w \in written : folder[w.path].by = w.by \/ \E e \in Exporters \ {w.who} : Overwrites(exports[e], w.path)
  /\ \A p \in DOMAIN folder : p \notin DOMAIN firstFolder \/ folder[p] # firstFolder[p] =>
       /\ Len(p) <= MaxDepth
       /\ folder[p].kind = "file" => \A k \in 1..(Len(p) - 1) : Kind(folder, SubSeq(p, 1, k)) = "dir"
       /\ \A k \in DOMAIN p : p[k].stem \notin {"..", "a/b", "con", "blank"}
  /\ \A e \in Exporters : exports[e].strategy = "latest_only" /\ (\A f \in Exporters \ {e} : exports[f] = NoExport) =>
       \A w \in written : \A k \in DOMAIN exports[e].ids :
         LET c == exports[e].ids[k]
         IN Exportable(c) /\ PathOf(c) = w.path => Captures[c].started <= Captures[w.by].started
  /\ \A t \in DOMAIN answered : answered[t] > ticks =>
       /\ t \in DOMAIN tokens /\ tokens[t] = answered[t]
       /\ t \in DOMAIN tokenFile /\ tokenFile[t] = answered[t]
  /\ \A t \in DOMAIN tokens : t \in DOMAIN answered

ExportSpec == ExportInit /\ [][NextExport]_exportVars
=============================================================================
