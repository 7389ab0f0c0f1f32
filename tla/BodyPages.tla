----------------------------- MODULE BodyPages ------------------------------
(***************************************************************************)
(* get_session_body of the MCP side car (tools/body.rs, redaction.rs): an  *)
(* agent pages through a captured body, each page a call of its own that   *)
(* looks the session up, reads its sizes and then its bytes, while the     *)
(* desktop rewrites or removes the body.  A redacted page is a slice of    *)
(* the redaction of the whole body; a raw page is a range of its bytes.    *)
(*                                                                         *)
(* A body is a sequence of characters: "p" plain, "w" of two bytes, "s" of *)
(* a secret (two in a row are recognised as one), "i" an identifier, "x" a *)
(* byte that is not UTF-8.                                                 *)
(***************************************************************************)
EXTENDS RedactionKey, Sequences, SequencesExt

CONSTANTS
  Texts,         \* bodies that are captured
  PageSizes,     \* maxBytes an agent asks for
  ConfiguredMax, \* limits.max_body_bytes
  ScanLimit,     \* MAX_BODY_SCAN_BYTES
  Agent,         \* the load of the paging call, one of Loaders
  MaxRewrites    \* bound: rewrites of the body

ASSUME PagesAssumption == ConfiguredMax \in Nat \ {0} /\ ScanLimit \in Nat /\ Agent \in Loaders

VARIABLES
  body,     \* the stored reference: where it is, its characters
  edition,  \* history: rewrites and removals so far
  allowed,  \* capabilities the settings or a grant give
  read      \* the agent's reading: its call under way, the pages so far

pageVars == <<body, edition, allowed, read>>

Body(where, text) == [where |-> where, text |-> text]
Modes == {"redacted", "raw", "base64", "metadata"}

-----------------------------------------------------------------------------
(* Characters and bytes.                                                   *)

Width(c) == IF c = "w" THEN 2 ELSE 1
CharBytes(c) == [k \in 1..Width(c) |-> <<c, k>>]
Bytes(text) == FlattenSeq([i \in DOMAIN text |-> CharBytes(text[i])])
Size(text) == Len(Bytes(text))

\* std::str::from_utf8: only whole characters.
IsUtf8(bytes) ==
  \A i \in DOMAIN bytes :
    /\ bytes[i][1] # "x"
    /\ bytes[i] = <<"w", 1>> => i < Len(bytes) /\ bytes[i + 1] = <<"w", 2>>
    /\ bytes[i] = <<"w", 2>> => i > 1 /\ bytes[i - 1] = <<"w", 1>>

is_char_boundary(text, offset) == \E n \in 0..Len(text) : Size(SubSeq(text, 1, n)) = offset
Boundaries(text) == {offset \in 0..Size(text) : is_char_boundary(text, offset)}

-----------------------------------------------------------------------------
(* Redaction.                                                              *)

\* redact_scalar and pseudonym: an identifier is hashed under the key.
pseudonym(k) == <<"id", k>>
\* The patterns of redact_string_inner see a secret only when all of it is there.
EndRun(acc) == [out |-> acc.out \o (IF acc.run >= 2 THEN <<"R">> ELSE [i \in 1..acc.run |-> "s"]), run |-> 0]
OneChar(acc, c, k) ==
  IF c = "s" THEN [acc EXCEPT !.run = @ + 1]
  ELSE [EndRun(acc) EXCEPT !.out = Append(@, IF c = "i" THEN pseudonym(k) ELSE c)]
redact_text(text, k) == EndRun(FoldLeft(LAMBDA acc, c : OneChar(acc, c, k), [out |-> << >>, run |-> 0], text)).out

-----------------------------------------------------------------------------
(* Pages.                                                                  *)

Page(bytes, offset, next) == [bytes |-> bytes, offset |-> offset, next |-> next]
Refused == Page(<< >>, 0, -2)
Whole == -1   \* nextOffset is null

\* clamp(1, configured)
page_size(max) == IF max < 1 THEN 1 ELSE IF max > ConfiguredMax THEN ConfiguredMax ELSE max

\* The end is floored to a character, but a page holds at least one.
Floored(view, offset, max) == CHOOSE e \in Boundaries(view) : e <= offset + max /\ \A f \in Boundaries(view) : f <= offset + max => f <= e
NextBoundary(view, offset) == CHOOSE e \in Boundaries(view) : e > offset /\ \A f \in Boundaries(view) : f > offset => e <= f
PageEnd(view, offset, max) ==
  IF Floored(view, offset, max) = offset /\ offset < Size(view) THEN NextBoundary(view, offset) ELSE Floored(view, offset, max)
slice_text_page(view, offset, max) ==
  IF offset \notin Boundaries(view) THEN Refused
  ELSE LET end == PageEnd(view, offset, max) IN
       Page(SubSeq(Bytes(view), offset + 1, end), offset, IF end < Size(view) THEN end ELSE Whole)

read_body_bytes(text, offset, max) ==
  IF offset > Size(text) THEN Refused
  ELSE LET end == IF offset + max < Size(text) THEN offset + max ELSE Size(text) IN
       Page(SubSeq(Bytes(text), offset + 1, end), offset, IF end < Size(text) THEN end ELSE Whole)

\* The whole body is redacted before the page is cut out of it.
RedactedPage(text, offset, max, k) == slice_text_page(redact_text(text, k), offset, max)

\* read_body_page: too large, not text, past the end, or a page.
read_body_page(text, mode, offset, max, k) ==
  IF mode = "redacted"
  THEN IF Size(text) > ScanLimit THEN Refused
       ELSE IF ~IsUtf8(Bytes(text)) THEN Page(<< >>, offset, Whole)
       ELSE RedactedPage(text, offset, page_size(max), k)
  ELSE LET page == read_body_bytes(text, offset, page_size(max)) IN
       IF mode = "raw" /\ page.bytes = << >> THEN Refused ELSE page

\* A raw page is text only if it holds whole characters.
encoding(mode, page) == IF mode = "raw" /\ IsUtf8(page.bytes) THEN "text" ELSE "base64"

-----------------------------------------------------------------------------
(* The calls of an agent that follows nextOffset.                          *)

NoRead == [pc |-> "idle", mode |-> "none", max |-> 0, next |-> Whole, pages |-> << >>, ref |-> Body("none", << >>),
           since |-> 0, keys |-> {}, failed |-> FALSE]

PagesInit ==
  /\ KeyInit
  /\ body \in {Body(w, t) : w \in {"file", "inline"}, t \in Texts} \cup {Body("corrupt", << >>)}
  /\ edition = 0 /\ allowed \in SUBSET {"readBodies", "readRawBodies"} /\ read = NoRead

Quiet == UNCHANGED <<body, edition, allowed>>
KeyIdle == UNCHANGED keyVars
Fail == read' = [read EXCEPT !.pc = "idle", !.failed = TRUE, !.next = Whole]

\* ensure_capability: raw bytes need a second capability.
Permits(mode) == {"readBodies"} \cup (IF mode \in {"raw", "base64"} THEN {"readRawBodies"} ELSE {})

\* A new reading begins at offset 0.
Ask(mode, max) ==
  /\ read.pc = "idle" /\ read.next = Whole
  /\ read' = IF Permits(mode) \subseteq allowed
             THEN [NoRead EXCEPT !.pc = "key", !.mode = mode, !.max = max, !.next = 0, !.since = edition]
             ELSE [NoRead EXCEPT !.mode = mode, !.failed = TRUE]
  /\ Quiet /\ KeyIdle

\* The next page is a call of its own: permissions are checked again.
AskNext(max) ==
  /\ read.pc = "idle" /\ read.next # Whole
  /\ IF Permits(read.mode) \subseteq allowed THEN read' = [read EXCEPT !.pc = "key", !.max = max] ELSE Fail
  /\ Quiet /\ KeyIdle

\* Redactor::from_config loads the key before anything is looked up.
CallLoadsKey ==
  /\ read.pc = "key" /\ StartLoad(Agent) /\ Settle(Agent)
  /\ read' = [read EXCEPT !.pc = "loading"] /\ Quiet

KeyReady ==
  /\ read.pc = "loading" /\ loads[Agent].pc = "idle"
  /\ IF loads[Agent].key = "none" THEN Fail   \* the side car was killed
     ELSE read' = [read EXCEPT !.pc = "lookup", !.keys = @ \cup {loads[Agent].key}]
  /\ Quiet /\ KeyIdle

\* require_session_id and load_required_body_reference.
Lookup ==
  /\ read.pc = "lookup"
  /\ IF body.where = "none" THEN Fail ELSE read' = [read EXCEPT !.pc = "sizes", !.ref = body]
  /\ Quiet /\ KeyIdle

\* An inline body is in the reference; a file is read where it is now.
Stored == IF read.ref.where = "file" THEN body ELSE read.ref
Readable == Stored.where = read.ref.where /\ Stored.where # "corrupt"

\* body_sizes; metadata needs no more.
Sizes ==
  /\ read.pc = "sizes"
  /\ IF ~Readable \/ Size(Stored.text) = 0 THEN Fail
     ELSE read' = IF read.mode = "metadata" THEN [read EXCEPT !.pc = "idle", !.next = Whole] ELSE [read EXCEPT !.pc = "page"]
  /\ Quiet /\ KeyIdle

\* run_blocking(read_body_page), its offset the nextOffset of the page before.
ReadPage ==
  /\ read.pc = "page"
  /\ LET page == read_body_page(Stored.text, read.mode, read.next, read.max, loads[Agent].key) IN
     IF ~Readable \/ page = Refused THEN Fail
     ELSE read' = [read EXCEPT !.pc = "idle", !.next = page.next,
                               !.pages = Append(@, [page |-> page, as |-> encoding(read.mode, page)])]
  /\ Quiet /\ KeyIdle

\* A page that takes too long fails with a retryable error; the agent asks for it again.
PageTimeOut == read.pc = "page" /\ read' = [read EXCEPT !.pc = "idle"] /\ Quiet /\ KeyIdle

\* The desktop: write_body renames a new file into place, remove_bodies takes it away.
Rewrite(text) ==
  /\ edition < MaxRewrites /\ edition' = edition + 1
  /\ body' = Body(IF body.where = "inline" THEN "inline" ELSE "file", text)
  /\ UNCHANGED <<allowed, read>> /\ KeyIdle

RemoveBody ==
  /\ edition < MaxRewrites /\ edition' = edition + 1
  /\ body' = Body("none", << >>) /\ UNCHANGED <<allowed, read>> /\ KeyIdle

\* The user withdraws raw access.
Withdraw ==
  /\ "readRawBodies" \in allowed /\ allowed' = allowed \ {"readRawBodies"}
  /\ UNCHANGED <<body, edition, read>> /\ KeyIdle

\* Calls of other side cars load the key beside this one.
OtherLoad(l) == l # Agent /\ StartLoad(l) /\ Settle(l) /\ UNCHANGED pageVars

PagesNext ==
  \/ \E mode \in Modes, max \in PageSizes : Ask(mode, max)
  \/ \E max \in PageSizes : AskNext(max)
  \/ CallLoadsKey \/ KeyReady \/ Lookup \/ Sizes \/ ReadPage \/ PageTimeOut
  \/ (\E text \in Texts : Rewrite(text)) \/ RemoveBody \/ Withdraw
  \/ \E l \in Loaders : OtherLoad(l) \/ (KeyStep(l) /\ UNCHANGED pageVars)

-----------------------------------------------------------------------------
Read == FlattenSeq([i \in DOMAIN read.pages |-> read.pages[i].page.bytes])
Finished == read.pc = "idle" /\ read.next = Whole /\ read.pages # << >> /\ ~read.failed
\* The body and the key were the same for every page.
Undisturbed == read.since = edition /\ Cardinality(read.keys) = 1

\* Pages fit together.  Followed to the end over a body nobody rewrote, they are the body's
\* bytes, or the redaction of the whole of it: nothing is lost or repeated where a page ends,
\* inside a character or inside a secret.  Whatever was rewritten in between, a redacted page
\* holds no recognisable secret, and a page that announces another one is not empty.
PagesJoin ==
  /\ Finished /\ Undisturbed /\ IsUtf8(Bytes(body.text)) =>
       Read = Bytes(IF read.mode = "redacted" THEN redact_text(body.text, CHOOSE k \in read.keys : TRUE) ELSE body.text)
  /\ \A i \in DOMAIN read.pages : LET p == read.pages[i].page IN
       /\ p.next # Whole => p.bytes # << >>
       /\ read.mode = "redacted" => ~\E j \in 1..Len(p.bytes) - 1 : p.bytes[j][1] = "s" /\ p.bytes[j + 1][1] = "s"
=============================================================================
