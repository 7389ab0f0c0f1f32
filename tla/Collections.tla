---------------------------- MODULE Collections ----------------------------
(***************************************************************************)
(* The request workbench: a tree of collections with items in them, the    *)
(* variables of an environment, and the command that sends the chosen      *)
(* items one after the other (commands/collections.rs, environments.rs,    *)
(* crates/db/src/collections.rs, environments.rs).  parent_id has no       *)
(* foreign key: that the collections form a tree is kept by checks inside  *)
(* each transaction.  A batch loads its items and variables in one turn of *)
(* the connection and then works on that copy while edits go on.           *)
(*                                                                         *)
(* Collections and items are numbers, which also order them by name.  An   *)
(* item's body is the class that decides how it is edited and sent.        *)
(***************************************************************************)
EXTENDS Naturals, Sequences, FiniteSets

CONSTANTS MaxCollection,   \* collections are 1..MaxCollection
          MaxItem,         \* items are 1..MaxItem
          MaxEdits         \* bound on edits to the tree; one fewer to the requests

ASSUME CollectionsAssumption == MaxCollection \in Nat \ {0} /\ {MaxItem, MaxEdits} \subseteq Nat

VARIABLES folders,   \* collection |-> [parent, pos]
          items,     \* item |-> [col, pos, type, body, headers]
          environment, \* [exists, table]: the environment the batches use and its variables
          globals,   \* the global variables, a table of the same form
          workEdits,     \* edits so far
          lastEdit,  \* ghost: what the last edit did
          sendRun,     \* the batch command
          recorded,  \* items whose exchange was stored, in order
          focus      \* bound: a behaviour moves folders and items about, or edits and sends requests

collectionVars == <<focus, folders, items, environment, globals, workEdits, lastEdit, sendRun, recorded>>

Folders == 1..MaxCollection
ItemIds == 1..MaxItem
Top == 0                               \* parent_id NULL
Gone == MaxCollection + 1
NoFolder == [parent |-> Gone, pos |-> 0]
NoItem == [col |-> Gone, pos |-> 0, type |-> "none", body |-> "empty", headers |-> "plain"]
LiveFolders(f) == {c \in Folders : f[c].parent # Gone}
LiveItems == {i \in ItemIds : items[i].col # Gone}

---------------------------------------------------------------------------
(* The tree. *)

collection_exists(c) == c \in LiveFolders(folders)
ensure_collection_exists(c) == collection_exists(c)

\* A folder and every folder above it: what every set holds that has the folder and the
\* parent of each of its members.
ClosedUp(f, S) == \A d \in S : f[d].parent \in Folders => f[d].parent \in S
Above(f, c) == {d \in Folders : \A S \in SUBSET Folders : c \in S /\ ClosedUp(f, S) => d \in S}

\* Only the folder itself is refused as its new parent.
M_SelfOnly(c, parent) == parent = c

would_create_cycle(c, parent) == parent \in Folders /\ c \in Above(folders, parent)

\* ORDER BY sort_order, name.  A list is the set of its ids; Rank is the place of one of them.
Before(f, a, b) == f[a].pos < f[b].pos \/ (f[a].pos = f[b].pos /\ a < b)
Rank(f, S, x) == Cardinality({y \in S : Before(f, y, x)})
list_collection_ids_by_parent(f, p) == {c \in LiveFolders(f) : f[c].parent = p}
list_collection_item_ids_by_collection(t, c) == {i \in ItemIds : t[i].col = c}

\* Positions 0, 1, ... along a list; everything else keeps its own.
WithPos(f, x, pos) == [f[x] EXCEPT !.pos = pos]
Renumbered(f, S) == [x \in DOMAIN f |-> IF x \in S THEN WithPos(f, x, Rank(f, S, x)) ELSE f[x]]

\* The same with one of them put at a place, or last, and those behind it one place on.
Place(S, at) == IF at < Cardinality(S) THEN at ELSE Cardinality(S)
Shifted(r, k) == IF r < k THEN r ELSE r + 1
PlacedAt(f, S, x, at) ==
  LET others == S \ {x}
      k == Place(others, at)
  IN [y \in DOMAIN f |-> IF y = x THEN WithPos(f, x, k)
                         ELSE IF y \in others THEN WithPos(f, y, Shifted(Rank(f, others, y), k)) ELSE f[y]]

Edit(kind, id, from, to, at) ==
  /\ workEdits < (IF focus = "tree" THEN MaxEdits ELSE MaxEdits - 1) /\ workEdits' = workEdits + 1
  /\ lastEdit' = [kind |-> kind, id |-> id, from |-> from, to |-> to, at |-> at]
  /\ UNCHANGED <<sendRun, recorded>>

\* Existing or new: one transaction checks the parent and the cycle, then writes
\* in place; the position is the caller's, ties with siblings included.
upsert_collection(c, parent, pos) ==
  /\ parent \in Folders => ensure_collection_exists(parent)
  /\ ~would_create_cycle(c, parent)
  /\ folders' = [folders EXCEPT ![c] = [parent |-> parent, pos |-> pos]]
upsert_api_collection(c, parent, pos) ==
  upsert_collection(c, parent, pos) /\ Edit("upsert", c, folders[c].parent, parent, pos) /\ UNCHANGED <<items, environment, globals>>

move_collection(c, parent, at) ==
  LET old == folders[c].parent
      moved == [folders EXCEPT ![c].parent = parent]
      here == PlacedAt(moved, list_collection_ids_by_parent(moved, parent), c, at)
  IN
  /\ parent \in Folders => ensure_collection_exists(parent)
  /\ ~would_create_cycle(c, parent)
  /\ collection_exists(c)
  /\ folders' = IF old = parent THEN here ELSE Renumbered(here, list_collection_ids_by_parent(here, old))
move_api_collection(c, parent, at) ==
  move_collection(c, parent, at) /\ Edit("move", c, folders[c].parent, parent, at) /\ UNCHANGED <<items, environment, globals>>

\* The folder, everything below it and the items of all of them.
delete_collection_tree(c) == {d \in LiveFolders(folders) : c \in Above(folders, d)}

delete_collection(c) ==
  LET tree == delete_collection_tree(c) IN
  /\ collection_exists(c)
  /\ folders' = [d \in Folders |-> IF d \in tree THEN NoFolder ELSE folders[d]]
  /\ items' = [i \in ItemIds |-> IF items[i].col \in tree THEN NoItem ELSE items[i]]
delete_api_collection(c) ==
  delete_collection(c) /\ Edit("delete", c, Gone, Gone, 0) /\ UNCHANGED <<environment, globals>>

---------------------------------------------------------------------------
(* ItemIds. *)

\* The collection is a foreign key: a missing one refuses the write.
upsert_collection_item(i, item) ==
  /\ collection_exists(item.col)
  /\ items' = [items EXCEPT ![i] = item]
upsert_api_collection_item(i, item) ==
  upsert_collection_item(i, item) /\ Edit("item", i, items[i].col, item.col, 0) /\ UNCHANGED <<folders, environment, globals>>

\* A captured form is split at its pairs; text that is none of them is one name.
parse_urlencoded_entries(body) == body # "empty"

\* How a captured body is edited: by its content type, else as text.
SavedType(content, body) ==
  CASE content = "json" -> "raw"
    [] content = "form" /\ parse_urlencoded_entries(body) -> "urlencoded"
    [] OTHER -> IF body = "empty" THEN "none" ELSE "raw"

save_session_to_collection(i, c, content, body) ==
  /\ items[i] = NoItem
  /\ upsert_api_collection_item(i, [col |-> c, pos |-> 0, type |-> SavedType(content, body), body |-> body,
                                    headers |-> "plain"])

delete_collection_item(i) ==
  /\ items[i] # NoItem
  /\ items' = [items EXCEPT ![i] = NoItem]
delete_api_collection_item(i) ==
  delete_collection_item(i) /\ Edit("drop", i, items[i].col, Gone, 0) /\ UNCHANGED <<folders, environment, globals>>

move_collection_item(i, c, at) ==
  LET old == items[i].col
      moved == [items EXCEPT ![i].col = c]
      here == PlacedAt(moved, list_collection_item_ids_by_collection(moved, c), i, at)
  IN
  /\ items[i] # NoItem /\ ensure_collection_exists(c)
  /\ items' = IF old = c THEN here ELSE Renumbered(here, list_collection_item_ids_by_collection(here, old))
move_api_collection_item(i, c, at) ==
  move_collection_item(i, c, at) /\ Edit("shift", i, items[i].col, c, at) /\ UNCHANGED <<folders, environment, globals>>

---------------------------------------------------------------------------
(* Variables.  A table gives each key its value, "none" when it has no row  *)
(* and "off" when its row is disabled.                                      *)

VarKeys == {"a", "b"}
NoTable == [k \in VarKeys |-> "none"]

\* Saving again updates the row in place, so its variables stay.
upsert_environment == environment' = [environment EXCEPT !.exists = TRUE]

\* The variables go with their environment (ON DELETE CASCADE).
delete_environment == environment' = [exists |-> FALSE, table |-> NoTable]

\* A conflict on the key updates the value of the one row: the last entry of a key stays.
upsert_environment_variable(list, key) ==
  LET at == {n \in DOMAIN list : list[n].key = key}
  IN IF at = {} THEN "none" ELSE list[CHOOSE n \in at : \A m \in at : m <= n].value
upsert_global_variable(list, key) == upsert_environment_variable(list, key)

Entry(key, value) == [key |-> key, value |-> value]
Lists == {<< >>, <<Entry("a", "text")>>, <<Entry("a", "off"), Entry("a", "quote")>>,
          <<Entry("a", "ref"), Entry("b", "text")>>}

\* The stored list is cleared and the entries are written in order, one
\* transaction; a variable needs its environment (foreign key).
set_environment_variables(list) ==
  /\ list # << >> => environment.exists
  /\ environment' = [environment EXCEPT !.table = [k \in VarKeys |-> upsert_environment_variable(list, k)]]
set_global_variables(list) == globals' = [k \in VarKeys |-> upsert_global_variable(list, k)]

VariableEdit(kind) == Edit(kind, 0, Gone, Gone, 0) /\ UNCHANGED <<folders, items>>
upsert_api_environment == upsert_environment /\ UNCHANGED globals /\ VariableEdit("environment")
delete_api_environment == delete_environment /\ UNCHANGED globals /\ VariableEdit("cleared")
set_api_environment_variables(list) == set_environment_variables(list) /\ UNCHANGED globals /\ VariableEdit("variables")
set_api_global_variables(list) == set_global_variables(list) /\ UNCHANGED environment /\ VariableEdit("globals")

\* What a batch reads: the enabled rows of the environment, never the globals.
list_environment_variables == [k \in VarKeys |-> IF environment.table[k] = "off" THEN "none" ELSE environment.table[k]]

---------------------------------------------------------------------------
(* Sending a batch. *)

\* {{a}} or {{b}} in the text is replaced by the key's value, key after key in
\* the order of a hash map: "ref" is a value that names b, "quote" one that is
\* not JSON text.
substitute_vars(text, values, order) ==
  LET Put(t, k) == IF t # k \/ values[k] = "none" THEN t
                   ELSE CASE values[k] = "ref" -> "b" [] values[k] = "quote" -> "broken" [] OTHER -> "filled"
  IN Put(Put(text, order[1]), order[2])

\* Headers that do not parse are sent as none.
parse_collection_header_entries(headers) == IF headers = "broken" THEN "dropped" ELSE headers

\* Blank form names are skipped; a form of none is no body.
build_urlencoded_body(body) == body \in {"pairs", "text"}

\* A content type is added only to a body that is sent.
ensure_content_type_header(type, sends) == IF sends /\ type \in {"urlencoded", "formdata"} THEN type ELSE "own"

\* The variables in a body do not change its class.
build_collection_item_request(item, values, order) ==
  LET sends == CASE item.type = "urlencoded" -> build_urlencoded_body(item.body)
                 [] item.type = "raw" -> item.body \notin {"empty", "blank"}
                 [] item.type = "formdata" -> item.body \in {"pairs", "file"}
                 [] OTHER -> FALSE
  IN [body |-> sends, type |-> ensure_content_type_header(item.type, sends),
      headers |-> parse_collection_header_entries(substitute_vars(item.headers, values, order))]

Chosen == {<<i>> : i \in ItemIds} \cup {<<1, j>> : j \in ItemIds}

\* The nth number of a set.
Nth(S, n) == CHOOSE k \in S : Cardinality({j \in S : j < k}) + 1 = n

\* Ids that are gone are skipped.
BatchLoad(ids, order) ==
  LET there == {k \in DOMAIN ids : items[ids[k]] # NoItem} IN
  /\ sendRun.state = "idle"
  /\ sendRun' = [state |-> "running", next |-> 1, values |-> list_environment_variables, order |-> order, sent |-> << >>,
               list |-> [n \in 1..Cardinality(there) |->
                           LET i == ids[Nth(there, n)] IN [id |-> i, item |-> items[i]]]]
  /\ UNCHANGED <<folders, items, environment, globals, workEdits, lastEdit, recorded>>

\* One item is built and sent; an unreadable attachment or a failed send
\* ends the batch with an error, and what was sent before stays recorded.
BatchSend(ok) ==
  LET this == sendRun.list[sendRun.next]
      built == build_collection_item_request(this.item, sendRun.values, sendRun.order)
  IN
  /\ sendRun.state = "running" /\ sendRun.next <= Len(sendRun.list)
  /\ sendRun' = IF ok THEN [sendRun EXCEPT !.next = @ + 1, !.sent = Append(@, built)]
              ELSE [sendRun EXCEPT !.state = "failed"]
  /\ recorded' = IF ok THEN Append(recorded, this.id) ELSE recorded
  /\ UNCHANGED <<folders, items, environment, globals, workEdits, lastEdit>>

BatchDone ==
  /\ sendRun.state = "running" /\ sendRun.next > Len(sendRun.list)
  /\ sendRun' = [sendRun EXCEPT !.state = "done"]
  /\ UNCHANGED <<folders, items, environment, globals, workEdits, lastEdit, recorded>>

---------------------------------------------------------------------------
CollectionsInit ==
  /\ focus \in {"tree", "requests"}
  /\ folders = [c \in Folders |-> IF c = 1 THEN [parent |-> Top, pos |-> 0] ELSE NoFolder]
  /\ items = [i \in ItemIds |-> IF i = 1 THEN [col |-> 1, pos |-> 0, type |-> "raw", body |-> "text",
                                            headers |-> "a"] ELSE NoItem]
  /\ environment = [exists |-> TRUE, table |-> NoTable] /\ globals = NoTable
  /\ workEdits = 0 /\ recorded = << >>
  /\ lastEdit = [kind |-> "none", id |-> 0, from |-> Gone, to |-> Gone, at |-> 0]
  /\ sendRun = [state |-> "idle", next |-> 1, values |-> NoTable, order |-> <<"a", "b">>, sent |-> << >>, list |-> << >>]

TreeStep ==
  \/ \E c \in Folders, p \in Folders \cup {Top} :
       upsert_api_collection(c, p, 0) \/ \E at \in 0..2 : move_api_collection(c, p, at)
  \/ \E i \in ItemIds, c \in Folders :
       \/ upsert_api_collection_item(i, [items[i] EXCEPT !.col = c, !.pos = 0])
       \/ \E at \in 0..1 : move_api_collection_item(i, c, at)

RequestStep ==
  \/ \E i \in ItemIds, c \in Folders :
       \/ \E body \in {"empty", "file"} :
            upsert_api_collection_item(i, [items[i] EXCEPT !.col = c, !.type = "formdata", !.body = body])
       \/ \E content \in {"json", "form", "other"}, body \in {"empty", "blank", "pairs", "text"} :
            save_session_to_collection(i, c, content, body)
  \/ \E list \in Lists : set_api_environment_variables(list) \/ set_api_global_variables(list)
  \/ upsert_api_environment \/ delete_api_environment
  \/ \E ids \in Chosen, order \in {<<"a", "b">>, <<"b", "a">>} : BatchLoad(ids, order)
  \/ \E ok \in BOOLEAN : BatchSend(ok)
  \/ BatchDone

NextCollections ==
  /\ \/ focus = "tree" /\ TreeStep
     \/ focus = "requests" /\ RequestStep
     \/ \E c \in Folders : delete_api_collection(c)
     \/ \E i \in ItemIds : delete_api_collection_item(i)
  /\ UNCHANGED focus

\* The positions of a list are 0, 1, ..., each once.
Dense(f, S) ==
  /\ {f[x].pos + 1 : x \in S} = 1..Cardinality(S)
  /\ \A x, y \in S : f[x].pos = f[y].pos => x = y

\* CollectionsStayATree: whatever edits interleave with a batch, every folder
\* leads up to the top and every item lies in a folder that exists; a move puts
\* its subject at the asked place and numbers both lists without a gap; and a
\* batch sends a prefix of what it loaded, in order, with the variables of that
\* moment, records exactly what it sent and sends a body just when it has one.
CollectionsStayATree ==
  /\ \A c \in LiveFolders(folders) : \E d \in Above(folders, c) : folders[d].parent = Top
  /\ \A i \in LiveItems : collection_exists(items[i].col)
  /\ lastEdit.kind = "move" =>
       LET list == list_collection_ids_by_parent(folders, lastEdit.to) IN
       /\ Dense(folders, list) /\ Dense(folders, list_collection_ids_by_parent(folders, lastEdit.from))
       /\ folders[lastEdit.id].pos = IF lastEdit.at < Cardinality(list) THEN lastEdit.at ELSE Cardinality(list) - 1
  /\ lastEdit.kind = "shift" =>
       LET list == list_collection_item_ids_by_collection(items, lastEdit.to) IN
       /\ Dense(items, list) /\ Dense(items, list_collection_item_ids_by_collection(items, lastEdit.from))
       /\ items[lastEdit.id].pos = IF lastEdit.at < Cardinality(list) THEN lastEdit.at ELSE Cardinality(list) - 1
  /\ recorded = [k \in 1..Len(sendRun.sent) |-> sendRun.list[k].id]
  /\ sendRun.state = "done" => Len(recorded) = Len(sendRun.list)
  /\ \A k \in DOMAIN sendRun.sent :
       /\ sendRun.sent[k].headers = "dropped" => sendRun.values["a"] = "quote"
       /\ sendRun.values["a"] = "none" => sendRun.sent[k].headers = sendRun.list[k].item.headers
       /\ sendRun.sent[k].type # "own" => sendRun.sent[k].body
       /\ sendRun.sent[k].body <=> sendRun.list[k].item.body \notin {"empty", "blank"}

CollectionsSpec == CollectionsInit /\ [][NextCollections]_collectionVars
=============================================================================
