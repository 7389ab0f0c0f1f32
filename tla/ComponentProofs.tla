-------------------------- MODULE ComponentProofs --------------------------
(***************************************************************************)
(* Proofs about the components that share no state with the others:        *)
(* workspace settings (Workspaces), the redaction key (RedactionKey), the  *)
(* script engine's gate (ScriptEngine), the schema's migrations            *)
(* (Migrations) and the root certificate (Certificates).  Each has its own *)
(* inductive invariant.                                                    *)
(***************************************************************************)
EXTENDS Workspaces, RedactionKey, ScriptEngine, Migrations, Certificates, FiniteSetTheorems, WellFoundedInduction, TLAPS

-----------------------------------------------------------------------------
(* Workspaces.                                                             *)

WorkspaceData == [name : {"first", "renamed", "moved"}, ssl : {"on", "off"}, routed : {"on", "off"},
                  chain : {"never", "set", "off"}]
WorkspaceRow == [name : {"first", "renamed", "moved"}, ssl : {"on", "off"}, routed : {"on", "off"},
                 chain : {"", "malformed", "set", "off"}]
WorkspacePatch == [name : {"keep", "renamed", "moved"}, ssl : {"keep", "on", "off"}, chain : {"keep", "set", "off"}]
Command == [kind : {"none", "create", "update", "demote"}, id : WorkspaceIds,
            before : WorkspaceData \cup {Unlisted}, patch : WorkspacePatch]

WorkspacesTyped ==
  /\ listed \in [WorkspaceIds -> WorkspaceData \cup {Unlisted}]
  /\ stored \in [WorkspaceIds -> WorkspaceRow \cup {Unlisted}]
  /\ promised = stored
  /\ editing \in [Editing -> Command]
  /\ started \in BOOLEAN

\* What a command in flight holds: a create is of "added" and alone, with its row still to
\* come; an update and a demotion have a snapshot.
CommandInv ==
  \A o \in Editing :
    /\ editing[o].kind = "create" =>
         /\ editing[o].id = "added" /\ editing[o].patch = NoPatch
         /\ listed["added"] # Unlisted /\ stored["added"] = Unlisted
         /\ \A p \in Editing : editing[p].kind = "create" => p = o
    /\ editing[o].kind \in {"update", "demote"} => editing[o].before \in WorkspaceData
    /\ editing[o].kind = "demote" => editing[o].id = "default" /\ editing[o].patch = [NoPatch EXCEPT !.ssl = "off"]
    /\ editing[o].kind = "none" => editing[o] = NotEditing

\* The settings a workspace has when the rows are read again.
Saved(w) == IF stored[w] = Unlisted THEN FreshWorkspace ELSE workspace_row_to_data(stored[w])
InFlight(o, w) == editing[o].kind # "none" /\ editing[o].id = w
Writes(o, w, f) == InFlight(o, w) /\ editing[o].patch[f] # "keep"
Creating(w) == \E o \in Editing : editing[o].kind = "create" /\ editing[o].id = w

\* A field that is not apart: memory has the saved value, or the one command in flight that
\* writes it has put its own there and holds the saved one in its snapshot.
Matched(w, f) ==
  /\ stored[w] # Unlisted => listed[w] # Unlisted
  /\ stored[w] = Unlisted /\ listed[w] # Unlisted => Creating(w)
  /\ \A o \in Editing : InFlight(o, w) => listed[w] # Unlisted
  /\ listed[w] # Unlisted /\ (\A o \in Editing : ~Writes(o, w, f)) => listed[w][f] = Saved(w)[f]
  /\ \A o \in Editing : Writes(o, w, f) =>
       /\ listed[w][f] = editing[o].patch[f] /\ editing[o].before[f] = Saved(w)[f]
       /\ \A p \in Editing : Writes(p, w, f) => p = o

\* The inductive invariant.
WorkspacesInv ==
  /\ WorkspacesTyped
  /\ CommandInv
  /\ ~started => \A o \in Editing : editing[o] = NotEditing
  /\ started => \A w \in WorkspaceIds, f \in Fields : <<w, f>> \in apart \/ Matched(w, f)

\* A patch replaces the fields it has and keeps the others, in memory and in a row alike.
LEMMA PatchedField ==
  ASSUME NEW p \in WorkspacePatch
  PROVE  /\ \A d \in WorkspaceData :
              /\ Patched(d, p) \in WorkspaceData
              /\ \A f \in Fields : Patched(d, p)[f] = IF p[f] = "keep" THEN d[f] ELSE p[f]
         /\ \A r \in WorkspaceRow :
              /\ Patched(r, p) \in WorkspaceRow
              /\ \A f \in Fields : workspace_row_to_data(Patched(r, p))[f]
                                     = IF p[f] = "keep" THEN workspace_row_to_data(r)[f] ELSE p[f]
<1>1. ASSUME NEW d \in WorkspaceData
      PROVE  Patched(d, p) \in WorkspaceData /\ \A f \in Fields : Patched(d, p)[f] = IF p[f] = "keep" THEN d[f] ELSE p[f]
  BY DEF WorkspacePatch, WorkspaceData, Patched, Fields
<1>2. ASSUME NEW r \in WorkspaceRow PROVE Patched(r, p) \in WorkspaceRow  BY DEF WorkspacePatch, WorkspaceRow, Patched
<1>3. ASSUME NEW r \in WorkspaceRow, NEW f \in Fields
      PROVE  workspace_row_to_data(Patched(r, p))[f] = IF p[f] = "keep" THEN workspace_row_to_data(r)[f] ELSE p[f]
  <2>1. CASE f = "name"  BY <2>1 DEF WorkspacePatch, WorkspaceRow, Patched, workspace_row_to_data
  <2>2. CASE f = "ssl"  BY <2>2 DEF WorkspacePatch, WorkspaceRow, Patched, workspace_row_to_data
  <2>3. CASE f = "chain"  BY <2>3 DEF WorkspacePatch, WorkspaceRow, Patched, workspace_row_to_data
  <2> QED BY <2>1, <2>2, <2>3 DEF Fields
<1> QED BY <1>1, <1>2, <1>3

\* A workspace that exists is never the absent one.
LEMMA UnlistedApart == Unlisted \notin WorkspaceData /\ Unlisted \notin WorkspaceRow
BY DEF Unlisted, WorkspaceData, WorkspaceRow

\* What a fresh workspace is as a row, and what a row is as data.
LEMMA RowData ==
  /\ FreshWorkspace \in WorkspaceData /\ AsRow(FreshWorkspace) \in WorkspaceRow
  /\ workspace_row_to_data(AsRow(FreshWorkspace)) = FreshWorkspace
  /\ \A r \in WorkspaceRow : workspace_row_to_data(r) \in WorkspaceData
BY DEF FreshWorkspace, AsRow, WorkspaceData, WorkspaceRow, workspace_row_to_data

\* The patches of the commands are typed, and none but the empty one leaves a field alone.
LEMMA PatchesTyped ==
  /\ NoPatch \in WorkspacePatch /\ Patches \subseteq WorkspacePatch
  /\ [NoPatch EXCEPT !.ssl = "off"] \in WorkspacePatch
  /\ \A f \in Fields : NoPatch[f] = "keep"
  /\ NotEditing \in Command
<1>1. NoPatch \in WorkspacePatch /\ \A f \in Fields : NoPatch[f] = "keep"  BY DEF NoPatch, WorkspacePatch, Fields
<1>2. [NoPatch EXCEPT !.ssl = "off"] \in WorkspacePatch  BY DEF NoPatch, WorkspacePatch
<1>3. Patches \subseteq WorkspacePatch
  <2>1. /\ [NoPatch EXCEPT !.name = "renamed"] \in WorkspacePatch
        /\ [NoPatch EXCEPT !.name = "moved", !.chain = "set"] \in WorkspacePatch
        /\ [NoPatch EXCEPT !.chain = "off"] \in WorkspacePatch
        /\ [NoPatch EXCEPT !.ssl = "on"] \in WorkspacePatch
    BY DEF NoPatch, WorkspacePatch
  <2> QED BY <2>1, Zenon DEF Patches
<1>4. NotEditing \in Command  BY <1>1 DEF NotEditing, Command, WorkspaceIds
<1> QED BY <1>1, <1>2, <1>3, <1>4

\* The first list is typed.
LEMMA WorkspacesStart == WorkspacesInit => WorkspacesInv
<1> SUFFICES ASSUME WorkspacesInit PROVE WorkspacesInv OBVIOUS
<1>1. WorkspacesTyped  BY RowData, PatchesTyped DEF WorkspacesInit, WorkspacesTyped, NewManager, WorkspaceIds
<1>2. CommandInv  BY DEF WorkspacesInit, CommandInv, NotEditing
<1> QED BY <1>1, <1>2 DEF WorkspacesInit, WorkspacesInv

\* A command that ends or never was leaves the other commands in flight as they are.
LEMMA OthersStay ==
  ASSUME NEW o \in Editing, editing \in [Editing -> Command], editing' = [editing EXCEPT ![o] = NotEditing]
  PROVE  /\ editing' \in [Editing -> Command] /\ editing'[o] = NotEditing
         /\ \A p \in Editing : p # o => editing'[p] = editing[p]
         /\ \A w, f : ~InFlight(o, w)' /\ ~Writes(o, w, f)'
         /\ \A p \in Editing : p # o => \A w, f : (InFlight(p, w)' <=> InFlight(p, w)) /\ (Writes(p, w, f)' <=> Writes(p, w, f))
BY PatchesTyped DEF NotEditing, InFlight, Writes

\* A command that starts is in flight, the others stay.
LEMMA BeginStays ==
  ASSUME NEW o \in Editing, NEW kind \in {"create", "update", "demote"}, NEW w \in WorkspaceIds,
         NEW patch \in WorkspacePatch, WorkspacesInv, BeginEdit(o, kind, w, patch)
  PROVE  /\ editing' \in [Editing -> Command] /\ started /\ started' /\ stored' = stored /\ promised' = promised
         /\ editing[o] = NotEditing
         /\ editing'[o] = [kind |-> kind, id |-> w, before |-> listed[w], patch |-> patch]
         /\ \A p \in Editing : p # o => editing'[p] = editing[p]
         /\ \A v, f : ~InFlight(o, v) /\ (InFlight(o, v)' <=> v = w) /\ (Writes(o, v, f)' <=> v = w /\ patch[f] # "keep")
         /\ \A p \in Editing : p # o => \A v, f : (InFlight(p, v)' <=> InFlight(p, v)) /\ (Writes(p, v, f)' <=> Writes(p, v, f))
         /\ apart \subseteq apart'
         /\ \A f \in Fields, p \in Editing : p # o /\ Writes(p, w, f) /\ patch[f] # "keep" => <<w, f>> \in apart'
<1>1. editing \in [Editing -> Command] /\ listed[w] \in WorkspaceData \cup {Unlisted}  BY DEF WorkspacesInv, WorkspacesTyped
<1> DEFINE c == [kind |-> kind, id |-> w, before |-> listed[w], patch |-> patch]
<1>2. c \in Command  BY <1>1 DEF Command
<1>3. editing' = [editing EXCEPT ![o] = c] /\ editing[o] = NotEditing /\ started /\ started' = started
      /\ stored' = stored /\ promised' = promised /\ apart' = apart \cup Shared(o, w, patch)
  BY DEF BeginEdit, load
<1>4. editing'[o] = c /\ \A p \in Editing : p # o => editing'[p] = editing[p]  BY <1>1, <1>3
<1>5. \A v, f : ~InFlight(o, v) /\ (InFlight(o, v)' <=> v = w) /\ (Writes(o, v, f)' <=> v = w /\ patch[f] # "keep")
  BY <1>3, <1>4 DEF InFlight, Writes, NotEditing
<1>6. \A p \in Editing : p # o => \A v, f : (InFlight(p, v)' <=> InFlight(p, v)) /\ (Writes(p, v, f)' <=> Writes(p, v, f))
  BY <1>4 DEF InFlight, Writes
<1>7. ASSUME NEW f \in Fields, NEW p \in Editing, p # o, Writes(p, w, f), patch[f] # "keep" PROVE <<w, f>> \in apart'
  <2>1. p \in Others(o, w) /\ f \in EditedFields(editing[p].patch) /\ f \in EditedFields(patch)
    BY <1>7 DEF Others, EditedFields, Writes, InFlight
  <2> QED BY <2>1, <1>3 DEF Shared
<1>8. editing' \in [Editing -> Command]  BY <1>1, <1>2, <1>3
<1> QED BY <1>3, <1>4, <1>5, <1>6, <1>7, <1>8

\* create_workspace: the list has it first.
LEMMA CreateKeeps ==
  ASSUME NEW o \in Editing, WorkspacesInv, create_workspace(o)
  PROVE  WorkspacesInv'
<1> USE PatchesTyped, UnlistedApart, RowData
<1> "added" \in WorkspaceIds BY DEF WorkspaceIds
<1>1. BeginEdit(o, "create", "added", NoPatch) /\ listed["added"] = Unlisted /\ stored["added"] = Unlisted
      /\ listed' = [listed EXCEPT !["added"] = FreshWorkspace]
  BY DEF create_workspace, create
<1>2. /\ editing' \in [Editing -> Command] /\ started /\ started' /\ stored' = stored /\ promised' = promised
      /\ editing[o] = NotEditing
      /\ editing'[o] = [kind |-> "create", id |-> "added", before |-> listed["added"], patch |-> NoPatch]
      /\ \A p \in Editing : p # o => editing'[p] = editing[p]
      /\ \A v, f : ~InFlight(o, v) /\ (InFlight(o, v)' <=> v = "added") /\ (Writes(o, v, f)' <=> v = "added" /\ NoPatch[f] # "keep")
      /\ \A p \in Editing : p # o => \A v, f : (InFlight(p, v)' <=> InFlight(p, v)) /\ (Writes(p, v, f)' <=> Writes(p, v, f))
      /\ apart \subseteq apart'
  <2>1. "create" \in {"create", "update", "demote"} /\ NoPatch \in WorkspacePatch  OBVIOUS
  <2> QED BY <2>1, <1>1, BeginStays, ZenonT(30)
<1>3. /\ listed' \in [WorkspaceIds -> WorkspaceData \cup {Unlisted}] /\ listed'["added"] = FreshWorkspace
      /\ \A v \in WorkspaceIds : v # "added" => listed'[v] = listed[v]
  BY <1>1 DEF WorkspacesInv, WorkspacesTyped
<1>4. WorkspacesTyped'  BY <1>2, <1>3 DEF WorkspacesInv, WorkspacesTyped
<1>5. \A p \in Editing : editing[p].kind # "create"  BY <1>1 DEF WorkspacesInv, CommandInv
<1>6. CommandInv'  BY <1>2, <1>3, <1>5, <1>1 DEF WorkspacesInv, CommandInv
<1>7. ASSUME NEW v \in WorkspaceIds, NEW f \in Fields, <<v, f>> \notin apart' PROVE Matched(v, f)'
  <2>1. Matched(v, f)  BY <1>7, <1>2 DEF WorkspacesInv
  <2>2. CASE v = "added"
    <3>1. \A p \in Editing : ~InFlight(p, v) /\ ~Writes(p, v, f)  BY <2>1, <2>2, <1>1 DEF Matched, Writes
    <3>2. \A p \in Editing : ~Writes(p, v, f)'  BY <3>1, <1>2, <2>2
    <3>3. Creating(v)'  BY <1>2, <2>2 DEF Creating
    <3>4. Saved(v)' = FreshWorkspace /\ listed'[v] = FreshWorkspace  BY <1>1, <1>2, <1>3, <2>2 DEF Saved
    <3> QED BY <3>2, <3>3, <3>4, <1>1, <1>2, <2>2 DEF Matched
  <2>3. CASE v # "added"
    <3>1. listed'[v] = listed[v] /\ stored'[v] = stored[v] /\ Saved(v)' = Saved(v)  BY <2>3, <1>2, <1>3 DEF Saved
    <3>2. \A p \in Editing : (InFlight(p, v)' <=> InFlight(p, v)) /\ (Writes(p, v, f)' <=> Writes(p, v, f))
      BY <2>3, <1>2 DEF Writes
    <3>3. \A p \in Editing : Writes(p, v, f) => editing'[p] = editing[p]  BY <1>2 DEF Writes
    <3>4. ~Creating(v)  BY <1>5 DEF Creating
    <3> QED BY <2>1, <3>1, <3>2, <3>3, <3>4 DEF Matched
  <2> QED BY <2>2, <2>3
<1> QED BY <1>2, <1>4, <1>6, <1>7 DEF WorkspacesInv

\* update_workspace_impl and the demotion in memory: one command writes its fields.
LEMMA UpdateKeeps ==
  ASSUME NEW o \in Editing, NEW kind \in {"update", "demote"}, NEW w \in WorkspaceIds, NEW patch \in WorkspacePatch,
         kind = "demote" => w = "default" /\ patch = [NoPatch EXCEPT !.ssl = "off"],
         WorkspacesInv, BeginEdit(o, kind, w, patch), update(w, patch)
  PROVE  WorkspacesInv'
<1> USE PatchesTyped, UnlistedApart, RowData
<1>1. listed[w] # Unlisted /\ listed' = [listed EXCEPT ![w] = Patched(listed[w], patch)]  BY DEF update
<1>2. /\ editing' \in [Editing -> Command] /\ started /\ started' /\ stored' = stored /\ promised' = promised
      /\ editing[o] = NotEditing
      /\ editing'[o] = [kind |-> kind, id |-> w, before |-> listed[w], patch |-> patch]
      /\ \A p \in Editing : p # o => editing'[p] = editing[p]
      /\ \A v, f : ~InFlight(o, v) /\ (InFlight(o, v)' <=> v = w) /\ (Writes(o, v, f)' <=> v = w /\ patch[f] # "keep")
      /\ \A p \in Editing : p # o => \A v, f : (InFlight(p, v)' <=> InFlight(p, v)) /\ (Writes(p, v, f)' <=> Writes(p, v, f))
      /\ apart \subseteq apart'
      /\ \A f \in Fields, p \in Editing : p # o /\ Writes(p, w, f) /\ patch[f] # "keep" => <<w, f>> \in apart'
  BY BeginStays
<1>3. listed \in [WorkspaceIds -> WorkspaceData \cup {Unlisted}] /\ listed[w] \in WorkspaceData
  BY <1>1 DEF WorkspacesInv, WorkspacesTyped
<1>4. PICK d \in WorkspaceData : d = listed[w]  BY <1>3
<1>5. /\ Patched(d, patch) \in WorkspaceData
      /\ \A f \in Fields : Patched(d, patch)[f] = IF patch[f] = "keep" THEN d[f] ELSE patch[f]
  BY PatchedField
<1>6. /\ listed' \in [WorkspaceIds -> WorkspaceData \cup {Unlisted}] /\ listed'[w] = Patched(d, patch)
      /\ \A v \in WorkspaceIds : v # w => listed'[v] = listed[v]
  BY <1>1, <1>3, <1>4, <1>5
<1>7. WorkspacesTyped'  BY <1>2, <1>6 DEF WorkspacesInv, WorkspacesTyped
<1>8. CommandInv'
  <2>1. \A v \in WorkspaceIds : listed[v] # Unlisted => listed'[v] # Unlisted  BY <1>6, <1>5
  <2>2. "added" \in WorkspaceIds  BY DEF WorkspaceIds
  <2>3. ASSUME NEW p \in Editing, p # o
        PROVE  /\ editing'[p].kind = "create" =>
                    /\ editing'[p].id = "added" /\ editing'[p].patch = NoPatch
                    /\ listed'["added"] # Unlisted /\ stored'["added"] = Unlisted
                    /\ \A q \in Editing : editing'[q].kind = "create" => q = p
               /\ editing'[p].kind \in {"update", "demote"} => editing'[p].before \in WorkspaceData
               /\ editing'[p].kind = "demote" => editing'[p].id = "default" /\ editing'[p].patch = [NoPatch EXCEPT !.ssl = "off"]
               /\ editing'[p].kind = "none" => editing'[p] = NotEditing
    BY <2>3, <2>1, <2>2, <1>2 DEF WorkspacesInv, CommandInv
  <2>4. editing'[o].kind = kind /\ editing'[o].id = w /\ editing'[o].before \in WorkspaceData /\ editing'[o].patch = patch
    BY <1>2, <1>3
  <2> QED BY <2>3, <2>4 DEF CommandInv
<1>9. ASSUME NEW v \in WorkspaceIds, NEW f \in Fields, <<v, f>> \notin apart' PROVE Matched(v, f)'
  <2>1. Matched(v, f)  BY <1>9, <1>2 DEF WorkspacesInv
  <2>2. Saved(v)' = Saved(v) /\ stored'[v] = stored[v]  BY <1>2 DEF Saved
  <2>3. Creating(v) => Creating(v)'  BY <1>2 DEF Creating, NotEditing
  <2>4. CASE v # w
    <3>1. listed'[v] = listed[v]  BY <2>4, <1>6
    <3>2. \A p \in Editing : (InFlight(p, v)' <=> InFlight(p, v)) /\ (Writes(p, v, f)' <=> Writes(p, v, f))
      BY <2>4, <1>2 DEF Writes
    <3>3. \A p \in Editing : Writes(p, v, f) => editing'[p] = editing[p]  BY <1>2 DEF Writes
    <3> QED BY <2>1, <2>2, <2>3, <3>1, <3>2, <3>3 DEF Matched
  <2>5. CASE v = w /\ patch[f] = "keep"
    <3>1. listed'[v][f] = listed[v][f] /\ listed'[v] # Unlisted  BY <2>5, <1>4, <1>5, <1>6
    <3>2. \A p \in Editing : Writes(p, v, f)' <=> Writes(p, v, f)  BY <2>5, <1>2 DEF Writes
    <3>3. \A p \in Editing : Writes(p, v, f) => editing'[p] = editing[p]  BY <1>2 DEF Writes
    <3>4. listed[v] # Unlisted  BY <2>5, <1>1
    <3> QED BY <2>1, <2>2, <2>3, <3>1, <3>2, <3>3, <3>4 DEF Matched
  <2>6. CASE v = w /\ patch[f] # "keep"
    <3>1. listed'[v][f] = patch[f] /\ listed'[v] # Unlisted  BY <2>6, <1>4, <1>5, <1>6
    <3>2. \A p \in Editing : Writes(p, v, f)' <=> p = o  BY <2>6, <1>2, <1>9
    <3>3. \A p \in Editing : ~Writes(p, v, f)  BY <3>2, <1>2 DEF Writes
    <3>4. listed[v][f] = Saved(v)[f]  BY <3>3, <2>1, <2>6, <1>1 DEF Matched
    <3>5. editing'[o].patch[f] = patch[f] /\ editing'[o].before[f] = listed[v][f]  BY <1>2, <2>6
    <3> QED BY <2>1, <2>2, <2>3, <2>6, <3>1, <3>2, <3>4, <3>5, <1>1 DEF Matched
  <2> QED BY <2>4, <2>5, <2>6
<1> QED BY <1>2, <1>7, <1>8, <1>9 DEF WorkspacesInv

\* RowWritten: the row takes what memory has had since the command began.
LEMMA WrittenKeeps ==
  ASSUME NEW o \in Editing, WorkspacesInv, RowWritten(o)
  PROVE  WorkspacesInv'
<1> USE PatchesTyped, UnlistedApart, RowData
<1>1. /\ started /\ started' = started /\ editing[o].kind # "none" /\ editing' = [editing EXCEPT ![o] = NotEditing]
      /\ listed' = listed /\ apart' = apart /\ promised' = stored'
  BY DEF RowWritten, EditEnded
<1>2. PICK c \in Command : c = editing[o]  BY DEF WorkspacesInv, WorkspacesTyped
<1>3. /\ editing' \in [Editing -> Command] /\ editing'[o] = NotEditing
      /\ \A p \in Editing : p # o => editing'[p] = editing[p]
      /\ \A w, f : ~InFlight(o, w)' /\ ~Writes(o, w, f)'
      /\ \A p \in Editing : p # o => \A w, f : (InFlight(p, w)' <=> InFlight(p, w)) /\ (Writes(p, w, f)' <=> Writes(p, w, f))
  BY <1>1, OthersStay DEF WorkspacesInv, WorkspacesTyped
<1>4. /\ c.kind \in {"create", "update", "demote"} /\ c.id \in WorkspaceIds /\ c.patch \in WorkspacePatch
      /\ stored \in [WorkspaceIds -> WorkspaceRow \cup {Unlisted}] /\ "added" \in WorkspaceIds /\ "default" \in WorkspaceIds
  BY <1>1, <1>2 DEF Command, WorkspacesInv, WorkspacesTyped, WorkspaceIds
<1>5. /\ c.kind = "create" => c.id = "added" /\ c.patch = NoPatch /\ stored["added"] = Unlisted
      /\ c.kind = "demote" => c.id = "default" /\ c.patch = [NoPatch EXCEPT !.ssl = "off"]
      /\ c.kind # "create" => ~Creating(c.id) \/ stored[c.id] = Unlisted
  BY <1>2, <1>1 DEF WorkspacesInv, CommandInv, Creating
\* What becomes of the row: created, patched, or missing and left so.
<1>6. /\ \A v \in WorkspaceIds : v # c.id => stored'[v] = stored[v]
      /\ \/ c.kind = "create" /\ stored'[c.id] = AsRow(FreshWorkspace)
         \/ c.kind # "create" /\ stored[c.id] # Unlisted /\ stored'[c.id] = Patched(stored[c.id], c.patch)
         \/ c.kind = "demote" /\ stored[c.id] = Unlisted /\ stored'[c.id] = Unlisted
      /\ DOMAIN stored' = WorkspaceIds /\ stored' = [v \in WorkspaceIds |-> stored'[v]]
  <2>1. CASE c.kind = "create"
    <3>1. stored' = [stored EXCEPT ![c.id] = AsRow(FreshWorkspace)]  BY <2>1, <1>2 DEF RowWritten, upsert_workspace
    <3> QED BY <3>1, <2>1, <1>4
  <2>2. CASE c.kind = "update"
    <3>1. stored[c.id] # Unlisted /\ stored' = [stored EXCEPT ![c.id] = Patched(@, c.patch)]
      BY <2>2, <1>2 DEF RowWritten, update_workspace
    <3> QED BY <3>1, <2>2, <1>4
  <2>3. CASE c.kind = "demote"
    <3>1. stored' = [stored EXCEPT ![c.id] = IF @ = Unlisted THEN @ ELSE [@ EXCEPT !.ssl = "off"]]
      BY <2>3, <1>2 DEF RowWritten, set_workspace_ssl_enabled
    <3>2. \A r \in WorkspaceRow : Patched(r, [NoPatch EXCEPT !.ssl = "off"]) = [r EXCEPT !.ssl = "off"]
      <4>1. PICK off \in WorkspacePatch : off = [NoPatch EXCEPT !.ssl = "off"]  OBVIOUS
      <4>2. off.name = "keep" /\ off.ssl = "off" /\ off.chain = "keep"  BY <4>1 DEF NoPatch
      <4>3. ASSUME NEW r \in WorkspaceRow PROVE Patched(r, off) = [r EXCEPT !.ssl = "off"]
        <5>1. Patched(r, off) = [name |-> r.name, ssl |-> "off", routed |-> r.routed, chain |-> r.chain]  BY <4>2 DEF Patched
        <5>2. r = [name |-> r.name, ssl |-> r.ssl, routed |-> r.routed, chain |-> r.chain]  BY DEF WorkspaceRow
        <5>3. \A n, l, t, h : [[name |-> n, ssl |-> l, routed |-> t, chain |-> h] EXCEPT !.ssl = "off"]
                               = [name |-> n, ssl |-> "off", routed |-> t, chain |-> h]
          OBVIOUS
        <5> QED BY <5>1, <5>2, <5>3
      <4> QED BY <4>1, <4>3
    <3>3. stored[c.id] = Unlisted \/ stored[c.id] \in WorkspaceRow  BY <1>4
    <3>4. stored[c.id] \in WorkspaceRow => Patched(stored[c.id], c.patch) = [stored[c.id] EXCEPT !.ssl = "off"]
      BY <3>2, <1>5, <2>3
    <3>5. stored'[c.id] = IF stored[c.id] = Unlisted THEN stored[c.id] ELSE [stored[c.id] EXCEPT !.ssl = "off"]  BY <3>1, <1>4
    <3>6. \A v \in WorkspaceIds : v # c.id => stored'[v] = stored[v]  BY <3>1, <1>4
    <3>7. DOMAIN stored' = WorkspaceIds /\ stored' = [v \in WorkspaceIds |-> stored'[v]]  BY <3>1, <1>4
    <3> QED BY <3>3, <3>4, <3>5, <3>6, <3>7, <2>3
  <2> QED BY <2>1, <2>2, <2>3, <1>4
<1>7. PICK s \in WorkspaceRow \cup {Unlisted} : s = stored[c.id]  BY <1>4
<1>8. /\ s \in WorkspaceRow => Patched(s, c.patch) \in WorkspaceRow
      /\ s \in WorkspaceRow => \A f \in Fields : workspace_row_to_data(Patched(s, c.patch))[f]
                                  = IF c.patch[f] = "keep" THEN workspace_row_to_data(s)[f] ELSE c.patch[f]
  BY <1>4, PatchedField
<1>9. stored'[c.id] \in WorkspaceRow \cup {Unlisted} /\ (s # Unlisted => stored'[c.id] # Unlisted)  BY <1>6, <1>7, <1>8
<1>10. WorkspacesTyped'
  <2>1. stored' \in [WorkspaceIds -> WorkspaceRow \cup {Unlisted}]  BY <1>4, <1>6, <1>9
  <2> QED BY <2>1, <1>1, <1>3 DEF WorkspacesInv, WorkspacesTyped
<1>11. CommandInv'
  <2>1. \A p \in Editing : editing'[p].kind = "create" => p # o /\ c.kind # "create" /\ c.id # "added"
    <3> SUFFICES ASSUME NEW p \in Editing, editing'[p].kind = "create" PROVE p # o /\ c.kind # "create" /\ c.id # "added"  OBVIOUS
    <3>1. p # o  BY <1>3 DEF NotEditing
    <3>2. editing[p].kind = "create" /\ c.kind # "create" /\ stored["added"] = Unlisted
      BY <3>1, <1>2, <1>3 DEF WorkspacesInv, CommandInv
    <3>3. c.id # "added"
      <4> SUFFICES ASSUME c.id = "added" PROVE FALSE OBVIOUS
      <4>1. c.kind = "update" /\ stored[c.id] = Unlisted  BY <3>2, <1>4, <1>5
      <4> QED BY <4>1, <1>6
    <3> QED BY <3>1, <3>2, <3>3
  <2>2. ASSUME NEW p \in Editing
        PROVE  /\ editing'[p].kind = "create" =>
                    /\ editing'[p].id = "added" /\ editing'[p].patch = NoPatch
                    /\ listed'["added"] # Unlisted /\ stored'["added"] = Unlisted
                    /\ \A q \in Editing : editing'[q].kind = "create" => q = p
               /\ editing'[p].kind \in {"update", "demote"} => editing'[p].before \in WorkspaceData
               /\ editing'[p].kind = "demote" => editing'[p].id = "default" /\ editing'[p].patch = [NoPatch EXCEPT !.ssl = "off"]
               /\ editing'[p].kind = "none" => editing'[p] = NotEditing
    <3>1. CASE p = o  BY <3>1, <1>3 DEF NotEditing
    <3>2. CASE p # o
      <4>1. editing'[p] = editing[p]  BY <3>2, <1>3
      <4>2. editing'[p].kind = "create" => stored'["added"] = stored["added"]  BY <2>1, <1>4, <1>6
      <4>3. \A q \in Editing : editing'[q].kind = "create" => editing[q].kind = "create"  BY <2>1, <1>3
      <4> QED BY <4>1, <4>2, <4>3, <1>1 DEF WorkspacesInv, CommandInv
    <3> QED BY <3>1, <3>2
  <2> QED BY <2>2 DEF CommandInv
<1>12. ASSUME NEW v \in WorkspaceIds, NEW f \in Fields, <<v, f>> \notin apart' PROVE Matched(v, f)'
  <2>1. Matched(v, f)  BY <1>12, <1>1 DEF WorkspacesInv
  <2>2. CASE v # c.id
    <3>1. stored'[v] = stored[v] /\ Saved(v)' = Saved(v)  BY <2>2, <1>6 DEF Saved
    <3>2. \A p \in Editing : (InFlight(p, v)' <=> InFlight(p, v)) /\ (Writes(p, v, f)' <=> Writes(p, v, f))
      BY <2>2, <1>2, <1>3 DEF Writes, InFlight
    <3>3. \A p \in Editing : Writes(p, v, f) => editing'[p] = editing[p]  BY <2>2, <1>2, <1>3 DEF Writes, InFlight
    <3>4. Creating(v) => Creating(v)'  BY <2>2, <1>2, <1>3 DEF Creating
    <3> QED BY <2>1, <3>1, <3>2, <3>3, <3>4, <1>1 DEF Matched
  <2>3. CASE v = c.id
    <3>1. InFlight(o, v) /\ listed[v] # Unlisted /\ (Writes(o, v, f) <=> c.patch[f] # "keep")
      BY <2>1, <2>3, <1>1, <1>2 DEF InFlight, Writes, Matched
    <3>2. CASE c.kind = "create"
      <4>1. stored'[v] # Unlisted /\ Saved(v)' = FreshWorkspace /\ Saved(v) = FreshWorkspace  BY <3>2, <2>3, <1>5, <1>6 DEF Saved
      <4>2. ~Writes(o, v, f)  BY <3>1, <3>2, <1>5
      <4>3. \A p \in Editing : Writes(p, v, f)' <=> Writes(p, v, f)  BY <4>2, <1>3
      <4>4. \A p \in Editing : Writes(p, v, f) => editing'[p] = editing[p]  BY <4>2, <1>3
      <4> QED BY <2>1, <3>1, <4>1, <4>3, <4>4, <1>1 DEF Matched
    <3>3. CASE c.kind # "create"
      <4>1. stored[v] # Unlisted
        <5> SUFFICES ASSUME stored[v] = Unlisted PROVE FALSE OBVIOUS
        <5>1. c.kind = "demote" /\ c.id = "default"  BY <3>3, <2>3, <1>6, <1>5
        <5>2. PICK p \in Editing : editing[p].kind = "create" /\ editing[p].id = v  BY <2>1, <3>1 DEF Matched, Creating
        <5> QED BY <5>1, <5>2, <2>3 DEF WorkspacesInv, CommandInv
      <4>2. s \in WorkspaceRow /\ stored'[v] = Patched(s, c.patch) /\ stored'[v] # Unlisted  BY <4>1, <3>3, <2>3, <1>6, <1>7, <1>8
      <4>3. Saved(v)'[f] = IF c.patch[f] = "keep" THEN Saved(v)[f] ELSE c.patch[f]  BY <4>1, <4>2, <1>7, <1>8, <2>3 DEF Saved
      <4>4. CASE c.patch[f] = "keep"
        <5>1. \A p \in Editing : Writes(p, v, f)' <=> Writes(p, v, f)  BY <4>4, <3>1, <1>3
        <5>2. \A p \in Editing : Writes(p, v, f) => editing'[p] = editing[p]  BY <4>4, <3>1, <1>3
        <5> QED BY <2>1, <3>1, <4>2, <4>3, <4>4, <5>1, <5>2, <1>1 DEF Matched
      <4>5. CASE c.patch[f] # "keep"
        <5>1. listed[v][f] = c.patch[f] /\ \A p \in Editing : Writes(p, v, f) => p = o  BY <2>1, <3>1, <4>5, <1>2 DEF Matched
        <5>2. \A p \in Editing : ~Writes(p, v, f)'  BY <5>1, <1>3
        <5> QED BY <3>1, <4>2, <4>3, <4>5, <5>1, <5>2, <1>1 DEF Matched
      <4> QED BY <4>4, <4>5
    <3> QED BY <3>2, <3>3
  <2> QED BY <2>2, <2>3
<1> QED BY <1>1, <1>10, <1>11, <1>12 DEF WorkspacesInv

\* RowWriteFails: what the way back leaves different is apart.
LEMMA FailedKeeps ==
  ASSUME NEW o \in Editing, WorkspacesInv, RowWriteFails(o)
  PROVE  WorkspacesInv'
<1> USE PatchesTyped, UnlistedApart, RowData
<1>1. /\ started /\ started' = started /\ editing[o].kind # "none" /\ editing' = [editing EXCEPT ![o] = NotEditing]
      /\ stored' = stored /\ promised' = promised /\ apart \subseteq apart'
  BY DEF RowWriteFails, EditEnded
<1>2. PICK c \in Command : c = editing[o]  BY DEF WorkspacesInv, WorkspacesTyped
<1>3. /\ editing' \in [Editing -> Command] /\ editing'[o] = NotEditing
      /\ \A p \in Editing : p # o => editing'[p] = editing[p]
      /\ \A w, f : ~InFlight(o, w)' /\ ~Writes(o, w, f)'
      /\ \A p \in Editing : p # o => \A w, f : (InFlight(p, w)' <=> InFlight(p, w)) /\ (Writes(p, w, f)' <=> Writes(p, w, f))
  BY <1>1, OthersStay DEF WorkspacesInv, WorkspacesTyped
<1>4. /\ c.kind \in {"create", "update", "demote"} /\ c.id \in WorkspaceIds /\ c.patch \in WorkspacePatch
      /\ listed \in [WorkspaceIds -> WorkspaceData \cup {Unlisted}] /\ "added" \in WorkspaceIds /\ "default" \in WorkspaceIds
  BY <1>1, <1>2 DEF Command, WorkspacesInv, WorkspacesTyped, WorkspaceIds
<1>5. /\ c.kind = "create" => c.id = "added" /\ c.patch = NoPatch /\ stored["added"] = Unlisted /\ listed["added"] # Unlisted
      /\ c.kind = "demote" => c.id = "default" /\ c.patch = [NoPatch EXCEPT !.ssl = "off"]
      /\ c.kind # "create" => c.before \in WorkspaceData
  BY <1>2, <1>4 DEF WorkspacesInv, CommandInv
<1>6. /\ \A v \in WorkspaceIds : v # c.id => listed'[v] = listed[v]
      /\ \/ c.kind = "create" /\ listed'[c.id] = Unlisted
         \/ c.kind = "update" /\ listed[c.id] # Unlisted /\ listed'[c.id] = c.before
         \/ c.kind = "update" /\ listed[c.id] = Unlisted /\ listed'[c.id] = Unlisted
         \/ c.kind = "demote" /\ listed'[c.id] = listed[c.id]
      /\ listed' \in [WorkspaceIds -> WorkspaceData \cup {Unlisted}]
  <2>1. CASE c.kind = "create"
    <3>1. listed' = [listed EXCEPT ![c.id] = Unlisted]  BY <2>1, <1>2 DEF RowWriteFails, remove
    <3> QED BY <3>1, <2>1, <1>4
  <2>2. CASE c.kind = "update"
    <3>1. listed' = [listed EXCEPT ![c.id] = IF @ = Unlisted THEN @ ELSE c.before]  BY <2>2, <1>2 DEF RowWriteFails, restore
    <3> QED BY <3>1, <2>2, <1>4, <1>5
  <2>3. CASE c.kind = "demote"  BY <2>3, <1>2, <1>4 DEF RowWriteFails
  <2> QED BY <2>1, <2>2, <2>3, <1>4
<1>7. WorkspacesTyped'  BY <1>1, <1>3, <1>6 DEF WorkspacesInv, WorkspacesTyped
<1>8. CommandInv'
  <2>1. \A p \in Editing : editing'[p].kind = "create" => p # o /\ editing[p].kind = "create" /\ c.kind # "create"
    BY <1>2, <1>3 DEF WorkspacesInv, CommandInv, NotEditing
  <2>2. \A v \in WorkspaceIds : c.kind # "create" /\ listed[v] # Unlisted => listed'[v] # Unlisted  BY <1>5, <1>6
  <2>3. ASSUME NEW p \in Editing
        PROVE  /\ editing'[p].kind = "create" =>
                    /\ editing'[p].id = "added" /\ editing'[p].patch = NoPatch
                    /\ listed'["added"] # Unlisted /\ stored'["added"] = Unlisted
                    /\ \A q \in Editing : editing'[q].kind = "create" => q = p
               /\ editing'[p].kind \in {"update", "demote"} => editing'[p].before \in WorkspaceData
               /\ editing'[p].kind = "demote" => editing'[p].id = "default" /\ editing'[p].patch = [NoPatch EXCEPT !.ssl = "off"]
               /\ editing'[p].kind = "none" => editing'[p] = NotEditing
    <3>1. CASE p = o  BY <3>1, <1>3 DEF NotEditing
    <3>2. CASE p # o
      <4>1. editing'[p] = editing[p]  BY <3>2, <1>3
      <4>2. editing'[p].kind = "create" => listed'["added"] # Unlisted  BY <2>1, <2>2, <4>1, <1>4 DEF WorkspacesInv, CommandInv
      <4> QED BY <4>1, <4>2, <2>1, <1>1 DEF WorkspacesInv, CommandInv
    <3> QED BY <3>1, <3>2
  <2> QED BY <2>3 DEF CommandInv
<1>9. ASSUME NEW v \in WorkspaceIds, NEW f \in Fields, <<v, f>> \notin apart' PROVE Matched(v, f)'
  <2>1. Matched(v, f)  BY <1>9, <1>1 DEF WorkspacesInv
  <2>2. Saved(v)' = Saved(v) /\ stored'[v] = stored[v]  BY <1>1 DEF Saved
  <2>3. CASE v # c.id
    <3>1. listed'[v] = listed[v]  BY <2>3, <1>6
    <3>2. \A p \in Editing : (InFlight(p, v)' <=> InFlight(p, v)) /\ (Writes(p, v, f)' <=> Writes(p, v, f))
      BY <2>3, <1>2, <1>3 DEF Writes, InFlight
    <3>3. \A p \in Editing : Writes(p, v, f) => editing'[p] = editing[p]  BY <2>3, <1>2, <1>3 DEF Writes, InFlight
    <3>4. Creating(v) => Creating(v)'  BY <2>3, <1>2, <1>3 DEF Creating
    <3> QED BY <2>1, <2>2, <3>1, <3>2, <3>3, <3>4 DEF Matched
  <2>4. CASE v = c.id /\ c.kind = "demote"
    <3>1. f # "ssl" /\ listed'[v] = listed[v]
      <4>1. apart' = apart \cup {<<c.id, "ssl">>}  BY <2>4, <1>2 DEF RowWriteFails
      <4> QED BY <4>1, <1>9, <2>4, <1>6
    <3>2. c.patch[f] = "keep"  BY <3>1, <2>4, <1>5 DEF NoPatch, Fields
    <3>3. \A p \in Editing : Writes(p, v, f)' <=> Writes(p, v, f)  BY <3>2, <1>2, <1>3 DEF Writes
    <3>4. \A p \in Editing : Writes(p, v, f) => editing'[p] = editing[p]  BY <3>2, <1>2, <1>3 DEF Writes
    <3>5. Creating(v) => Creating(v)'  BY <2>4, <1>2, <1>3 DEF Creating
    <3>6. \A p \in Editing : InFlight(p, v)' => InFlight(p, v)  BY <1>3
    <3> QED BY <2>1, <2>2, <3>1, <3>3, <3>4, <3>5, <3>6 DEF Matched
  <2>5. CASE v = c.id /\ c.kind # "demote"
    <3>1. Others(o, v) = {} /\ Undone(o)
      <4>1. apart' = apart \cup (IF Others(o, c.id) = {} /\ Undone(o) THEN {} ELSE {c.id} \X Fields)
        BY <2>5, <1>2 DEF RowWriteFails
      <4> QED BY <4>1, <1>9, <2>5
    <3>2. \A p \in Editing : p # o => ~InFlight(p, v)  BY <3>1 DEF Others, InFlight
    <3>3. \A p \in Editing : ~InFlight(p, v)' /\ ~Writes(p, v, f)'  BY <3>2, <1>3 DEF Writes
    <3>4. CASE c.kind = "create"  BY <3>3, <3>4, <2>2, <2>5, <1>5, <1>6 DEF Matched
    <3>5. CASE c.kind = "update"
      <4>1. InFlight(o, v) /\ listed[v] # Unlisted  BY <2>1, <2>5, <1>1, <1>2 DEF InFlight, Matched
      <4>2. ~Creating(v)  BY <3>2, <3>5, <1>2 DEF Creating, InFlight
      <4>3. stored[v] # Unlisted  BY <4>1, <4>2, <2>1 DEF Matched
      <4>4. listed'[v] = c.before /\ listed[v] = Patched(c.before, c.patch) /\ c.before \in WorkspaceData
        BY <3>1, <3>5, <4>1, <2>5, <1>2, <1>5, <1>6 DEF Undone, load
      <4>5. listed[v][f] = IF c.patch[f] = "keep" THEN c.before[f] ELSE c.patch[f]  BY <4>4, <1>4, PatchedField
      <4>6. c.before[f] = Saved(v)[f]
        <5>1. CASE c.patch[f] = "keep"
          <6>1. \A p \in Editing : ~Writes(p, v, f)  BY <5>1, <3>2, <1>2 DEF Writes
          <6> QED BY <6>1, <5>1, <4>1, <4>5, <2>1 DEF Matched
        <5>2. CASE c.patch[f] # "keep"  BY <5>2, <4>1, <2>1, <1>2 DEF Matched, Writes
        <5> QED BY <5>1, <5>2
      <4> QED BY <4>3, <4>4, <4>6, <3>3, <2>2 DEF Matched
    <3> QED BY <3>4, <3>5, <2>5, <1>4
  <2> QED BY <2>3, <2>4, <2>5
<1> QED BY <1>1, <1>7, <1>8, <1>9 DEF WorkspacesInv

\* PersistRoute: the route is kept in the row only, and is none of the fields compared.
LEMMA RouteKeeps ==
  ASSUME NEW value \in {"on", "off"}, WorkspacesInv, PersistRoute(value)
  PROVE  WorkspacesInv'
<1> USE UnlistedApart, RowData
<1>1. /\ listed' = listed /\ editing' = editing /\ apart' = apart /\ started' = started
      /\ stored' = [stored EXCEPT !["default"] = IF @ = Unlisted THEN @ ELSE [@ EXCEPT !.routed = value]]
      /\ promised' = [promised EXCEPT !["default"] = IF @ = Unlisted THEN @ ELSE [@ EXCEPT !.routed = value]]
  BY DEF PersistRoute, set_workspace_system_proxy_enabled
<1>2. stored \in [WorkspaceIds -> WorkspaceRow \cup {Unlisted}] /\ promised = stored /\ "default" \in WorkspaceIds
  BY DEF WorkspacesInv, WorkspacesTyped, WorkspaceIds
<1>3. promised' = stored'  BY <1>1, <1>2
<1>4. \A r \in WorkspaceRow : [r EXCEPT !.routed = value] \in WorkspaceRow  BY DEF WorkspaceRow
<1>5. ASSUME NEW r \in WorkspaceRow, NEW f \in Fields
      PROVE  workspace_row_to_data([r EXCEPT !.routed = value])[f] = workspace_row_to_data(r)[f]
  <2>1. CASE f = "name"  BY <2>1 DEF WorkspaceRow, workspace_row_to_data
  <2>2. CASE f = "ssl"  BY <2>2 DEF WorkspaceRow, workspace_row_to_data
  <2>3. CASE f = "chain"  BY <2>3 DEF WorkspaceRow, workspace_row_to_data
  <2> QED BY <2>1, <2>2, <2>3 DEF Fields
<1>6. \A v \in WorkspaceIds :
        \/ stored'[v] = stored[v]
        \/ stored[v] \in WorkspaceRow /\ stored'[v] = [stored[v] EXCEPT !.routed = value]
  BY <1>1, <1>2
<1>7. \A v \in WorkspaceIds : stored'[v] \in WorkspaceRow \cup {Unlisted} /\ (stored'[v] = Unlisted <=> stored[v] = Unlisted)
  <2> SUFFICES ASSUME NEW v \in WorkspaceIds
               PROVE  stored'[v] \in WorkspaceRow \cup {Unlisted} /\ (stored'[v] = Unlisted <=> stored[v] = Unlisted)
    OBVIOUS
  <2>1. CASE stored'[v] = stored[v]  BY <2>1, <1>2
  <2>2. CASE stored[v] \in WorkspaceRow /\ stored'[v] = [stored[v] EXCEPT !.routed = value]
    <3>1. PICK r \in WorkspaceRow : r = stored[v]  BY <2>2
    <3>2. stored'[v] = [r EXCEPT !.routed = value] /\ stored'[v] \in WorkspaceRow  BY <2>2, <3>1, <1>4
    <3> QED BY <3>1, <3>2
  <2> QED BY <2>1, <2>2, <1>6
<1>8. ASSUME NEW v \in WorkspaceIds, NEW f \in Fields PROVE Saved(v)'[f] = Saved(v)[f]
  <2>1. CASE stored'[v] = stored[v]  BY <2>1 DEF Saved
  <2>2. CASE stored[v] \in WorkspaceRow /\ stored'[v] = [stored[v] EXCEPT !.routed = value]
    <3>1. PICK r \in WorkspaceRow : r = stored[v]  BY <2>2
    <3>2. stored'[v] = [r EXCEPT !.routed = value] /\ stored'[v] # Unlisted /\ stored[v] # Unlisted  BY <2>2, <3>1, <1>7
    <3> QED BY <3>1, <3>2, <1>5 DEF Saved
  <2> QED BY <2>1, <2>2, <1>6
<1>9. stored' \in [WorkspaceIds -> WorkspaceRow \cup {Unlisted}]
  <2>1. stored' = [v \in WorkspaceIds |-> stored'[v]]  BY <1>1, <1>2
  <2> QED BY <2>1, <1>7
<1>10. WorkspacesTyped'  BY <1>1, <1>3, <1>9 DEF WorkspacesInv, WorkspacesTyped
<1>11. CommandInv'
  <2>1. "added" \in WorkspaceIds  BY DEF WorkspaceIds
  <2> QED BY <2>1, <1>1, <1>7 DEF WorkspacesInv, CommandInv
<1>12. ASSUME NEW v \in WorkspaceIds, NEW f \in Fields, Matched(v, f) PROVE Matched(v, f)'
  <2>1. /\ \A p \in Editing : (InFlight(p, v)' <=> InFlight(p, v)) /\ (Writes(p, v, f)' <=> Writes(p, v, f))
        /\ Creating(v)' <=> Creating(v)
    BY <1>1 DEF InFlight, Writes, Creating
  <2> QED BY <2>1, <1>12, <1>1, <1>7, <1>8 DEF Matched
<1> QED BY <1>1, <1>10, <1>11, <1>12 DEF WorkspacesInv

\* Start: the rows replace the built-in list, or the built-in default is stored, or all is apart.
LEMMA StartKeeps ==
  ASSUME NEW reads \in BOOLEAN, NEW checks \in BOOLEAN, NEW writes \in BOOLEAN, WorkspacesInv, Start(reads, checks, writes)
  PROVE  WorkspacesInv'
<1> USE UnlistedApart, RowData, PatchesTyped
<1>1. /\ ~started /\ started' = TRUE /\ editing' = editing
      /\ LoadWorkspaces(reads) /\ Seed(checks, writes)
      /\ promised' = IF load_all_workspaces = {} THEN stored' ELSE promised
      /\ apart' = IF reads /\ (load_all_workspaces # {} \/ (checks /\ writes)) THEN {} ELSE WorkspaceIds \X Fields
  BY DEF Start
<1>2. /\ stored \in [WorkspaceIds -> WorkspaceRow \cup {Unlisted}] /\ promised = stored
      /\ \A o \in Editing : editing[o] = NotEditing
      /\ "default" \in WorkspaceIds /\ \A v \in WorkspaceIds : v # "default" => v = "added"
  BY <1>1 DEF WorkspacesInv, WorkspacesTyped, WorkspaceIds
<1>3. load_all_workspaces = {} => \A v \in WorkspaceIds : stored[v] = Unlisted  BY DEF load_all_workspaces
<1>4. NewManager \in [WorkspaceIds -> WorkspaceData \cup {Unlisted}] /\ NewManager["default"] = FreshWorkspace
      /\ \A v \in WorkspaceIds : v # "default" => NewManager[v] = Unlisted
  BY <1>2 DEF NewManager
<1>5. \/ reads /\ load_all_workspaces # {}
         /\ listed' = [v \in WorkspaceIds |-> IF stored[v] = Unlisted THEN Unlisted ELSE workspace_row_to_data(stored[v])]
      \/ (~reads \/ load_all_workspaces = {}) /\ listed' = NewManager
  BY <1>1 DEF LoadWorkspaces
<1>6. listed' \in [WorkspaceIds -> WorkspaceData \cup {Unlisted}]  BY <1>2, <1>4, <1>5
<1>7. \/ load_all_workspaces = {} /\ checks /\ writes /\ stored' = [stored EXCEPT !["default"] = AsRow(FreshWorkspace)]
      \/ ~(load_all_workspaces = {} /\ checks /\ writes) /\ stored' = stored
  <2>1. CASE load_all_workspaces = {} /\ checks /\ writes  BY <2>1, <1>1, <1>4, <1>5 DEF Seed, is_empty, upsert_workspace
  <2>2. CASE ~(load_all_workspaces = {} /\ checks /\ writes)  BY <2>2, <1>1 DEF Seed, is_empty
  <2> QED BY <2>1, <2>2
<1>8. stored' \in [WorkspaceIds -> WorkspaceRow \cup {Unlisted}] /\ promised' = stored'  BY <1>1, <1>2, <1>7
<1>9. WorkspacesTyped'  BY <1>1, <1>6, <1>8 DEF WorkspacesInv, WorkspacesTyped
<1>10. CommandInv'  BY <1>1, <1>2 DEF CommandInv, NotEditing
<1>11. ASSUME NEW v \in WorkspaceIds, NEW f \in Fields, <<v, f>> \notin apart' PROVE Matched(v, f)'
  <2>1. reads /\ (load_all_workspaces # {} \/ (checks /\ writes))  BY <1>11, <1>1
  <2>2. \A p \in Editing : ~InFlight(p, v)' /\ ~Writes(p, v, f)'  BY <1>1, <1>2 DEF InFlight, Writes, NotEditing
  <2>3. IF stored'[v] = Unlisted THEN listed'[v] = Unlisted
        ELSE listed'[v] = workspace_row_to_data(stored'[v]) /\ listed'[v] # Unlisted
    <3>1. CASE load_all_workspaces # {}
      <4>1. stored'[v] = stored[v] /\ listed'[v] = IF stored[v] = Unlisted THEN Unlisted ELSE workspace_row_to_data(stored[v])
        BY <3>1, <2>1, <1>5, <1>7
      <4> QED BY <4>1, <1>2
    <3>2. CASE load_all_workspaces = {}
      <4>1. listed'[v] = NewManager[v] /\ stored'[v] = IF v = "default" THEN AsRow(FreshWorkspace) ELSE stored[v]
        BY <3>2, <2>1, <1>2, <1>5, <1>7
      <4> QED BY <4>1, <3>2, <1>3, <1>4
    <3> QED BY <3>1, <3>2
  <2> QED BY <2>2, <2>3 DEF Matched, Saved
<1> QED BY <1>1, <1>9, <1>10, <1>11 DEF WorkspacesInv

\* Exit ends every command; a setting may be found unreadable.
LEMMA ExitKeeps ==
  ASSUME NEW damage \in BOOLEAN, WorkspacesInv, Exit(damage)
  PROVE  WorkspacesInv'
<1> USE UnlistedApart, PatchesTyped
<1>1. /\ started' = FALSE /\ editing' = [o \in Editing |-> NotEditing] /\ promised' = stored' /\ listed' = listed
      /\ stored' = IF damage /\ stored["default"] # Unlisted THEN [stored EXCEPT !["default"].chain = "malformed"] ELSE stored
  BY DEF Exit
<1>2. stored \in [WorkspaceIds -> WorkspaceRow \cup {Unlisted}] /\ "default" \in WorkspaceIds
  BY DEF WorkspacesInv, WorkspacesTyped, WorkspaceIds
<1>3. \A r \in WorkspaceRow : [r EXCEPT !.chain = "malformed"] \in WorkspaceRow  BY DEF WorkspaceRow
<1>4. stored' \in [WorkspaceIds -> WorkspaceRow \cup {Unlisted}]  BY <1>1, <1>2, <1>3
<1>5. WorkspacesTyped'  BY <1>1, <1>4 DEF WorkspacesInv, WorkspacesTyped
<1>6. CommandInv'  BY <1>1 DEF CommandInv, NotEditing
<1> QED BY <1>1, <1>5, <1>6 DEF WorkspacesInv

\* The inductive invariant of the workspace settings: a field is apart, or memory has what the
\* row says, or the one command writing it will bring both together again whichever way it
\* ends (commands/workspaces.rs).
THEOREM WorkspacesInvariant == WorkspacesSpec => []WorkspacesInv
<1>1. WorkspacesInv /\ [NextWorkspaces]_workspaceVars => WorkspacesInv'
  <2> SUFFICES ASSUME WorkspacesInv, [NextWorkspaces]_workspaceVars PROVE WorkspacesInv'  OBVIOUS
  <2>1. ASSUME NEW o \in Editing, DemoteSsl(o) PROVE WorkspacesInv'
    <3>1. PICK p \in WorkspacePatch : p = [NoPatch EXCEPT !.ssl = "off"]  BY PatchesTyped
    <3>2. PICK w \in WorkspaceIds : w = "default"  BY DEF WorkspaceIds
    <3>3. BeginEdit(o, "demote", w, p) /\ update(w, p)  BY <2>1, <3>1, <3>2 DEF DemoteSsl
    <3>4. "demote" \in {"update", "demote"}  OBVIOUS
    <3> QED BY <3>1, <3>2, <3>3, <3>4, UpdateKeeps, ZenonT(30)
  <2>2. ASSUME NEW o \in Editing, NEW w \in WorkspaceIds, NEW patch \in Patches, update_workspace_impl(o, w, patch)
        PROVE  WorkspacesInv'
    <3>1. patch \in WorkspacePatch /\ "update" \in {"update", "demote"} /\ "update" # "demote"  BY PatchesTyped
    <3>2. BeginEdit(o, "update", w, patch) /\ update(w, patch)  BY <2>2 DEF update_workspace_impl
    <3> QED BY <3>1, <3>2, UpdateKeeps, ZenonT(30)
  <2>3. CASE UNCHANGED workspaceVars
    <3>1. \A v, f : (Matched(v, f)' <=> Matched(v, f))  BY <2>3 DEF workspaceVars, Matched, InFlight, Writes, Creating, Saved
    <3> QED BY <2>3, <3>1 DEF workspaceVars, WorkspacesInv, WorkspacesTyped, CommandInv
  <2> QED BY <2>1, <2>2, <2>3, CreateKeeps, WrittenKeeps, FailedKeeps, RouteKeeps, StartKeeps, ExitKeeps DEF NextWorkspaces
<1> QED BY <1>1, WorkspacesStart, PTL DEF WorkspacesSpec

\* What answered commands saved is in the rows, whatever fails, restarts or is seeded, and with
\* no command in flight memory has the saved settings, save for the fields that crossing
\* commands, a failure among them or unreadable rows have left apart: for any number of
\* commands at once (commands/workspaces.rs:303, main.rs).
THEOREM SettingsAlwaysSurvive == WorkspacesSpec => []SettingsSurvive
<1>1. WorkspacesInv => SettingsSurvive
  <2> SUFFICES ASSUME WorkspacesInv PROVE SettingsSurvive  OBVIOUS
  <2>1. stored = promised  BY DEF WorkspacesInv, WorkspacesTyped
  <2>2. ASSUME started, \A o \in Editing : editing[o] = NotEditing, NEW w \in WorkspaceIds, NEW f \in Fields, <<w, f>> \notin apart
        PROVE  IF stored[w] = Unlisted THEN listed[w] = Unlisted ELSE listed[w][f] = workspace_row_to_data(stored[w])[f]
    <3>1. Matched(w, f)  BY <2>2 DEF WorkspacesInv
    <3>2. ~Creating(w) /\ \A o \in Editing : ~Writes(o, w, f)  BY <2>2 DEF Creating, Writes, InFlight, NotEditing
    <3> QED BY <3>1, <3>2 DEF Matched, Saved
  <2> QED BY <2>1, <2>2 DEF SettingsSurvive
<1> QED BY <1>1, WorkspacesInvariant, PTL

-----------------------------------------------------------------------------
(* RedactionKey.                                                           *)

KeyTyped ==
  /\ keyFile \in [by : Loaders \cup {"earlier", "nobody"}, whole : BOOLEAN] /\ (keyFile.whole => keyFile.by # "nobody")
  /\ DOMAIN loads = Loaders /\ \A l \in Loaders : loads[l].tries \in Nat /\ loads[l].misses \in Nat
  /\ unread \in Nat /\ keyFaults \in Nat

\* A load that has not read the settled key has failed to as often as its place says, and none is
\* about to write a file of its own.
Sighted(l) ==
  /\ loads[l].pc # "write"
  /\ loads[l].pc = "exists" => loads[l].misses = 1
  /\ loads[l].pc = "reread" => loads[l].misses = loads[l].tries + 1 /\ loads[l].tries < Rereads
  /\ loads[l].pc = "remove" => loads[l].misses = Rereads + 1

\* The inductive invariant: from a settled key on, its file is whole until a load removes it that
\* failed to read it every time.
KeyInv ==
  /\ KeyTyped
  /\ settled # "none" /\ unread <= Rereads => keyFile = KeyFile(settled, TRUE) /\ \A l \in Loaders : Sighted(l)

\* A load's step moves that load alone.
LEMMA LoadMoves ==
  ASSUME NEW l \in Loaders, KeyTyped, KeyStep(l) \/ StartLoad(l)
  PROVE  DOMAIN loads' = Loaders /\ \A k \in Loaders : k # l => loads'[k] = loads[k]
<1>1. \E new : loads' = [loads EXCEPT ![l] = new]
  BY DEF KeyStep, StartLoad, CheckExists, Reread, RemoveFile, RemoveFails, CreateFile, WriteKey, CannotWrite,
         LostRace, LoadKilled, Move
<1> QED BY <1>1 DEF KeyTyped

\* What a load's record reads after its step.
LEMMA LoadFields ==
  /\ \A pc, t, m : Loading(pc, t, m).pc = pc /\ Loading(pc, t, m).tries = t /\ Loading(pc, t, m).misses = m
  /\ \A k : Loaded(k).pc = "idle" /\ Loaded(k).tries = 0 /\ Loaded(k).misses = 0 /\ Loaded(k).key = k
BY DEF Loading, Loaded

\* A step keeps the types.
LEMMA KeyTypedStep ==
  ASSUME NEW l \in Loaders, KeyTyped, KeyStep(l) \/ (StartLoad(l) /\ Settle(l))
  PROVE  KeyTyped'
<1> USE KeyAssumption
<1>1. loads'[l].tries \in Nat /\ loads'[l].misses \in Nat
  <2>1. l \in DOMAIN loads /\ loads[l].tries \in Nat /\ loads[l].misses \in Nat  BY DEF KeyTyped
  <2>2. \A ok \in BOOLEAN : Missed(ok) \in Nat  BY DEF Missed
  <2>3. CASE CheckExists(l)  BY <2>1, <2>3, LoadFields DEF CheckExists, Move
  <2>4. CASE Reread(l)
    <3>1. PICK ok \in BOOLEAN : \/ loads'[l] = Loaded(read_hash_key(ok))
                                \/ \E pc : loads'[l] = Loading(pc, loads[l].tries + 1, loads[l].misses + Missed(ok))
      BY <2>1, <2>4 DEF Reread, Move
    <3> QED BY <2>1, <2>2, <3>1, LoadFields
  <2>5. CASE RemoveFile(l) \/ RemoveFails(l)  BY <2>1, <2>5, LoadFields DEF RemoveFile, RemoveFails, Move
  <2>6. CASE CreateFile(l)
    <3>1. \E pc : loads'[l] = Loading(pc, 0, 0)  BY <2>1, <2>6 DEF CreateFile, Move
    <3> QED BY <3>1, LoadFields
  <2>7. CASE WriteKey(l) \/ CannotWrite(l) \/ LoadKilled(l)
    <3>1. \E k : loads'[l] = Loaded(k)  BY <2>1, <2>7 DEF WriteKey, CannotWrite, LoadKilled, Move
    <3> QED BY <3>1, LoadFields
  <2>8. CASE LostRace(l)  BY <2>1, <2>8, LoadFields DEF LostRace, Move
  <2>9. CASE StartLoad(l)
    <3>1. PICK ok \in BOOLEAN : loads'[l] = Loaded(read_hash_key(ok)) \/ loads'[l] = Loading("exists", 0, Missed(ok))
      BY <2>1, <2>9 DEF StartLoad, Move
    <3> QED BY <2>2, <3>1, LoadFields
  <2> QED BY <2>3, <2>4, <2>5, <2>6, <2>7, <2>8, <2>9 DEF KeyStep
<1>2. keyFile' \in {keyFile, NoFile, KeyFile(l, FALSE), KeyFile(l, TRUE)}
  BY DEF KeyStep, StartLoad, CheckExists, Reread, RemoveFile, RemoveFails, CreateFile, WriteKey, CannotWrite,
         LostRace, LoadKilled
<1>3. /\ \A k \in {NoFile, KeyFile(l, FALSE), KeyFile(l, TRUE)} :
           k \in [by : Loaders \cup {"earlier", "nobody"}, whole : BOOLEAN] /\ (k.whole => k.by # "nobody")
  BY DEF NoFile, KeyFile
<1>4. unread' \in Nat  BY DEF KeyStep, Settle, KeyTyped
<1>5. keyFaults' \in Nat
  <2>1. keyFaults' = keyFaults \/ keyFaults' = keyFaults + 1
    BY DEF KeyStep, StartLoad, CheckExists, Reread, RemoveFile, RemoveFails, CreateFile, WriteKey, CannotWrite,
           LostRace, LoadKilled, Call, KeyFault
  <2> QED BY <2>1 DEF KeyTyped
<1>6. DOMAIN loads' = Loaders /\ \A k \in Loaders : loads'[k].tries \in Nat /\ loads'[k].misses \in Nat
  BY <1>1, LoadMoves DEF KeyTyped
<1> QED BY <1>2, <1>3, <1>4, <1>5, <1>6 DEF KeyTyped

\* A whole file is named by its key.
LEMMA WholeFile ==
  ASSUME KeyTyped, keyFile.whole
  PROVE  keyFile = KeyFile(keyFile.by, TRUE)
BY DEF KeyTyped, KeyFile

\* While the settled key can be read, a step of a load leaves the file, unless the load failed to
\* read it every time; and the loads go on as their places say.
LEMMA SettledStep ==
  ASSUME NEW l \in Loaders, KeyInv, settled # "none", unread <= Rereads, KeyStep(l) \/ (StartLoad(l) /\ Settle(l))
  PROVE  \/ unread' > Rereads
         \/ Rest
         \/ keyFile' = keyFile /\ \A k \in Loaders : Sighted(k)'
<1> USE KeyAssumption
<1>1. /\ keyFile = KeyFile(settled, TRUE) /\ keyFile.whole /\ keyFile # NoFile /\ keyFile.by = settled
      /\ Sighted(l) /\ KeyTyped /\ loads[l].tries \in Nat /\ loads[l].misses \in Nat
  BY DEF KeyInv, KeyFile, NoFile, KeyTyped
<1>2. /\ \A ok \in BOOLEAN : read_hash_key(ok) = IF ok THEN settled ELSE "none"
      /\ \A ok \in BOOLEAN : Missed(ok) = IF ok THEN 0 ELSE 1
  BY <1>1 DEF read_hash_key, Missed
<1>3. ASSUME keyFile' = keyFile, Sighted(l)' PROVE keyFile' = keyFile /\ \A k \in Loaders : Sighted(k)'
  <2>1. \A k \in Loaders : k # l => loads'[k] = loads[k]  BY LoadMoves, <1>1
  <2>2. \A k \in Loaders : Sighted(k)  BY DEF KeyInv
  <2> QED BY <1>3, <2>1, <2>2 DEF Sighted
<1>4. ASSUME keyFile' = keyFile, (\E k : loads'[l] = Loaded(k)) \/ (\E pc \in {"create", "lost"} : loads'[l] = Loading(pc, 0, 0))
      PROVE  keyFile' = keyFile /\ \A k \in Loaders : Sighted(k)'
  BY <1>3, <1>4, LoadFields DEF Sighted
<1>5. l \in DOMAIN loads  BY <1>1 DEF KeyTyped
<1>6. CASE CheckExists(l)
  <2>1. keyFile' = keyFile /\ \E pc \in {"reread", "create"} : loads'[l] = Loading(pc, 0, 1)
    BY <1>6, <1>1, <1>5 DEF CheckExists, Move, Sighted
  <2> QED BY <2>1, <1>3, LoadFields DEF Sighted
<1>7. CASE Reread(l)
  <2>1. PICK ok \in BOOLEAN : /\ loads[l].pc = "reread" /\ keyFile' = keyFile
                              /\ Move(l, IF read_hash_key(ok) # "none" THEN Loaded(read_hash_key(ok))
                                         ELSE Loading(IF loads[l].tries + 1 < Rereads THEN "reread" ELSE "remove",
                                                      loads[l].tries + 1, loads[l].misses + Missed(ok)))
    BY <1>7 DEF Reread
  <2>2. CASE ok
    <3>1. loads'[l] = Loaded(settled)  BY <2>1, <2>2, <1>2, <1>5 DEF Move
    <3> QED BY <2>1, <3>1, <1>4
  <2>3. CASE ~ok
    <3>1. loads[l].misses = loads[l].tries + 1 /\ loads[l].tries < Rereads  BY <2>1, <1>1 DEF Sighted
    <3>2. loads'[l] = Loading(IF loads[l].tries + 1 < Rereads THEN "reread" ELSE "remove", loads[l].tries + 1, loads[l].misses + 1)
      BY <2>1, <2>3, <1>2, <1>5 DEF Move
    <3>3. CASE loads[l].tries + 1 < Rereads
      <4>1. loads'[l].pc = "reread" /\ loads'[l].misses = loads'[l].tries + 1 /\ loads'[l].tries < Rereads
        BY <3>1, <3>2, <3>3, <1>1, LoadFields
      <4> QED BY <4>1, <2>1, <1>3 DEF Sighted
    <3>4. CASE ~(loads[l].tries + 1 < Rereads)
      <4>1. loads'[l].pc = "remove" /\ loads'[l].misses = Rereads + 1  BY <3>1, <3>2, <3>4, <1>1, LoadFields
      <4> QED BY <4>1, <2>1, <1>3 DEF Sighted
    <3> QED BY <3>3, <3>4
  <2> QED BY <2>2, <2>3
<1>8. CASE RemoveFile(l)
  <2>1. loads[l].misses = Rereads + 1 /\ keyFile' = NoFile  BY <1>8, <1>1 DEF RemoveFile, Sighted
  <2>2. ~Rest  BY <2>1 DEF Rest, NoFile
  <2>3. Settle(l)  BY DEF KeyStep
  <2>4. unread' = loads[l].misses  BY <2>1, <2>2, <2>3, <1>1 DEF Settle, KeyTyped
  <2> QED BY <2>1, <2>4
<1>9. CASE RemoveFails(l)  BY <1>9, <1>4, <1>5 DEF RemoveFails, Move
<1>10. CASE CreateFile(l)  BY <1>10, <1>1, <1>4, <1>5 DEF CreateFile, Move
<1>11. CASE WriteKey(l)  BY <1>11, <1>1 DEF WriteKey, Sighted
<1>12. CASE CannotWrite(l)
  <2>1. keyFile' = keyFile /\ loads'[l] = Loaded("derived")  BY <1>12, <1>1, <1>5 DEF CannotWrite, Move, Sighted
  <2> QED BY <2>1, <1>4
<1>13. CASE LostRace(l)  BY <1>13, <1>4, <1>5 DEF LostRace, Move
<1>14. CASE LoadKilled(l)  BY <1>14, <1>4, <1>5 DEF LoadKilled, Move
<1>15. CASE StartLoad(l)
  <2>1. PICK ok \in BOOLEAN : /\ keyFile' = keyFile
           /\ loads'[l] = IF read_hash_key(ok) # "none" THEN Loaded(read_hash_key(ok)) ELSE Loading("exists", 0, Missed(ok))
    BY <1>15, <1>5 DEF StartLoad, Move
  <2>2. CASE ok  BY <2>1, <2>2, <1>2, <1>4
  <2>3. CASE ~ok
    <3>1. loads'[l] = Loading("exists", 0, 1)  BY <2>1, <2>3, <1>2
    <3> QED BY <2>1, <3>1, <1>3, LoadFields DEF Sighted
  <2> QED BY <2>2, <2>3
<1> QED BY <1>6, <1>7, <1>8, <1>9, <1>10, <1>11, <1>12, <1>13, <1>14, <1>15 DEF KeyStep

\* The inductive invariant of the key file.
THEOREM KeyInvariant == KeySpec => []KeyInv
<1> USE KeyAssumption
<1>1. KeyInit => KeyInv
  <2> SUFFICES ASSUME KeyInit PROVE KeyInv  OBVIOUS
  <2>1. KeyTyped
    <3>1. keyFile \in [by : Loaders \cup {"earlier", "nobody"}, whole : BOOLEAN]
      <4>1. keyFile = NoFile \/ keyFile = KeyFile("earlier", TRUE) \/ keyFile = KeyFile("earlier", FALSE)  BY DEF KeyInit
      <4>2. CASE keyFile = NoFile  BY <4>2 DEF NoFile
      <4>3. CASE keyFile = KeyFile("earlier", TRUE)  BY <4>3 DEF KeyFile
      <4>4. CASE keyFile = KeyFile("earlier", FALSE)  BY <4>4 DEF KeyFile
      <4> QED BY <4>1, <4>2, <4>3, <4>4
    <3>2. keyFile.whole => keyFile.by # "nobody"  BY DEF KeyInit, NoFile, KeyFile
    <3>3. DOMAIN loads = Loaders /\ \A l \in Loaders : loads[l].tries \in Nat /\ loads[l].misses \in Nat
      BY LoadFields DEF KeyInit
    <3> QED BY <3>1, <3>2, <3>3 DEF KeyInit, KeyTyped
  <2>2. \A l \in Loaders : Sighted(l)  BY LoadFields DEF KeyInit, Sighted
  <2>3. settled # "none" => keyFile.whole /\ settled = keyFile.by  BY DEF KeyInit
  <2> QED BY <2>1, <2>2, <2>3, WholeFile DEF KeyInv
<1>2. KeyInv /\ [KeyNext]_keyVars => KeyInv'
  <2> SUFFICES ASSUME KeyInv, [KeyNext]_keyVars PROVE KeyInv'  OBVIOUS
  <2>1. ASSUME NEW l \in Loaders, KeyStep(l) \/ (StartLoad(l) /\ Settle(l)) PROVE KeyInv'
    <3>1. KeyTyped' /\ Settle(l)  BY <2>1, KeyTypedStep DEF KeyInv, KeyStep
    <3>2. CASE Rest
      <4>1. settled' = keyFile'.by  BY <3>1, <3>2 DEF Settle
      <4>2. keyFile' = KeyFile(keyFile'.by, TRUE)  BY <3>1, <3>2 DEF Rest, KeyTyped, KeyFile
      <4> QED BY <3>1, <3>2, <4>1, <4>2 DEF KeyInv, KeyFile, Rest, Sighted
    <3>3. CASE ~Rest
      <4>1. settled' = settled /\ (unread' <= Rereads => unread <= Rereads)  BY <3>1, <3>3 DEF Settle, KeyInv, KeyTyped
      <4>2. ASSUME settled' # "none", unread' <= Rereads
            PROVE  keyFile' = KeyFile(settled', TRUE) /\ \A k \in Loaders : Sighted(k)'
        <5>1. ~(unread' > Rereads)  BY <4>2, <3>1 DEF KeyTyped
        <5>2. keyFile' = keyFile /\ \A k \in Loaders : Sighted(k)'  BY <2>1, <3>3, <4>1, <4>2, <5>1, SettledStep
        <5> QED BY <4>1, <4>2, <5>2 DEF KeyInv, KeyFile
      <4> QED BY <3>1, <4>2 DEF KeyInv
    <3> QED BY <3>2, <3>3
  <2>2. CASE UNCHANGED keyVars  BY <2>2 DEF KeyInv, KeyTyped, Sighted, keyVars
  <2> QED BY <2>1, <2>2 DEF KeyNext
<1> QED BY <1>1, <1>2, PTL DEF KeySpec

\* A key that was whole with no load under way stays in its file through any number of side cars,
\* calls, crashes and failing calls, unless one load fails to read it the first time and at every
\* re-read (redaction.rs:671-685).
THEOREM KeyAlwaysStays == KeySpec => []KeyStays
<1>1. KeyInv => KeyStays  BY DEF KeyInv, KeyStays
<1> QED BY <1>1, KeyInvariant, PTL

\* Until then a load that ends with a call that did not fail returns that key, and one whose last
\* call failed returns it, falls back to the path-derived key, or was killed.
OneKeyForAll ==
  [][\A l \in Loaders : settled # "none" /\ unread <= Rereads /\ loads'[l] # loads[l] /\ loads'[l].pc = "idle" =>
       loads'[l].key \in {settled} \cup (IF keyFaults' = keyFaults THEN {} ELSE {"derived", "none"})]_keyVars

\* Once a key is settled no load makes up another one while it can read the file at all: failing
\* calls cost it the settled key only for the path-derived one (redaction.rs:688-716).
THEOREM LoadsAgree == KeySpec => OneKeyForAll
<1> USE KeyAssumption
<1>1. KeyInv /\ [KeyNext]_keyVars =>
        [\A l \in Loaders : settled # "none" /\ unread <= Rereads /\ loads'[l] # loads[l] /\ loads'[l].pc = "idle" =>
           loads'[l].key \in {settled} \cup (IF keyFaults' = keyFaults THEN {} ELSE {"derived", "none"})]_keyVars
  <2> SUFFICES ASSUME KeyInv, KeyNext, NEW l \in Loaders, settled # "none", unread <= Rereads,
                      loads'[l] # loads[l], loads'[l].pc = "idle"
               PROVE  loads'[l].key \in {settled} \cup (IF keyFaults' = keyFaults THEN {} ELSE {"derived", "none"})
    BY DEF keyVars
  <2>1. PICK k \in Loaders : KeyStep(k) \/ (StartLoad(k) /\ Settle(k))  BY DEF KeyNext
  <2>2. k = l
    BY <2>1 DEF KeyInv, KeyTyped, KeyStep, StartLoad, CheckExists, Reread, RemoveFile, RemoveFails, CreateFile, WriteKey,
               CannotWrite, LostRace, LoadKilled, Move
  <2>3. \A ok \in BOOLEAN : read_hash_key(ok) = IF ok THEN settled ELSE "none"  BY DEF KeyInv, KeyFile, read_hash_key
  <2>4. loads[l].pc # "write" /\ l \in DOMAIN loads  BY DEF KeyInv, Sighted, KeyTyped
  <2>5. \A pc, t, m : Loading(pc, t, m).pc = pc  BY LoadFields
  <2>6. \A key : Loaded(key).key = key  BY LoadFields
  <2>7. CASE CheckExists(l) \/ RemoveFile(l) \/ RemoveFails(l) \/ CreateFile(l)
    <3>1. \E pc \in {"reread", "create", "write", "lost"} : \E t, m : loads'[l] = Loading(pc, t, m)
      BY <2>7, <2>4 DEF CheckExists, RemoveFile, RemoveFails, CreateFile, Move
    <3> QED BY <3>1, <2>5
  <2>8. CASE Reread(l)  BY <2>8, <2>3, <2>4, <2>5, <2>6 DEF Reread, Move
  <2>9. CASE StartLoad(l)  BY <2>9, <2>3, <2>4, <2>5, <2>6 DEF StartLoad, Move
  <2>10. CASE WriteKey(l)  BY <2>10, <2>4 DEF WriteKey
  <2>11. CASE CannotWrite(l) \/ LoadKilled(l)
    <3>1. keyFaults' = keyFaults + 1 /\ keyFaults \in Nat  BY <2>11 DEF CannotWrite, LoadKilled, KeyFault, KeyInv, KeyTyped
    <3>2. keyFaults' # keyFaults  BY <3>1
    <3>3. loads'[l] = Loaded("derived") \/ loads'[l] = Loaded("none")  BY <2>11, <2>4 DEF CannotWrite, LoadKilled, Move
    <3> QED BY <3>2, <3>3, <2>6
  <2>12. CASE LostRace(l)  BY <2>12, <2>3, <2>4, <2>6 DEF LostRace, Move, Call, KeyFault, KeyInv, KeyTyped
  <2> QED BY <2>1, <2>2, <2>7, <2>8, <2>9, <2>10, <2>11, <2>12 DEF KeyStep
<1> QED BY <1>1, KeyInvariant, PTL DEF KeySpec, OneKeyForAll

-----------------------------------------------------------------------------
(* ScriptEngine: what a script comes to.                                   *)

HookResult == [skipped : BOOLEAN, runtimeError : BOOLEAN, edited : BOOLEAN, override : Statements \cup {"none"}, entries : Nat]

\* A statement keeps the result typed; an error stays, and a throw is one.
LEMMA StatementFacts ==
  ASSUME NEW r \in HookResult, NEW op \in Statements
  PROVE  /\ Statement(r, op) \in HookResult /\ Statement(r, op).skipped = r.skipped
         /\ r.runtimeError \/ op = "throw" => Statement(r, op).runtimeError
<1> USE EngineAssumption
<1>1. pushEntry(r) \in HookResult /\ pushEntry(r).skipped = r.skipped /\ pushEntry(r).runtimeError = r.runtimeError
  BY DEF pushEntry, HookResult
<1>2. [r EXCEPT !.runtimeError = TRUE] \in HookResult /\ [r EXCEPT !.runtimeError = TRUE].skipped = r.skipped
      /\ [r EXCEPT !.runtimeError = TRUE].runtimeError
  BY DEF HookResult
<1>3. [r EXCEPT !.edited = TRUE] \in HookResult /\ [r EXCEPT !.edited = TRUE].skipped = r.skipped  BY DEF HookResult
<1>4. [r EXCEPT !.override = op] \in HookResult /\ [r EXCEPT !.override = op].skipped = r.skipped  BY DEF HookResult
<1>5. respond(r, op) \in {pushEntry(r), [r EXCEPT !.runtimeError = TRUE], [r EXCEPT !.override = op]}  BY DEF respond
<1>6. \/ r.runtimeError /\ Statement(r, op) = r
      \/ ~r.runtimeError /\ op = "log" /\ Statement(r, op) = pushEntry(r)
      \/ ~r.runtimeError /\ op = "edit" /\ Statement(r, op) = [r EXCEPT !.edited = TRUE]
      \/ ~r.runtimeError /\ op = "throw" /\ Statement(r, op) = [r EXCEPT !.runtimeError = TRUE]
      \/ ~r.runtimeError /\ op \notin {"log", "edit", "throw"} /\ Statement(r, op) = respond(r, op)
  BY DEF Statement
<1>7. Statement(r, op) \in HookResult /\ Statement(r, op).skipped = r.skipped  BY <1>1, <1>2, <1>3, <1>4, <1>5, <1>6
<1>8. r.runtimeError \/ op = "throw" => Statement(r, op).runtimeError  BY <1>2, <1>6
<1> QED BY <1>7, <1>8

\* Nothing is a result.
LEMMA NothingTyped == Nothing \in HookResult /\ ~Nothing.skipped /\ ~Nothing.runtimeError
<1>2. Nothing.skipped = FALSE /\ Nothing.runtimeError = FALSE  BY DEF Nothing
<1>3. Nothing \in HookResult  BY DEF Nothing, HookResult
<1> QED BY <1>2, <1>3

\* A set that holds 0 and the successor of each of its members holds every number up to N.
LEMMA CountUp ==
  ASSUME NEW N \in Nat, NEW S, 0 \in S, \A n \in 0..N - 1 : n \in S => n + 1 \in S
  PROVE  0..N \subseteq S
<1> DEFINE T == {n \in Nat : n <= N /\ n \notin S}
<1>1. SUFFICES ASSUME T # {} PROVE FALSE  OBVIOUS
<1>2. PICK x \in T : \A y \in T : ~(<<y, x>> \in OpToRel(<, Nat))  BY <1>1, WFMin, NatLessThanWellFounded
<1>3. \A y \in T : ~(y < x)  BY <1>2 DEF OpToRel
<1>4. x # 0 /\ x - 1 \in Nat  OBVIOUS
<1>5. x - 1 \notin T  BY <1>3, <1>4
<1> QED BY <1>4, <1>5

IsAfter(F, body) == F = [k \in 0..Len(body) |-> IF k = 0 THEN Nothing ELSE Statement(F[k - 1], body[k])]

\* The statements of a body can be run one after the other.
LEMMA AfterExists ==
  ASSUME NEW body \in Seq(Statements)
  PROVE  \E F : IsAfter(F, body)
<1> DEFINE Upto(n, F) == F \in [0..n -> HookResult] /\ F[0] = Nothing /\ \A i \in 1..n : F[i] = Statement(F[i - 1], body[i])
           Reached == {n \in Nat : \E F : Upto(n, F)}
<1>0. Len(body) \in Nat /\ \A i \in 1..Len(body) : body[i] \in Statements  OBVIOUS
<1>1. 0 \in Reached
  <2>1. Upto(0, [i \in 0..0 |-> Nothing])  BY NothingTyped
  <2> QED BY <2>1
<1>2. ASSUME NEW n \in 0..Len(body) - 1, n \in Reached PROVE n + 1 \in Reached
  <2>0. n \in Nat /\ n + 1 \in 1..Len(body) /\ body[n + 1] \in Statements  BY <1>0
  <2>1. PICK F : Upto(n, F)  BY <1>2
  <2> DEFINE G == [i \in 0..n + 1 |-> IF i = n + 1 THEN Statement(F[n], body[n + 1]) ELSE F[i]]
  <2>2. Statement(F[n], body[n + 1]) \in HookResult  BY <2>0, <2>1, StatementFacts
  <2>3. G \in [0..n + 1 -> HookResult] /\ G[0] = Nothing /\ G[n + 1] = Statement(F[n], body[n + 1]) /\ \A i \in 0..n : G[i] = F[i]
    BY <2>0, <2>1, <2>2
  <2> HIDE DEF G
  <2>4. \A i \in 1..n + 1 : G[i] = Statement(G[i - 1], body[i])
    <3> TAKE i \in 1..n + 1
    <3>1. CASE i = n + 1  BY <2>0, <2>3, <3>1
    <3>2. CASE i # n + 1
      <4>1. i \in 1..n /\ i \in 0..n /\ i - 1 \in 0..n  BY <2>0, <3>2
      <4> QED BY <2>1, <2>3, <4>1
    <3> QED BY <3>1, <3>2
  <2>5. Upto(n + 1, G)  BY <2>3, <2>4
  <2> HIDE DEF Upto
  <2>6. \E H : Upto(n + 1, H)  BY <2>5
  <2> QED BY <2>0, <2>6
<1> HIDE DEF Reached
<1>3. Len(body) \in Reached
  <2>1. \A n \in 0..Len(body) - 1 : n \in Reached => n + 1 \in Reached  BY <1>2
  <2>2. 0..Len(body) \subseteq Reached  BY <1>0, <1>1, <2>1, CountUp
  <2> QED BY <1>0, <2>2
<1>4. PICK F : Upto(Len(body), F)  BY <1>3 DEF Reached
<1> DEFINE G == [k \in 0..Len(body) |-> IF k = 0 THEN Nothing ELSE Statement(F[k - 1], body[k])]
<1>5. \A k \in 0..Len(body) : F[k] = G[k]
  <2> TAKE k \in 0..Len(body)
  <2>1. CASE k = 0  BY <1>0, <1>4, <2>1
  <2>2. CASE k # 0
    <3>1. k \in 1..Len(body)  BY <1>0, <2>2
    <3> QED BY <1>4, <2>2, <3>1
  <2> QED BY <2>1, <2>2
<1>6. F = G  BY <1>4, <1>5
<1> QED BY <1>6 DEF IsAfter

\* What the function is at a place.
LEMMA AfterAt ==
  ASSUME NEW body, NEW F, IsAfter(F, body), NEW k \in 0..Len(body)
  PROVE  F[k] = IF k = 0 THEN Nothing ELSE Statement(F[k - 1], body[k])
BY DEF IsAfter

\* A body comes to a result that is not a skip, and to an error when one of its statements throws.
LEMMA BodyFacts ==
  ASSUME NEW body \in Seq(Statements)
  PROVE  /\ After(body)[Len(body)] \in HookResult /\ ~After(body)[Len(body)].skipped
         /\ "throw" \in {body[k] : k \in DOMAIN body} => After(body)[Len(body)].runtimeError
<1> DEFINE F == CHOOSE G : IsAfter(G, body)
<1>0. Len(body) \in Nat /\ DOMAIN body = 1..Len(body) /\ \A i \in 1..Len(body) : body[i] \in Statements  OBVIOUS
<1>1. After(body) = F  BY DEF After, IsAfter
<1>2. IsAfter(F, body)
  <2>1. \E G : IsAfter(G, body)  BY AfterExists
  <2> QED BY <2>1, Zenon
<1> HIDE DEF F
<1> DEFINE Good == {n \in Nat : n <= Len(body) => /\ F[n] \in HookResult /\ ~F[n].skipped
                                                   /\ \A j \in 1..n : body[j] = "throw" => F[n].runtimeError}
<1>3. 0 \in Good
  <2>1. F[0] = Nothing  BY <1>0, <1>2, AfterAt
  <2> QED BY <2>1, NothingTyped
<1>4. ASSUME NEW n \in 0..Len(body) - 1, n \in Good PROVE n + 1 \in Good
  <2>1. n \in Nat /\ n + 1 \in 1..Len(body) /\ body[n + 1] \in Statements /\ n + 1 # 0 /\ n + 1 - 1 = n /\ n + 1 \in 0..Len(body)
    BY <1>0
  <2>2. F[n] \in HookResult /\ ~F[n].skipped /\ \A j \in 1..n : body[j] = "throw" => F[n].runtimeError  BY <1>0, <1>4, <2>1
  <2>3. F[n + 1] = Statement(F[n], body[n + 1])
    <3>1. F[n + 1] = IF n + 1 = 0 THEN Nothing ELSE Statement(F[n + 1 - 1], body[n + 1])  BY <1>2, <2>1, AfterAt
    <3> QED BY <2>1, <3>1
  <2>4. /\ F[n + 1] \in HookResult /\ F[n + 1].skipped = F[n].skipped
        /\ F[n].runtimeError \/ body[n + 1] = "throw" => F[n + 1].runtimeError
    BY <2>1, <2>2, <2>3, StatementFacts
  <2>5. ASSUME NEW j \in 1..n + 1, body[j] = "throw" PROVE F[n + 1].runtimeError
    <3>1. j = n + 1 \/ j \in 1..n  BY <2>1
    <3> QED BY <3>1, <2>2, <2>4, <2>5
  <2> QED BY <2>1, <2>2, <2>4, <2>5
<1> HIDE DEF Good
<1>5. Len(body) \in Good
  <2>1. \A n \in 0..Len(body) - 1 : n \in Good => n + 1 \in Good  BY <1>4
  <2>2. 0..Len(body) \subseteq Good  BY <1>0, <1>3, <2>1, CountUp
  <2> QED BY <1>0, <2>2
<1>6. /\ F[Len(body)] \in HookResult /\ ~F[Len(body)].skipped
      /\ \A j \in 1..Len(body) : body[j] = "throw" => F[Len(body)].runtimeError
  BY <1>0, <1>5 DEF Good
<1> QED BY <1>0, <1>1, <1>6

\* A run is skipped only if the runtime does not define the hook; one that threw brings an entry
\* and no change; one that succeeded met no throw.
LEMMA InvokeFacts ==
  ASSUME NEW script \in Scripts
  PROVE  LET r == invoke(script) IN
         /\ r \in HookResult
         /\ r.skipped => script.hook \notin compile_script_rule(script).defines /\ ~r.runtimeError
         /\ r.skipped \/ r.runtimeError => ~r.edited /\ r.override = "none"
         /\ r.runtimeError => r.entries > 0
         /\ ~r.skipped /\ ~r.runtimeError => "throw" \notin {script.body[k] : k \in DOMAIN script.body}
<1> USE EngineAssumption
<1>0. MaxEntries \in Nat /\ MaxEntries > 0 /\ script.body \in Seq(Statements)  OBVIOUS
<1>1. PICK end \in HookResult : end = After(script.body)[Len(script.body)]  BY <1>0, BodyFacts
<1>2. ~end.skipped /\ ("throw" \in {script.body[k] : k \in DOMAIN script.body} => end.runtimeError)  BY <1>0, <1>1, BodyFacts
<1>3. PICK r : r = invoke(script)  OBVIOUS
<1>4. \/ script.hook \notin compile_script_rule(script).defines /\ r = [Nothing EXCEPT !.skipped = TRUE]
      \/ end.runtimeError /\ r = captureHookError(end)
      \/ ~end.runtimeError /\ r = end
  BY <1>1, <1>3 DEF invoke
<1>5. CASE script.hook \notin compile_script_rule(script).defines /\ r = [Nothing EXCEPT !.skipped = TRUE]
  <2>1. r = [skipped |-> TRUE, runtimeError |-> FALSE, edited |-> FALSE, override |-> "none", entries |-> 0]  BY <1>5 DEF Nothing
  <2>3. r \in HookResult  BY <2>1 DEF HookResult
  <2>4. r.skipped = TRUE /\ r.runtimeError = FALSE /\ r.edited = FALSE /\ r.override = "none"  BY <2>1
  <2> QED BY <2>3, <2>4, <1>3, <1>5
<1>6. CASE end.runtimeError /\ r = captureHookError(end)
  <2>1. PICK p \in HookResult : p = pushEntry(end) /\ p.runtimeError /\ ~p.skipped /\ p.entries > 0
    <3>1. pushEntry(end) \in HookResult  BY <1>0 DEF pushEntry, HookResult
    <3>2. pushEntry(end).runtimeError /\ ~pushEntry(end).skipped  BY <1>2, <1>6 DEF pushEntry, HookResult
    <3>3. pushEntry(end).entries = IF end.entries < MaxEntries THEN end.entries + 1 ELSE end.entries  BY DEF pushEntry, HookResult
    <3>4. pushEntry(end).entries > 0  BY <3>3, <1>0 DEF HookResult
    <3> QED BY <3>1, <3>2, <3>4
  <2>2. r = [p EXCEPT !.edited = FALSE, !.override = "none"]  BY <2>1, <1>6 DEF captureHookError
  <2>5. r \in HookResult  BY <2>1, <2>2 DEF HookResult
  <2>6. r.runtimeError = p.runtimeError /\ r.skipped = p.skipped /\ r.entries = p.entries /\ r.edited = FALSE /\ r.override = "none"
    BY <2>1, <2>2 DEF HookResult
  <2>3. r \in HookResult /\ r.runtimeError /\ ~r.skipped /\ r.entries > 0 /\ ~r.edited /\ r.override = "none"  BY <2>1, <2>5, <2>6
  <2> QED BY <2>3, <1>3
<1>7. CASE ~end.runtimeError /\ r = end  BY <1>2, <1>3, <1>7
<1> QED BY <1>4, <1>5, <1>6, <1>7

-----------------------------------------------------------------------------
(* ScriptEngine: the gate.                                                 *)

HookCall == [pc : {"call", "acquire", "sleep", "result", "grace", "done"}, script : Scripts,
             outcome : {"none", "Skipped", "Success", "RuntimeError", "TimedOut", "InvalidResult"}, result : HookResult]
HookThread == [state : {"none", "running", "sent", "ended", "gone"}, cancel : BOOLEAN,
               outcome : {"none", "result", "error", "interrupted", "panic"}, result : HookResult]

\* What a caller was told, against what its thread did.
Told(c, t) ==
  /\ c.result.edited \/ c.result.override # "none" => c.outcome = "Success" /\ t.outcome = "result"
  /\ c.outcome = "Success" => c.result = sanitize_entries(invoke(c.script)) /\ "throw" \notin {c.script.body[k] : k \in DOMAIN c.script.body}
  /\ c.outcome \in {"TimedOut", "RuntimeError", "InvalidResult"} => c.result.entries > 0
  /\ c.result.entries <= MaxEntries
  /\ c.outcome = "Skipped" /\ t.state # "none" => \E f \in c.script.exports : f.kind = "comment"

\* A call and its thread: no thread before the permit, no answer before the end, and the thread of
\* a call runs a hook that the compiler listed and holds what that hook came to.
CallOk(c, t) ==
  /\ c.pc \in {"call", "acquire", "sleep"} => t.state = "none"
  /\ c.pc \in {"result", "grace"} => t.state # "none"
  /\ c.pc # "done" => c.outcome = "none" /\ c.result = Nothing
  /\ c.pc \in {"acquire", "sleep"} \/ t.state # "none" =>
       /\ compile_script_rule(c.script).ok /\ c.script.hook \in compile_script_rule(c.script).entrypoints
  /\ t.state \in {"none", "running"} => t.outcome = "none"
  /\ t.outcome = "result" => t.result = invoke(c.script)
  /\ Told(c, t)

GateInv ==
  /\ available \in Nat /\ IsFiniteSet(LiveThreads) /\ available + Cardinality(LiveThreads) = MaxThreads
  /\ asleep = {h \in HookCalls : calls[h].pc = "sleep"} /\ woken \subseteq asleep /\ IsFiniteSet(woken)
  /\ asleep \ woken # {} => available <= Cardinality(woken)

CallsInv ==
  /\ calls \in [HookCalls -> HookCall] /\ threads \in [HookCalls -> HookThread]
  /\ \A h \in HookCalls : CallOk(calls[h], threads[h])

\* The inductive invariant.
EngineInv == GateInv /\ CallsInv

\* A step that touches one call and its thread needs to be looked at there only.
LEMMA OneCall ==
  ASSUME NEW h \in HookCalls, NEW c \in HookCall, NEW t \in HookThread, CallsInv, CallOk(c, t),
         calls' = [calls EXCEPT ![h] = c], threads' = [threads EXCEPT ![h] = t]
  PROVE  CallsInv'
<1>1. calls' \in [HookCalls -> HookCall] /\ threads' \in [HookCalls -> HookThread]  BY DEF CallsInv
<1>2. \A g \in HookCalls : CallOk(calls'[g], threads'[g])
  <2> SUFFICES ASSUME NEW g \in HookCalls PROVE CallOk(calls'[g], threads'[g])  OBVIOUS
  <2>1. CASE g = h
    <3>1. calls'[g] = c /\ threads'[g] = t  BY <2>1 DEF CallsInv
    <3> QED BY <3>1
  <2>2. CASE g # h
    <3>1. calls'[g] = calls[g] /\ threads'[g] = threads[g]  BY <2>2 DEF CallsInv
    <3> QED BY <3>1 DEF CallsInv
  <2> QED BY <2>1, <2>2
<1> QED BY <1>1, <1>2 DEF CallsInv

\* The sleepers are those the table says are asleep, after a step of one of them too.
LEMMA SleepersAfter ==
  ASSUME NEW h \in HookCalls, NEW c \in HookCall, CallsInv, asleep = {g \in HookCalls : calls[g].pc = "sleep"},
         calls' = [calls EXCEPT ![h] = c],
         asleep' = IF c.pc = "sleep" THEN asleep \cup {h} ELSE asleep \ {h}
  PROVE  asleep' = {g \in HookCalls : calls'[g].pc = "sleep"}
<1>1. \A g \in HookCalls : calls'[g] = IF g = h THEN c ELSE calls[g]  BY DEF CallsInv
<1> QED BY <1>1

\* A thread that is live before and after, or neither, does not change how many are.
LEMMA LiveStays ==
  ASSUME NEW h \in HookCalls, NEW t \in HookThread, CallsInv, threads' = [threads EXCEPT ![h] = t],
         t.state \in {"running", "sent", "ended"} <=> threads[h].state \in {"running", "sent", "ended"}
  PROVE  LiveThreads' = LiveThreads
<1>1. \A g \in HookCalls : threads'[g] = IF g = h THEN t ELSE threads[g]  BY DEF CallsInv
<1> QED BY <1>1 DEF LiveThreads

\* One sleeper less among those not yet told keeps the promise to the others.
LEMMA FewerAsleep ==
  ASSUME NEW h, NEW W, NEW A, NEW n \in Nat, IsFiniteSet(W), n > 0, A \ W # {} => n <= Cardinality(W)
  PROVE  /\ IsFiniteSet(W \ {h})
         /\ (A \ {h}) \ (W \ {h}) # {} => n - 1 <= Cardinality(W \ {h})
<1>1. IsFiniteSet(W \ {h}) /\ Cardinality(W) \in Nat /\ Cardinality(W \ {h}) = IF h \in W THEN Cardinality(W) - 1 ELSE Cardinality(W)
  BY FS_RemoveElement, FS_CardinalityType
<1>2. (A \ {h}) \ (W \ {h}) # {} => A \ W # {}  OBVIOUS
<1> QED BY <1>1, <1>2

\* A permit is taken for a call that has none.
LEMMA TakenKeeps ==
  ASSUME NEW h \in HookCalls, EngineInv, available > 0, calls[h].pc \in {"acquire", "sleep"}, Taken(h),
         asleep' = asleep \ {h}, woken' = woken \ {h}
  PROVE  EngineInv'
<1>1. PICK c \in HookCall : c = calls[h]  BY DEF EngineInv, CallsInv
<1>2. PICK t \in HookThread : t = threads[h]  BY DEF EngineInv, CallsInv
<1>3. CallOk(c, t)  BY <1>1, <1>2 DEF EngineInv, CallsInv
<1>4. PICK c2 : c2 = [c EXCEPT !.pc = "result"]  OBVIOUS
<1>5. PICK t2 : t2 = [t EXCEPT !.state = "running"]  OBVIOUS
<1>6. calls' = [calls EXCEPT ![h] = c2] /\ threads' = [threads EXCEPT ![h] = t2] /\ available' = available - 1
  BY <1>1, <1>2, <1>4, <1>5 DEF Taken, HookAt
<1>7. c2 \in HookCall /\ c2.pc = "result" /\ c2.script = c.script /\ c2.outcome = c.outcome /\ c2.result = c.result
  BY <1>4 DEF HookCall
<1>8. t2 \in HookThread /\ t2.state = "running" /\ t2.outcome = t.outcome /\ t2.result = t.result  BY <1>5 DEF HookThread
<1>9. CallOk(c2, t2)
  <2>1. c.outcome = "none" /\ t.state = "none" /\ t.outcome = "none"  BY <1>1, <1>3 DEF CallOk
  <2>2. Told(c2, t2)  BY <1>3, <1>7, <1>8, <2>1 DEF CallOk, Told
  <2> QED BY <1>1, <1>3, <1>7, <1>8, <2>1, <2>2 DEF CallOk
<1>10. CallsInv'  BY <1>6, <1>7, <1>8, <1>9, OneCall DEF EngineInv
<1>11. LiveThreads' = LiveThreads \cup {h} /\ h \notin LiveThreads
  <2>1. \A g \in HookCalls : threads'[g] = IF g = h THEN t2 ELSE threads[g]  BY <1>6 DEF EngineInv, CallsInv
  <2>2. threads[h].state = "none"  BY <1>1, <1>2, <1>3 DEF CallOk
  <2> QED BY <2>1, <2>2, <1>8 DEF LiveThreads
<1>12. IsFiniteSet(LiveThreads') /\ Cardinality(LiveThreads') = Cardinality(LiveThreads) + 1 /\ Cardinality(LiveThreads) \in Nat
  BY <1>11, FS_AddElement, FS_CardinalityType DEF EngineInv, GateInv
<1>13. available \in Nat /\ MaxThreads \in Nat  BY EngineAssumption DEF EngineInv, GateInv
<1>14. available' \in Nat /\ available' + Cardinality(LiveThreads') = MaxThreads  BY <1>6, <1>12, <1>13 DEF EngineInv, GateInv
<1>15. asleep' = {g \in HookCalls : calls'[g].pc = "sleep"}  BY <1>6, <1>7, SleepersAfter DEF EngineInv, GateInv
<1>16. /\ IsFiniteSet(woken \ {h})
       /\ (asleep \ {h}) \ (woken \ {h}) # {} => available - 1 <= Cardinality(woken \ {h})
  BY <1>13, FewerAsleep DEF EngineInv, GateInv
<1>17. woken' \subseteq asleep' /\ IsFiniteSet(woken') /\ (asleep' \ woken' # {} => available' <= Cardinality(woken'))
  BY <1>6, <1>16 DEF EngineInv, GateInv
<1> QED BY <1>10, <1>12, <1>14, <1>15, <1>17 DEF EngineInv, GateInv

\* A step that moves a caller and no permit: to sleep with no permit left, or out of it.
LEMMA CallerKeeps ==
  ASSUME NEW h \in HookCalls, NEW c \in HookCall, EngineInv, CallOk(c, threads[h]),
         calls' = [calls EXCEPT ![h] = c], threads' = threads, available' = available,
         \/ c.pc = "sleep" /\ available = 0 /\ asleep' = asleep \cup {h} /\ woken' = woken
         \/ c.pc # "sleep" /\ asleep' = asleep \ {h} /\ woken' = woken \ {h} /\ (available = 0 \/ h \notin asleep)
  PROVE  EngineInv'
<1>1. PICK t \in HookThread : t = threads[h]  BY DEF EngineInv, CallsInv
<1>2. threads' = [threads EXCEPT ![h] = t]  BY <1>1 DEF EngineInv, CallsInv
<1>3. CallsInv'  BY <1>1, <1>2, OneCall DEF EngineInv
<1>4. LiveThreads' = LiveThreads  BY DEF LiveThreads
<1>5. asleep' = {g \in HookCalls : calls'[g].pc = "sleep"}  BY SleepersAfter DEF EngineInv, GateInv
<1>6. IsFiniteSet(woken') /\ Cardinality(woken') \in Nat  BY FS_RemoveElement, FS_CardinalityType DEF EngineInv, GateInv
<1>7. woken' \subseteq asleep' /\ (asleep' \ woken' # {} => available' <= Cardinality(woken'))
  <2>1. CASE available = 0  BY <2>1, <1>6 DEF EngineInv, GateInv
  <2>2. CASE available # 0
    <3>1. asleep' = asleep /\ woken' = woken  BY <2>2 DEF EngineInv, GateInv
    <3> QED BY <3>1 DEF EngineInv, GateInv
  <2> QED BY <2>1, <2>2
<1> QED BY <1>3, <1>4, <1>5, <1>6, <1>7 DEF EngineInv, GateInv

\* A step of a thread or a note to it that neither takes nor drops the permit.
LEMMA ThreadKeeps ==
  ASSUME NEW h \in HookCalls, NEW c \in HookCall, NEW t \in HookThread, EngineInv, CallOk(c, t),
         calls' = [calls EXCEPT ![h] = c], threads' = [threads EXCEPT ![h] = t],
         c.pc # "sleep", calls[h].pc # "sleep", UNCHANGED <<available, asleep, woken>>,
         t.state \in {"running", "sent", "ended"} <=> threads[h].state \in {"running", "sent", "ended"}
  PROVE  EngineInv'
<1>1. CallsInv'  BY OneCall DEF EngineInv
<1>2. LiveThreads' = LiveThreads  BY LiveStays DEF EngineInv
<1>3. asleep' = asleep \ {h}  BY DEF EngineInv, GateInv
<1>4. asleep' = {g \in HookCalls : calls'[g].pc = "sleep"}  BY <1>3, SleepersAfter DEF EngineInv, GateInv
<1> QED BY <1>1, <1>2, <1>4 DEF EngineInv, GateInv

\* The answers a caller gets without a result: one entry and no change.
LEMMA FailureTold ==
  LET r == pushEntry(Nothing) IN
  r \in HookResult /\ ~r.edited /\ r.override = "none" /\ r.entries > 0 /\ r.entries <= MaxEntries
<1>1. MaxEntries \in Nat /\ MaxEntries > 0  BY EngineAssumption
<1>2. PICK n \in HookResult : n = Nothing  BY NothingTyped
<1>3. n.edited = FALSE /\ n.override = "none" /\ n.entries = 0  BY <1>2 DEF Nothing
<1>4. PICK r : r = pushEntry(n)  OBVIOUS
<1>5. r = [n EXCEPT !.entries = 1]  BY <1>1, <1>3, <1>4 DEF pushEntry
<1>6. r \in HookResult /\ r.edited = n.edited /\ r.override = n.override /\ r.entries = 1  BY <1>5 DEF HookResult
<1> QED BY <1>1, <1>2, <1>3, <1>4, <1>6

\* A caller whose wait for a permit or for a result ends with a failure.
LEMMA FailedCall ==
  ASSUME NEW h \in HookCalls, EngineInv, NEW outcome \in {"RuntimeError", "TimedOut", "InvalidResult"}, runtime_failure_trace(h, outcome)
  PROVE  \E d \in HookCall : calls' = [calls EXCEPT ![h] = d] /\ d.pc = "done" /\ CallOk(d, threads[h])
<1>1. PICK c \in HookCall : c = calls[h]  BY DEF EngineInv, CallsInv
<1>2. PICK t \in HookThread : t = threads[h]  BY DEF EngineInv, CallsInv
<1>3. PICK r \in HookResult : r = pushEntry(Nothing) /\ ~r.edited /\ r.override = "none" /\ r.entries > 0 /\ r.entries <= MaxEntries
  BY FailureTold
<1>4. PICK d : d = [c EXCEPT !.pc = "done", !.outcome = outcome, !.result = r]  OBVIOUS
<1>5. d \in HookCall /\ d.pc = "done" /\ d.script = c.script /\ d.outcome = outcome /\ d.result = r  BY <1>4 DEF HookCall
<1>6. calls' = [calls EXCEPT ![h] = d]  BY <1>1, <1>3, <1>4 DEF runtime_failure_trace, HookAnswer
<1>7. CallOk(c, t)  BY <1>1, <1>2 DEF EngineInv, CallsInv
<1>8. Told(d, t)  BY <1>3, <1>5 DEF Told
<1>9. CallOk(d, t)  BY <1>5, <1>7, <1>8 DEF CallOk
<1> QED BY <1>2, <1>5, <1>6, <1>9

\* execute_hook before the gate.
LEMMA ExecuteKeeps ==
  ASSUME NEW h \in HookCalls, EngineInv, execute_hook(h)
  PROVE  EngineInv'
<1>1. PICK c \in HookCall : c = calls[h]  BY DEF EngineInv, CallsInv
<1>2. PICK t \in HookThread : t = threads[h]  BY DEF EngineInv, CallsInv
<1>3. CallOk(c, t)  BY <1>1, <1>2 DEF EngineInv, CallsInv
<1>4. c.pc = "call" /\ compile_script_rule(c.script).ok /\ UNCHANGED <<available, asleep, woken, threads>>
  BY <1>1 DEF execute_hook
<1>5. c.outcome = "none" /\ c.result = Nothing /\ t.state = "none" /\ t.outcome = "none"  BY <1>3, <1>4 DEF CallOk
<1>6. h \notin asleep  BY <1>1, <1>4 DEF EngineInv, GateInv
<1>7. asleep' = asleep \ {h} /\ woken' = woken \ {h}  BY <1>4, <1>6 DEF EngineInv, GateInv
<1>10. CASE runtime_failure_trace(h, "InvalidResult")
  <2>1. PICK d \in HookCall : calls' = [calls EXCEPT ![h] = d] /\ d.pc = "done" /\ CallOk(d, t)  BY <1>2, <1>10, FailedCall
  <2> QED BY <2>1, <1>2, <1>4, <1>6, <1>7, CallerKeeps
<1>8. CASE c.script.hook \in compile_script_rule(c.script).entrypoints /\ HookAt(h, "acquire")
  <2>1. PICK d : d = [c EXCEPT !.pc = "acquire"]  OBVIOUS
  <2>2. d \in HookCall /\ d.pc = "acquire" /\ d.script = c.script /\ d.outcome = c.outcome /\ d.result = c.result
    BY <2>1 DEF HookCall
  <2>3. calls' = [calls EXCEPT ![h] = d]  BY <2>1, <1>1, <1>8 DEF HookAt
  <2>4. Told(d, t)  BY <2>2, <1>3, <1>5 DEF CallOk, Told
  <2>5. CallOk(d, t)  BY <2>2, <2>4, <1>3, <1>4, <1>5, <1>8 DEF CallOk
  <2> QED BY <2>2, <2>3, <2>5, <1>2, <1>4, <1>6, <1>7, CallerKeeps
<1>9. CASE c.script.hook \notin compile_script_rule(c.script).entrypoints
  <2>1. PICK r : r = [Nothing EXCEPT !.skipped = TRUE]  OBVIOUS
  <2>2. r = [skipped |-> TRUE, runtimeError |-> FALSE, edited |-> FALSE, override |-> "none", entries |-> 0]  BY <2>1 DEF Nothing
  <2>3. r \in HookResult  BY <2>2 DEF HookResult
  <2>4. r.edited = FALSE /\ r.override = "none" /\ r.entries = 0  BY <2>2
  <2>5. PICK d : d = [c EXCEPT !.pc = "done", !.outcome = "Skipped", !.result = r]  OBVIOUS
  <2>6. d \in HookCall /\ d.pc = "done" /\ d.script = c.script /\ d.outcome = "Skipped" /\ d.result = r
    BY <2>3, <2>5 DEF HookCall
  <2>7. calls' = [calls EXCEPT ![h] = d]  BY <2>1, <2>5, <1>1, <1>9 DEF execute_hook, HookAnswer
  <2>8. MaxEntries \in Nat  BY EngineAssumption
  <2>9. Told(d, t)  BY <2>4, <2>6, <2>8, <1>5 DEF Told
  <2>10. CallOk(d, t)  BY <2>6, <2>9, <1>3, <1>5 DEF CallOk
  <2> QED BY <2>6, <2>7, <2>10, <1>2, <1>4, <1>6, <1>7, CallerKeeps
<1> QED BY <1>1, <1>8, <1>9, <1>10 DEF execute_hook

\* A call moved to another wait keeps its record.
LEMMA MovedCall ==
  ASSUME NEW h \in HookCalls, EngineInv, NEW pc \in {"acquire", "sleep"}, calls[h].pc \in {"acquire", "sleep"}, HookAt(h, pc)
  PROVE  \E d \in HookCall : calls' = [calls EXCEPT ![h] = d] /\ d.pc = pc /\ CallOk(d, threads[h])
<1>1. PICK c \in HookCall : c = calls[h]  BY DEF EngineInv, CallsInv
<1>2. PICK t \in HookThread : t = threads[h]  BY DEF EngineInv, CallsInv
<1>3. CallOk(c, t)  BY <1>1, <1>2 DEF EngineInv, CallsInv
<1>4. PICK d : d = [c EXCEPT !.pc = pc]  OBVIOUS
<1>5. d \in HookCall /\ d.pc = pc /\ d.script = c.script /\ d.outcome = c.outcome /\ d.result = c.result  BY <1>4 DEF HookCall
<1>6. calls' = [calls EXCEPT ![h] = d]  BY <1>1, <1>4 DEF HookAt
<1>7. Told(d, t)  BY <1>3, <1>5 DEF CallOk, Told
<1>8. CallOk(d, t)  BY <1>1, <1>3, <1>5, <1>7 DEF CallOk
<1> QED BY <1>2, <1>5, <1>6, <1>8

\* acquire: a permit or sleep.
LEMMA AcquireKeeps ==
  ASSUME NEW h \in HookCalls, EngineInv, acquire(h)
  PROVE  EngineInv'
<1>1. calls[h].pc = "acquire" /\ h \notin asleep /\ h \notin woken  BY DEF acquire, EngineInv, GateInv
<1>2. CASE available > 0 /\ Taken(h) /\ UNCHANGED <<asleep, woken>>
  <2>1. asleep' = asleep \ {h} /\ woken' = woken \ {h}  BY <1>1, <1>2
  <2> QED BY <1>1, <1>2, <2>1, TakenKeeps
<1>3. CASE available = 0 /\ asleep' = asleep \cup {h} /\ HookAt(h, "sleep") /\ UNCHANGED <<available, woken, threads>>
  <2>1. PICK d \in HookCall : calls' = [calls EXCEPT ![h] = d] /\ d.pc = "sleep" /\ CallOk(d, threads[h])
    BY <1>1, <1>3, MovedCall
  <2> QED BY <1>3, <2>1, CallerKeeps
<1> QED BY <1>2, <1>3 DEF acquire

\* Wake: a permit, an answer at the time-out, or the count is looked at again.
LEMMA WakeKeeps ==
  ASSUME NEW h \in HookCalls, NEW timeout \in BOOLEAN, EngineInv, Wake(h, timeout)
  PROVE  EngineInv'
<1>1. calls[h].pc = "sleep" /\ asleep' = asleep \ {h} /\ woken' = woken \ {h}  BY DEF Wake
<1>2. CASE available > 0 /\ Taken(h)  BY <1>1, <1>2, TakenKeeps
<1>3. CASE available = 0 /\ runtime_failure_trace(h, "RuntimeError") /\ UNCHANGED <<available, threads>>
  <2>1. PICK d \in HookCall : calls' = [calls EXCEPT ![h] = d] /\ d.pc = "done" /\ CallOk(d, threads[h])  BY <1>3, FailedCall
  <2> QED BY <1>1, <1>3, <2>1, CallerKeeps
<1>4. CASE available = 0 /\ HookAt(h, "acquire") /\ UNCHANGED <<available, threads>>
  <2>1. PICK d \in HookCall : calls' = [calls EXCEPT ![h] = d] /\ d.pc = "acquire" /\ CallOk(d, threads[h])
    BY <1>1, <1>4, MovedCall
  <2> QED BY <1>1, <1>4, <2>1, CallerKeeps
<1> QED BY <1>2, <1>3, <1>4 DEF Wake

\* run_script_in_thread: the thread has its outcome, and keeps the permit.
LEMMA RunKeeps ==
  ASSUME NEW h \in HookCalls, NEW how \in {"result", "error", "interrupted", "panic"}, EngineInv, run_script_in_thread(h, how)
  PROVE  EngineInv'
<1>1. PICK c \in HookCall : c = calls[h]  BY DEF EngineInv, CallsInv
<1>2. PICK t \in HookThread : t = threads[h]  BY DEF EngineInv, CallsInv
<1>3. CallOk(c, t)  BY <1>1, <1>2 DEF EngineInv, CallsInv
<1>4. t.state = "running" /\ UNCHANGED <<available, asleep, woken, calls>> /\ c.script \in Scripts
  BY <1>2 DEF run_script_in_thread, HookCall
<1>5. PICK r \in HookResult : r = IF how = "result" THEN invoke(c.script) ELSE Nothing  BY <1>4, InvokeFacts, NothingTyped
<1>6. PICK s \in {"sent", "ended"} : s = IF how = "panic" THEN "ended" ELSE "sent"  OBVIOUS
<1>7. PICK u : u = [t EXCEPT !.state = s, !.outcome = how, !.result = r]  OBVIOUS
<1>8. u \in HookThread /\ u.state = s /\ u.outcome = how /\ u.result = r  BY <1>7 DEF HookThread
<1>9. threads' = [threads EXCEPT ![h] = u]  BY <1>1, <1>2, <1>5, <1>6, <1>7 DEF run_script_in_thread
<1>10. c.pc \notin {"call", "acquire", "sleep"} /\ t.outcome = "none"  BY <1>3, <1>4 DEF CallOk
<1>11. Told(c, u)
  <2>1. ~(c.result.edited \/ c.result.override # "none")  BY <1>3, <1>10 DEF CallOk, Told
  <2> QED BY <2>1, <1>3, <1>4, <1>8 DEF CallOk, Told
<1>12. CallOk(c, u)  BY <1>3, <1>4, <1>5, <1>8, <1>10, <1>11 DEF CallOk
<1>13. calls' = [calls EXCEPT ![h] = c]  BY <1>1, <1>4 DEF EngineInv, CallsInv
<1>14. u.state \in {"running", "sent", "ended"} /\ threads[h].state \in {"running", "sent", "ended"}  BY <1>2, <1>4, <1>8
<1> QED BY <1>1, <1>4, <1>8, <1>9, <1>10, <1>12, <1>13, <1>14, ThreadKeeps

\* ThreadEnds: the permit comes back, and a sleeper that was not told yet is told.
LEMMA EndKeeps ==
  ASSUME NEW h \in HookCalls, EngineInv, ThreadEnds(h)
  PROVE  EngineInv'
<1>1. PICK c \in HookCall : c = calls[h]  BY DEF EngineInv, CallsInv
<1>2. PICK t \in HookThread : t = threads[h]  BY DEF EngineInv, CallsInv
<1>3. CallOk(c, t)  BY <1>1, <1>2 DEF EngineInv, CallsInv
<1>4. t.state \in {"sent", "ended"} /\ drop /\ UNCHANGED <<asleep, calls>>  BY <1>2 DEF ThreadEnds
<1>5. PICK u : u = [t EXCEPT !.state = "gone"]  OBVIOUS
<1>6. u \in HookThread /\ u.state = "gone" /\ u.outcome = t.outcome /\ u.result = t.result  BY <1>5 DEF HookThread
<1>7. threads' = [threads EXCEPT ![h] = u] /\ calls' = [calls EXCEPT ![h] = c]
  <2>1. threads' = [threads EXCEPT ![h] = u]  BY <1>2, <1>5 DEF ThreadEnds
  <2> QED BY <2>1, <1>1, <1>4 DEF EngineInv, CallsInv
<1>8. Told(c, u)  BY <1>3, <1>4, <1>6 DEF CallOk, Told
<1>9. CallOk(c, u)  BY <1>3, <1>4, <1>6, <1>8 DEF CallOk
<1>10. CallsInv'  BY <1>6, <1>7, <1>9, OneCall DEF EngineInv
<1>11. LiveThreads' = LiveThreads \ {h} /\ h \in LiveThreads
  <2>1. \A g \in HookCalls : threads'[g] = IF g = h THEN u ELSE threads[g]  BY <1>7 DEF EngineInv, CallsInv
  <2>2. threads[h].state \in {"sent", "ended"}  BY <1>2, <1>4
  <2> QED BY <2>1, <2>2, <1>6 DEF LiveThreads
<1>12. IsFiniteSet(LiveThreads') /\ Cardinality(LiveThreads') = Cardinality(LiveThreads) - 1 /\ Cardinality(LiveThreads) \in Nat
  BY <1>11, FS_RemoveElement, FS_CardinalityType DEF EngineInv, GateInv
<1>13. available \in Nat /\ MaxThreads \in Nat /\ available' = available + 1
  BY <1>4, EngineAssumption DEF EngineInv, GateInv, drop
<1>14. available' \in Nat /\ available' + Cardinality(LiveThreads') = MaxThreads  BY <1>12, <1>13 DEF EngineInv, GateInv
<1>15. asleep' = {g \in HookCalls : calls'[g].pc = "sleep"}  BY <1>4 DEF EngineInv, GateInv
<1>16. woken' \subseteq asleep' /\ IsFiniteSet(woken') /\ (asleep' \ woken' # {} => available' <= Cardinality(woken'))
  <2>1. CASE asleep \ woken = {}  BY <2>1, <1>4 DEF drop, EngineInv, GateInv
  <2>2. CASE asleep \ woken # {}
    <3>1. PICK g \in asleep \ woken : woken' = woken \cup {g}  BY <2>2, <1>4 DEF drop
    <3>2. IsFiniteSet(woken') /\ Cardinality(woken') = Cardinality(woken) + 1 /\ Cardinality(woken) \in Nat
      BY <3>1, FS_AddElement, FS_CardinalityType DEF EngineInv, GateInv
    <3>3. available <= Cardinality(woken)  BY <2>2 DEF EngineInv, GateInv
    <3>4. available' <= Cardinality(woken')  BY <3>2, <3>3, <1>13
    <3> QED BY <3>1, <3>2, <3>4, <1>4 DEF EngineInv, GateInv
  <2> QED BY <2>1, <2>2
<1> QED BY <1>10, <1>12, <1>14, <1>15, <1>16 DEF EngineInv, GateInv

\* What sanitize_entries and Applied do to a result.
LEMMA SanitizedFacts ==
  ASSUME NEW r \in HookResult
  PROVE  /\ sanitize_entries(r) \in HookResult /\ sanitize_entries(r).entries <= MaxEntries
         /\ r.entries > 0 => sanitize_entries(r).entries > 0
         /\ sanitize_entries(r).skipped = r.skipped /\ sanitize_entries(r).runtimeError = r.runtimeError
         /\ sanitize_entries(r).edited = r.edited /\ sanitize_entries(r).override = r.override
<1>1. MaxEntries \in Nat /\ MaxEntries > 0  BY EngineAssumption
<1>2. PICK n \in Nat : n = IF r.entries < MaxEntries THEN r.entries ELSE MaxEntries  BY <1>1 DEF HookResult
<1>3. PICK s : s = sanitize_entries(r)  OBVIOUS
<1>4. s = [r EXCEPT !.entries = n]  BY <1>2, <1>3 DEF sanitize_entries
<1>5. /\ s \in HookResult /\ s.entries = n /\ s.skipped = r.skipped /\ s.runtimeError = r.runtimeError
      /\ s.edited = r.edited /\ s.override = r.override
  BY <1>4 DEF HookResult
<1>6. n <= MaxEntries /\ (r.entries > 0 => n > 0)  BY <1>1, <1>2 DEF HookResult
<1> QED BY <1>3, <1>5, <1>6

\* A hook the compiler lists and the runtime does not define stands in a comment.
LEMMA CommentOnly ==
  ASSUME NEW script \in Scripts, compile_script_rule(script).ok, script.hook \in compile_script_rule(script).entrypoints,
         script.hook \notin compile_script_rule(script).defines
  PROVE  \E f \in script.exports : f.kind = "comment"
<1>1. PICK f \in script.exports : f.hook = script.hook  BY DEF compile_script_rule, detect_entrypoints
<1>2. f.kind \in HookForms  BY DEF compile_script_rule, detect_entrypoints
<1>3. f.kind \notin HookForms \ {"comment"}  BY <1>1 DEF compile_script_rule, build_runtime_module
<1> QED BY <1>2, <1>3

\* ReceiveResult: the answer is what the thread sent.
LEMMA ReceiveKeeps ==
  ASSUME NEW h \in HookCalls, EngineInv, ReceiveResult(h)
  PROVE  EngineInv'
<1>1. PICK c \in HookCall : c = calls[h]  BY DEF EngineInv, CallsInv
<1>2. PICK t \in HookThread : t = threads[h]  BY DEF EngineInv, CallsInv
<1>3. CallOk(c, t)  BY <1>1, <1>2 DEF EngineInv, CallsInv
<1>4. /\ c.pc \in {"result", "grace"} /\ t.state \in {"sent", "gone"} /\ t.outcome \in {"result", "error", "interrupted"}
      /\ Received(h) /\ UNCHANGED <<available, asleep, woken, threads>> /\ c.script \in Scripts
  BY <1>1, <1>2 DEF ReceiveResult, ResultSent, HookCall
<1>5. h \notin asleep  BY <1>1, <1>4 DEF EngineInv, GateInv
<1>6. asleep' = asleep \ {h} /\ woken' = woken \ {h}  BY <1>4, <1>5 DEF EngineInv, GateInv
<1>7. \E d \in HookCall : calls' = [calls EXCEPT ![h] = d] /\ d.pc = "done" /\ CallOk(d, t)
  <2>1. CASE t.outcome = "interrupted"
    <3>1. runtime_failure_trace(h, "TimedOut")  BY <2>1, <1>2, <1>4 DEF Received
    <3> QED BY <3>1, <1>2, FailedCall
  <2>2. CASE t.outcome = "error"
    <3>1. runtime_failure_trace(h, "RuntimeError")  BY <2>2, <1>2, <1>4 DEF Received
    <3> QED BY <3>1, <1>2, FailedCall
  <2>3. CASE t.outcome = "result"
    <3>1. PICK i \in HookResult : i = invoke(c.script)  BY <1>4, InvokeFacts
    <3>2. /\ i.skipped => c.script.hook \notin compile_script_rule(c.script).defines /\ ~i.runtimeError
          /\ i.skipped \/ i.runtimeError => ~i.edited /\ i.override = "none"
          /\ i.runtimeError => i.entries > 0
          /\ ~i.skipped /\ ~i.runtimeError => "throw" \notin {c.script.body[k] : k \in DOMAIN c.script.body}
      BY <3>1, <1>4, InvokeFacts
    <3>3. PICK r \in HookResult : r = sanitize_entries(i)  BY SanitizedFacts
    <3>4. /\ r.entries <= MaxEntries /\ (i.entries > 0 => r.entries > 0) /\ r.skipped = i.skipped
          /\ r.runtimeError = i.runtimeError /\ r.edited = i.edited /\ r.override = i.override
      BY <3>3, SanitizedFacts
    <3>5. sanitize_entries(threads[h].result) = r  BY <3>1, <3>3, <2>3, <1>2, <1>3 DEF CallOk
    <3>6. PICK a : a = Applied(r)  OBVIOUS
    <3>7. a = r
      <4>1. CASE ~r.runtimeError  BY <4>1, <3>6 DEF Applied
      <4>2. CASE r.runtimeError
        <5>1. a = [r EXCEPT !.edited = FALSE, !.override = "none"] /\ r.edited = FALSE /\ r.override = "none"
          BY <4>2, <3>2, <3>4, <3>6 DEF Applied, HookResult
        <5> QED BY <5>1 DEF HookResult
      <4> QED BY <4>1, <4>2
    <3>8. PICK o \in {"RuntimeError", "Skipped", "Success"} :
            o = IF r.runtimeError THEN "RuntimeError" ELSE IF r.skipped THEN "Skipped" ELSE "Success"
      OBVIOUS
    <3>9. HookAnswer(h, o, r)  BY <3>5, <3>6, <3>7, <3>8, <2>3, <1>2, <1>4 DEF Received
    <3>10. PICK d : d = [c EXCEPT !.pc = "done", !.outcome = o, !.result = r]  OBVIOUS
    <3>11. d \in HookCall /\ d.pc = "done" /\ d.script = c.script /\ d.outcome = o /\ d.result = r  BY <3>10 DEF HookCall
    <3>12. calls' = [calls EXCEPT ![h] = d]  BY <3>9, <3>10, <1>1 DEF HookAnswer
    <3>13. o = "Skipped" => \E f \in c.script.exports : f.kind = "comment"
      BY <3>2, <3>4, <3>8, <1>3, <1>4, CommentOnly DEF CallOk
    <3>14. o = "Success" => ~i.skipped /\ ~i.runtimeError  BY <3>4, <3>8
    <3>15. o # "Success" => i.skipped \/ i.runtimeError  BY <3>4, <3>8
    <3>16. o = "RuntimeError" => i.runtimeError  BY <3>4, <3>8
    <3>17. Told(d, t)
      <4>1. d.result.edited \/ d.result.override # "none" => d.outcome = "Success" /\ t.outcome = "result"
        BY <3>2, <3>4, <3>11, <3>15, <2>3
      <4>2. d.outcome = "Success" => d.result = sanitize_entries(invoke(d.script))
                                     /\ "throw" \notin {d.script.body[k] : k \in DOMAIN d.script.body}
        BY <3>1, <3>2, <3>3, <3>11, <3>14
      <4>3. d.outcome \in {"TimedOut", "RuntimeError", "InvalidResult"} => d.result.entries > 0  BY <3>2, <3>4, <3>8, <3>11, <3>16
      <4>4. d.result.entries <= MaxEntries  BY <3>4, <3>11
      <4>5. d.outcome = "Skipped" => \E f \in d.script.exports : f.kind = "comment"  BY <3>11, <3>13
      <4> QED BY <4>1, <4>2, <4>3, <4>4, <4>5 DEF Told
    <3>18. CallOk(d, t)  BY <3>11, <3>17, <1>3, <1>4 DEF CallOk
    <3> QED BY <3>11, <3>12, <3>18
  <2> QED BY <2>1, <2>2, <2>3, <1>4
<1> QED BY <1>2, <1>4, <1>5, <1>6, <1>7, CallerKeeps

\* FirstTimeout: the thread is told to stop, and keeps its permit.
LEMMA TimeoutKeeps ==
  ASSUME NEW h \in HookCalls, EngineInv, FirstTimeout(h)
  PROVE  EngineInv'
<1>1. PICK c \in HookCall : c = calls[h]  BY DEF EngineInv, CallsInv
<1>2. PICK t \in HookThread : t = threads[h]  BY DEF EngineInv, CallsInv
<1>3. CallOk(c, t)  BY <1>1, <1>2 DEF EngineInv, CallsInv
<1>4. c.pc = "result" /\ UNCHANGED <<available, asleep, woken>>  BY <1>1 DEF FirstTimeout
<1>5. PICK d : d = [c EXCEPT !.pc = "grace"]  OBVIOUS
<1>6. d \in HookCall /\ d.pc = "grace" /\ d.script = c.script /\ d.outcome = c.outcome /\ d.result = c.result
  BY <1>5 DEF HookCall
<1>7. PICK u : u = [t EXCEPT !.cancel = TRUE]  OBVIOUS
<1>8. u \in HookThread /\ u.state = t.state /\ u.outcome = t.outcome /\ u.result = t.result  BY <1>7 DEF HookThread
<1>9. calls' = [calls EXCEPT ![h] = d] /\ threads' = [threads EXCEPT ![h] = u]  BY <1>1, <1>2, <1>5, <1>7 DEF FirstTimeout, HookAt
<1>10. Told(d, u)  BY <1>3, <1>6, <1>8 DEF CallOk, Told
<1>11. CallOk(d, u)  BY <1>3, <1>4, <1>6, <1>8, <1>10 DEF CallOk
<1>12. u.state = threads[h].state  BY <1>2, <1>8
<1> QED BY <1>1, <1>4, <1>6, <1>8, <1>9, <1>11, <1>12, ThreadKeeps

\* GraceTimeout: the caller leaves, the thread keeps its permit.
LEMMA GraceKeeps ==
  ASSUME NEW h \in HookCalls, EngineInv, GraceTimeout(h)
  PROVE  EngineInv'
<1>1. calls[h].pc = "grace" /\ runtime_failure_trace(h, "TimedOut") /\ UNCHANGED <<available, asleep, woken, threads>>
  BY DEF GraceTimeout
<1>2. PICK d \in HookCall : calls' = [calls EXCEPT ![h] = d] /\ d.pc = "done" /\ CallOk(d, threads[h])  BY <1>1, FailedCall
<1>3. h \notin asleep  BY <1>1 DEF EngineInv, GateInv
<1>4. asleep' = asleep \ {h} /\ woken' = woken \ {h}  BY <1>1, <1>3 DEF EngineInv, GateInv
<1> QED BY <1>1, <1>2, <1>3, <1>4, CallerKeeps

\* The gate at the start.
LEMMA EngineStart == EngineInit => EngineInv
<1> SUFFICES ASSUME EngineInit PROVE EngineInv  OBVIOUS
<1>1. MaxThreads \in Nat /\ MaxEntries \in Nat  BY EngineAssumption
<1>2. PICK s \in Scripts : calls = [h \in HookCalls |-> [pc |-> "call", script |-> s, outcome |-> "none", result |-> Nothing]]
  BY DEF EngineInit
<1>3. threads = [h \in HookCalls |-> NoThread] /\ available = MaxThreads /\ asleep = {} /\ woken = {}  BY DEF EngineInit
<1>4. PICK c : c = [pc |-> "call", script |-> s, outcome |-> "none", result |-> Nothing]  OBVIOUS
<1>5. c \in HookCall /\ c.pc = "call" /\ c.outcome = "none" /\ c.result = Nothing  BY <1>4, NothingTyped DEF HookCall
<1>6. PICK t : t = NoThread  OBVIOUS
<1>7. t \in HookThread /\ t.state = "none" /\ t.outcome = "none"  BY <1>6, NothingTyped DEF NoThread, HookThread
<1>8. Nothing.edited = FALSE /\ Nothing.override = "none" /\ Nothing.entries = 0  BY DEF Nothing
<1>9. Told(c, t)  BY <1>1, <1>5, <1>7, <1>8 DEF Told
<1>10. CallOk(c, t)  BY <1>5, <1>7, <1>9 DEF CallOk
<1>11. CallsInv  BY <1>2, <1>3, <1>4, <1>5, <1>6, <1>7, <1>10 DEF CallsInv
<1>12. LiveThreads = {}  BY <1>3, <1>6, <1>7 DEF LiveThreads
<1>13. asleep = {h \in HookCalls : calls[h].pc = "sleep"}  BY <1>2, <1>3, <1>4, <1>5
<1> QED BY <1>1, <1>3, <1>11, <1>12, <1>13, FS_EmptySet DEF EngineInv, GateInv

\* The inductive invariant of the gate.
THEOREM EngineInvariant == EngineSpec => []EngineInv
<1>1. EngineInv /\ [NextEngine]_engineVars => EngineInv'
  <2> SUFFICES ASSUME EngineInv, [NextEngine]_engineVars PROVE EngineInv'  OBVIOUS
  <2>1. CASE NextEngine
    BY <2>1, ExecuteKeeps, AcquireKeeps, WakeKeeps, RunKeeps, EndKeeps, ReceiveKeeps, TimeoutKeeps, GraceKeeps DEF NextEngine
  <2>2. CASE UNCHANGED engineVars  BY <2>2 DEF engineVars, EngineInv, GateInv, CallsInv, LiveThreads
  <2> QED BY <2>1, <2>2
<1> QED BY <1>1, EngineStart, PTL DEF EngineSpec

\* Permits and live threads always add up, no permit stays free past a sleeper that was told of
\* none, and every caller is told what its own thread came to, for any number of calls, permits
\* and entries and any scripts (execute.rs:199, execute.rs:262).
THEOREM HooksAlwaysShareTheGate == EngineSpec => []HooksShareTheGate
<1>1. EngineInv => HooksShareTheGate  BY DEF EngineInv, GateInv, CallsInv, CallOk, Told, HooksShareTheGate
<1> QED BY <1>1, EngineInvariant, PTL

-----------------------------------------------------------------------------
(* Migrations.                                                             *)

UniqueTables == {Unique[k] : k \in 1..Len(Unique)}
MigrationRow == [key : Nat, live : BOOLEAN]
Indexes == UniqueTables \cup {"failure_kind"}
SchemaType == [tables : BOOLEAN, columns : SUBSET Columns, indexes : SUBSET Indexes, ruleFk : SUBSET Rebuilt]
StartPhases == {"closed", "tables", "columns", "collapse", "index", "rebuild", "copying", "restore", "ready"}

MigrationTyped ==
  /\ schema \in SchemaType /\ phase \in StartPhases /\ column \in Nat \ {0}
  /\ earlier \in [UniqueTables -> [RowIds -> MigrationRow]]
  /\ tableRows \in [UniqueTables -> [RowIds -> MigrationRow]]

AfterColumns == {"collapse", "index", "rebuild", "copying", "restore", "ready"}
AfterIndexes == {"rebuild", "copying", "restore", "ready"}

\* How far a start has come is written in the schema, whatever version left the database and
\* whichever starts failed before.
ProgressInv ==
  /\ phase = "tables" => column = 1
  /\ phase = "columns" => \A i \in 1..Len(AddedColumns) : i < column => AddedColumns[i] \in schema.columns
  /\ phase \in AfterColumns => schema.columns = Columns
  /\ phase \in {"collapse", "index"} => column <= Len(Unique) /\ \A k \in 1..Len(Unique) : k < column => Unique[k] \in schema.indexes
  /\ phase \in AfterIndexes => UniqueTables \subseteq schema.indexes
  /\ phase \in {"restore", "ready"} => schema.ruleFk = {}
  /\ phase \in StartPhases \ {"closed", "copying", "restore"} => enforced

\* The rows of one table and key, as they were before this version.
Twins(t, r) == {q \in RowIds : earlier[t][q].key = earlier[t][r].key}

\* An index that exists has no duplicates under it, rows keep their keys, and the first row
\* of every key is as live as it was.
RowsInv ==
  /\ \A t \in UniqueTables : t \in schema.indexes => ~HasDuplicates(t)
  /\ \A t \in UniqueTables : \A r \in RowIds :
       /\ tableRows[t][r].key = earlier[t][r].key
       /\ earlier[t][r].live => tableRows[t][Smallest(Twins(t, r))].live

MigrationInv == MigrationTyped /\ ProgressInv /\ RowsInv /\ sidecar \subseteq inspect_schema

\* The lists of the migrations, without their entries.
LEMMA ListFacts ==
  /\ Len(Unique) = 4 /\ Len(AddedColumns) = 20 /\ FailureIndexAfter = 13
  /\ \A i, j \in 1..Len(Unique) : Unique[i] = Unique[j] => i = j
  /\ \A i \in 1..Len(Unique) : Unique[i] \in UniqueTables
  /\ \A i \in 1..Len(AddedColumns) : AddedColumns[i] \in Columns
  /\ "failure_kind" \notin UniqueTables
  /\ {"throttle_profiles", "api_environment_variables", "api_global_variables", "session_details"} = UniqueTables
<1>1. Len(Unique) = 4 /\ FailureIndexAfter = 13  BY DEF Unique, FailureIndexAfter
<1>2. /\ Unique[1] = "throttle_profiles" /\ Unique[2] = "api_environment_variables"
      /\ Unique[3] = "api_global_variables" /\ Unique[4] = "session_details"
  BY DEF Unique
<1>3. Len(AddedColumns) = 20  BY DEF AddedColumns
<1>4. 1..4 = {1, 2, 3, 4}  OBVIOUS
<1>5. UniqueTables = {Unique[1], Unique[2], Unique[3], Unique[4]}  BY <1>1, <1>4 DEF UniqueTables
<1>6. \A i \in 1..Len(AddedColumns) : AddedColumns[i] \in Columns  BY DEF Columns
<1>7. \A i, j \in 1..Len(Unique) : Unique[i] = Unique[j] => i = j  BY <1>1, <1>2, <1>4
<1> QED BY <1>1, <1>2, <1>3, <1>4, <1>5, <1>6, <1>7

\* Smallest is the least member, and the only one.
LEMMA SmallestFacts ==
  ASSUME NEW S \in SUBSET Nat, S # {}
  PROVE  Smallest(S) \in S /\ \A y \in S : Smallest(S) <= y
<1>1. PICK x \in S : \A y \in S : ~(<<y, x>> \in OpToRel(<, Nat))  BY WFMin, NatLessThanWellFounded
<1>2. ASSUME NEW y \in S PROVE x <= y
  <2>1. x \in Nat /\ y \in Nat  OBVIOUS
  <2>2. ~(y < x)  BY <1>1, <2>1 DEF OpToRel
  <2> QED BY <2>1, <2>2
<1> QED BY <1>2 DEF Smallest

LEMMA SmallestIs ==
  ASSUME NEW S \in SUBSET Nat, NEW m \in S, \A y \in S : m <= y
  PROVE  Smallest(S) = m
<1>1. Smallest(S) \in S /\ \A y \in S : Smallest(S) <= y  BY SmallestFacts
<1>2. PICK n \in S : n = Smallest(S)  BY <1>1
<1>3. n <= m /\ m <= n /\ n \in Nat /\ m \in Nat  BY <1>1, <1>2
<1> QED BY <1>2, <1>3

\* A schema that only grows never takes a capability back from the sidecar.
LEMMA SidecarStays ==
  ASSUME sidecar \subseteq inspect_schema, sidecar' = sidecar, schema.tables => schema'.tables, schema.columns \subseteq schema'.columns
  PROVE  (sidecar \subseteq inspect_schema)'
<1>1. ASSUME NEW t, NEW needed, table_has_columns(t, needed) PROVE table_has_columns(t, needed)'
  BY <1>1 DEF table_has_columns, table_exists
<1>2. ASSUME NEW t, table_exists(t) PROVE table_exists(t)'  BY <1>2 DEF table_exists
<1>3. ASSUME NEW c \in inspect_schema PROVE c \in inspect_schema'  BY <1>1, <1>2, <1>3 DEF inspect_schema
<1> QED BY <1>3

\* A step that leaves the rows alone builds an index only where there are no duplicates.
LEMMA RowsStay ==
  ASSUME MigrationInv, tableRows' = tableRows, earlier' = earlier,
         \A t \in UniqueTables : t \in schema'.indexes => t \in schema.indexes \/ ~HasDuplicates(t)
  PROVE  RowsInv'
<1>1. ASSUME NEW t \in UniqueTables PROVE HasDuplicates(t)' <=> HasDuplicates(t)  BY DEF HasDuplicates, SameKey, LiveRows
<1>2. ASSUME NEW t \in UniqueTables, NEW r \in RowIds PROVE Smallest(Twins(t, r))' = Smallest(Twins(t, r))  BY DEF Twins, Smallest
<1> QED BY <1>1, <1>2 DEF MigrationInv, RowsInv

\* What a collapse does to the rows of its table and to the others.
LEMMA KeepFirstFacts ==
  ASSUME MigrationTyped, NEW t \in UniqueTables, KeepFirst(t)
  PROVE  /\ tableRows' \in [UniqueTables -> [RowIds -> MigrationRow]]
         /\ \A s \in UniqueTables \ {t} : tableRows'[s] = tableRows[s]
         /\ \A r \in RowIds : /\ tableRows'[t][r].key = tableRows[t][r].key
                              /\ tableRows'[t][r].live <=> tableRows[t][r].live /\ r = Smallest(SameKey(t, r))
<1>1. PICK f : f = [r \in RowIds |-> [tableRows[t][r] EXCEPT !.live = tableRows[t][r].live /\ r = Smallest(SameKey(t, r))]]
  OBVIOUS
<1>2. tableRows' = [tableRows EXCEPT ![t] = f]  BY <1>1 DEF KeepFirst
<1>3. tableRows \in [UniqueTables -> [RowIds -> MigrationRow]]  BY DEF MigrationTyped
<1>4. ASSUME NEW r \in RowIds
      PROVE  f[r] \in MigrationRow /\ f[r].key = tableRows[t][r].key /\ (f[r].live <=> tableRows[t][r].live /\ r = Smallest(SameKey(t, r)))
  <2>1. PICK row \in MigrationRow : row = tableRows[t][r]  BY <1>3
  <2>2. f[r] = [row EXCEPT !.live = row.live /\ r = Smallest(SameKey(t, r))]  BY <1>1, <2>1 DEF MigrationRow
  <2> QED BY <2>1, <2>2 DEF MigrationRow
<1>5. f \in [RowIds -> MigrationRow]  BY <1>1, <1>4
<1> QED BY <1>2, <1>3, <1>4, <1>5

\* A collapse keeps the first row of every key, and never makes a duplicate.
LEMMA CollapseKeepsRows ==
  ASSUME MigrationInv, NEW t \in UniqueTables, KeepFirst(t), schema' = schema, earlier' = earlier
  PROVE  RowsInv' /\ tableRows' \in [UniqueTables -> [RowIds -> MigrationRow]]
<1> USE DEF MigrationInv
<1>1. /\ tableRows' \in [UniqueTables -> [RowIds -> MigrationRow]]
      /\ \A s \in UniqueTables \ {t} : tableRows'[s] = tableRows[s]
      /\ \A r \in RowIds : /\ tableRows'[t][r].key = tableRows[t][r].key
                           /\ tableRows'[t][r].live <=> tableRows[t][r].live /\ r = Smallest(SameKey(t, r))
  BY KeepFirstFacts
<1>2. /\ tableRows \in [UniqueTables -> [RowIds -> MigrationRow]]
      /\ earlier \in [UniqueTables -> [RowIds -> MigrationRow]]
  BY DEF MigrationTyped
<1>3. ASSUME NEW s \in UniqueTables, s \in schema.indexes PROVE ~HasDuplicates(s)'
  <2>1. ~HasDuplicates(s)  BY <1>3 DEF RowsInv
  <2>2. CASE s # t  BY <1>1, <2>1, <2>2 DEF HasDuplicates, SameKey, LiveRows
  <2>3. CASE s = t
    <3>1. LiveRows(s)' \subseteq LiveRows(s)  BY <1>1, <2>3 DEF LiveRows
    <3>2. ASSUME NEW r \in LiveRows(s)' PROVE SameKey(s, r)' = {r}
      <4>1. SameKey(s, r) = {r} /\ r \in RowIds  BY <2>1, <3>1, <3>2 DEF HasDuplicates, LiveRows
      <4>2. SameKey(s, r)' \subseteq SameKey(s, r) /\ r \in SameKey(s, r)'  BY <1>1, <2>3, <3>1, <3>2, <4>1 DEF SameKey, LiveRows
      <4> QED BY <4>1, <4>2
    <3> QED BY <3>2 DEF HasDuplicates
  <2> QED BY <2>2, <2>3
<1>4. ASSUME NEW s \in UniqueTables, NEW r \in RowIds
      PROVE  /\ tableRows'[s][r].key = earlier'[s][r].key
             /\ earlier'[s][r].live => tableRows'[s][Smallest(Twins(s, r))'].live
  <2>1. tableRows[s][r].key = earlier[s][r].key /\ (earlier[s][r].live => tableRows[s][Smallest(Twins(s, r))].live)
    BY DEF RowsInv
  <2>2. Smallest(Twins(s, r))' = Smallest(Twins(s, r))  BY DEF Twins, Smallest
  <2>3. CASE s # t  BY <1>1, <2>1, <2>2, <2>3
  <2>4. CASE s = t
    <3>1. PICK m : m = Smallest(Twins(s, r))  OBVIOUS
    <3>2. Twins(s, r) \in SUBSET Nat /\ Twins(s, r) \in SUBSET RowIds /\ r \in Twins(s, r)  BY MigrationAssumption DEF Twins
    <3>3. m \in Twins(s, r) /\ \A y \in Twins(s, r) : m <= y  BY <3>1, <3>2, SmallestFacts
    <3>4. ASSUME earlier[s][r].live PROVE m = Smallest(SameKey(t, m)) /\ tableRows[t][m].live
      <4>1. tableRows[t][m].live /\ m \in RowIds  BY <2>1, <2>4, <3>1, <3>2, <3>3, <3>4
      <4>2. \A q \in RowIds : tableRows[t][q].key = earlier[t][q].key  BY DEF RowsInv
      <4>3. SameKey(t, m) \subseteq Twins(s, r) /\ m \in SameKey(t, m)  BY <2>4, <3>3, <4>1, <4>2 DEF SameKey, LiveRows, Twins
      <4>4. SameKey(t, m) \in SUBSET Nat /\ \A y \in SameKey(t, m) : m <= y  BY <3>2, <3>3, <4>3
      <4> QED BY <4>1, <4>3, <4>4, SmallestIs
    <3>5. m \in RowIds  BY <3>2, <3>3
    <3> QED BY <1>1, <2>1, <2>2, <2>4, <3>1, <3>4, <3>5
  <2> QED BY <2>3, <2>4
<1> QED BY <1>1, <1>3, <1>4 DEF RowsInv

\* The first statements of a start: tables, columns and the index over a new column.
LEMMA ColumnSteps ==
  ASSUME MigrationInv, open_database \/ CreateTables \/ migrate_add_column \/ CreateFailureIndex \/ ColumnsDone
  PROVE  MigrationInv'
<1> USE ListFacts DEF StartPhases, AfterColumns, AfterIndexes
<1>1. MigrationTyped /\ ProgressInv /\ RowsInv /\ sidecar \subseteq inspect_schema  BY DEF MigrationInv
<1>2. /\ schema \in SchemaType /\ column \in Nat \ {0} /\ phase \in StartPhases  BY <1>1 DEF MigrationTyped
<1>3. tableRows' = tableRows /\ earlier' = earlier /\ sidecar' = sidecar
  BY DEF open_database, CreateTables, migrate_add_column, CreateFailureIndex, ColumnsDone
<1>4. ASSUME schema' \in SchemaType, schema'.ruleFk = schema.ruleFk, schema.tables => schema'.tables, schema.columns \subseteq schema'.columns,
             \A t \in UniqueTables : t \in schema'.indexes => t \in schema.indexes,
             phase' \in StartPhases, column' \in Nat \ {0}, ProgressInv'
      PROVE  MigrationInv'
  BY <1>1, <1>3, <1>4, RowsStay, SidecarStays DEF MigrationInv, MigrationTyped
<1>5. CASE open_database  BY <1>2, <1>4, <1>5 DEF open_database, Advance, ProgressInv
<1>6. CASE CreateTables
  <2>1. schema' = [schema EXCEPT !.tables = TRUE] /\ phase = "tables" /\ phase' = "columns" /\ UNCHANGED <<column, enforced>>
    BY <1>6 DEF CreateTables, Advance
  <2>2. schema' \in SchemaType /\ schema'.ruleFk = schema.ruleFk /\ schema'.tables /\ schema'.columns = schema.columns /\ schema'.indexes = schema.indexes
    BY <1>2, <2>1 DEF SchemaType
  <2>3. ProgressInv'  BY <1>1, <2>1, <2>2 DEF ProgressInv
  <2> QED BY <1>2, <1>4, <2>1, <2>2, <2>3
<1>7. CASE migrate_add_column
  <2>1. /\ phase = "columns" /\ phase' = "columns" /\ enforced' = enforced /\ column \in 1..Len(AddedColumns) /\ column' = column + 1
        /\ schema' = IF column_exists(AddedColumns[column]) THEN schema ELSE [schema EXCEPT !.columns = @ \cup {AddedColumns[column]}]
    BY <1>2, <1>7 DEF migrate_add_column
  <2>2. AddedColumns[column] \in Columns  BY <2>1
  <2>3. /\ schema' \in SchemaType /\ schema'.ruleFk = schema.ruleFk /\ schema'.tables = schema.tables /\ schema'.indexes = schema.indexes
        /\ schema'.columns = schema.columns \cup {AddedColumns[column]}
    <3>1. CASE AddedColumns[column] \in schema.columns  BY <1>2, <2>1, <2>2, <3>1 DEF SchemaType, column_exists
    <3>2. CASE AddedColumns[column] \notin schema.columns
      <4>1. PICK c \in Columns : c = AddedColumns[column]  BY <2>2
      <4>2. schema' = [schema EXCEPT !.columns = @ \cup {c}]  BY <2>1, <3>2, <4>1 DEF column_exists
      <4>3. schema.columns \cup {c} \subseteq Columns  BY <1>2 DEF SchemaType
      <4> QED BY <1>2, <4>1, <4>2, <4>3 DEF SchemaType
    <3> QED BY <3>1, <3>2
  <2>4. ProgressInv'
    <3>1. ASSUME NEW i \in 1..Len(AddedColumns), i < column + 1 PROVE AddedColumns[i] \in schema'.columns
      <4>1. i < column \/ i = column  BY <1>2, <3>1
      <4> QED BY <1>1, <2>1, <2>3, <4>1 DEF ProgressInv
    <3> QED BY <1>1, <2>1, <3>1 DEF ProgressInv
  <2> QED BY <1>2, <1>4, <2>1, <2>3, <2>4
<1>8. CASE CreateFailureIndex
  <2>1. phase = "columns" /\ schema' = [schema EXCEPT !.indexes = @ \cup {"failure_kind"}] /\ UNCHANGED <<phase, column, enforced>>
    BY <1>8 DEF CreateFailureIndex
  <2>2. /\ schema' \in SchemaType /\ schema'.ruleFk = schema.ruleFk /\ schema'.tables = schema.tables /\ schema'.columns = schema.columns
        /\ schema'.indexes = schema.indexes \cup {"failure_kind"}
    BY <1>2, <2>1 DEF SchemaType, Indexes
  <2>3. ProgressInv'  BY <1>1, <2>1, <2>2 DEF ProgressInv
  <2> QED BY <1>2, <1>4, <2>1, <2>2, <2>3
<1>9. CASE ColumnsDone
  <2>1. phase = "columns" /\ column > Len(AddedColumns) /\ phase' = "collapse" /\ column' = 1 /\ UNCHANGED <<schema, enforced>>
    BY <1>9 DEF ColumnsDone
  <2>2. \A i \in 1..Len(AddedColumns) : AddedColumns[i] \in schema.columns  BY <1>1, <1>2, <2>1 DEF ProgressInv
  <2>3. schema.columns = Columns  BY <1>2, <2>2 DEF Columns, SchemaType
  <2>4. ProgressInv'  BY <1>1, <2>1, <2>3 DEF ProgressInv
  <2> QED BY <1>2, <1>4, <2>1, <2>4
<1> QED BY <1>5, <1>6, <1>7, <1>8, <1>9

\* Duplicates collapse, then their index is built.
LEMMA IndexSteps ==
  ASSUME MigrationInv, Collapse \/ CreateUniqueIndex
  PROVE  MigrationInv'
<1> USE ListFacts DEF StartPhases, AfterColumns, AfterIndexes
<1>1. MigrationTyped /\ ProgressInv /\ RowsInv /\ sidecar \subseteq inspect_schema  BY DEF MigrationInv
<1>2. /\ schema \in SchemaType /\ column \in Nat \ {0} /\ phase \in StartPhases  BY <1>1 DEF MigrationTyped
<1>3. CASE Collapse
  <2>1. phase = "collapse" /\ phase' = "index" /\ UNCHANGED <<schema, enforced, column, sidecar, earlier>>
    BY <1>3 DEF Collapse, Advance
  <2>2. ProgressInv'  BY <1>1, <2>1 DEF ProgressInv
  <2>3. (sidecar \subseteq inspect_schema)'  BY <1>1, <2>1, SidecarStays
  <2>4. \/ KeepFirst("throttle_profiles") \/ KeepFirst("api_environment_variables") \/ KeepFirst("api_global_variables")
        \/ KeepFirst("session_details") \/ tableRows' = tableRows
    BY <1>3 DEF Collapse, collapse_duplicate_enabled_throttle_profiles, collapse_duplicate_env_variables,
                collapse_duplicate_global_variables, collapse_duplicate_session_details
  <2>5. (\E t \in UniqueTables : KeepFirst(t)) \/ tableRows' = tableRows  BY <2>4
  <2>6. RowsInv' /\ tableRows' \in [UniqueTables -> [RowIds -> MigrationRow]]
    <3>1. CASE \E t \in UniqueTables : KeepFirst(t)  BY <2>1, <3>1, CollapseKeepsRows
    <3>2. CASE tableRows' = tableRows  BY <1>1, <2>1, <3>2, RowsStay DEF MigrationTyped
    <3> QED BY <2>5, <3>1, <3>2
  <2> QED BY <1>1, <2>1, <2>2, <2>3, <2>6 DEF MigrationInv, MigrationTyped
<1>4. CASE CreateUniqueIndex
  <2>1. PICK t : t = Unique[column]  OBVIOUS
  <2>2. /\ phase = "index" /\ (t \in schema.indexes \/ ~HasDuplicates(t)) /\ schema' = [schema EXCEPT !.indexes = @ \cup {t}]
        /\ column' = column + 1 /\ phase' = (IF column = Len(Unique) THEN "rebuild" ELSE "collapse")
        /\ UNCHANGED <<tableRows, enforced, sidecar, earlier>>
    BY <1>4, <2>1 DEF CreateUniqueIndex
  <2>3. column \in 1..Len(Unique) /\ t \in UniqueTables  BY <1>1, <1>2, <2>1, <2>2 DEF ProgressInv
  <2>4. /\ schema' \in SchemaType /\ schema'.ruleFk = schema.ruleFk /\ schema'.tables = schema.tables /\ schema'.columns = schema.columns
        /\ schema'.indexes = schema.indexes \cup {t}
    BY <1>2, <2>2, <2>3 DEF SchemaType, Indexes
  <2>5. RowsInv'  BY <2>2, <2>4, RowsStay
  <2>6. (sidecar \subseteq inspect_schema)'  BY <1>1, <2>2, <2>4, SidecarStays
  <2>7. \A k \in 1..Len(Unique) : k < column + 1 => Unique[k] \in schema'.indexes
    <3>1. ASSUME NEW k \in 1..Len(Unique), k < column + 1 PROVE Unique[k] \in schema'.indexes
      <4>1. k < column \/ k = column  BY <1>2, <3>1
      <4> QED BY <1>1, <2>1, <2>2, <2>4, <4>1 DEF ProgressInv
    <3> QED BY <3>1
  <2>8. CASE column = Len(Unique)
    <3>1. UniqueTables \subseteq schema'.indexes  BY <2>7, <2>8 DEF UniqueTables
    <3>2. ProgressInv'  BY <1>1, <2>2, <2>4, <2>8, <3>1 DEF ProgressInv
    <3> QED BY <1>1, <1>2, <2>2, <2>4, <2>5, <2>6, <2>8, <3>2 DEF MigrationInv, MigrationTyped
  <2>9. CASE column # Len(Unique)
    <3>1. column' <= Len(Unique)  BY <1>2, <2>2, <2>3, <2>9
    <3>2. ProgressInv'  BY <1>1, <2>2, <2>4, <2>7, <2>9, <3>1 DEF ProgressInv
    <3> QED BY <1>1, <1>2, <2>2, <2>4, <2>5, <2>6, <2>9, <3>2 DEF MigrationInv, MigrationTyped
  <2> QED BY <2>8, <2>9
<1> QED BY <1>3, <1>4

\* The rebuild without the rule keys, and every way a start can end.
LEMMA RebuildSteps ==
  ASSUME MigrationInv,
         \/ ForeignKeysOff \/ REWRITE_RUNS_REBUILD \/ MAP_RUNS_REBUILD \/ CommitRebuild
         \/ AbortRebuild \/ ForeignKeysOn \/ StartEnds \/ DiesInRebuild
  PROVE  MigrationInv'
<1> USE DEF StartPhases, AfterColumns, AfterIndexes
<1>1. MigrationTyped /\ ProgressInv /\ RowsInv /\ sidecar \subseteq inspect_schema  BY DEF MigrationInv
<1>2. /\ schema \in SchemaType /\ column \in Nat \ {0} /\ phase \in StartPhases  BY <1>1 DEF MigrationTyped
<1>3. UNCHANGED <<tableRows, column, sidecar, earlier>>
  BY DEF ForeignKeysOff, REWRITE_RUNS_REBUILD, MAP_RUNS_REBUILD, CommitRebuild, AbortRebuild, ForeignKeysOn, StartEnds, DiesInRebuild
<1>4. ASSUME schema' \in SchemaType, schema'.tables = schema.tables, schema'.columns = schema.columns, schema'.indexes = schema.indexes,
             phase' \in StartPhases, ProgressInv'
      PROVE  MigrationInv'
  BY <1>1, <1>3, <1>4, RowsStay, SidecarStays DEF MigrationInv, MigrationTyped
<1>5. CASE CommitRebuild
  <2>1. phase = "copying" /\ phase' = "restore" /\ copied = schema.ruleFk /\ schema' = [schema EXCEPT !.ruleFk = @ \ copied]
    BY <1>5 DEF CommitRebuild
  <2>2. /\ schema' \in SchemaType /\ schema'.tables = schema.tables /\ schema'.columns = schema.columns /\ schema'.indexes = schema.indexes
        /\ schema'.ruleFk = {}
    BY <1>2, <2>1 DEF SchemaType
  <2>3. ProgressInv'  BY <1>1, <1>3, <2>1, <2>2 DEF ProgressInv
  <2> QED BY <1>4, <2>1, <2>2, <2>3
<1>6. CASE ForeignKeysOff  BY <1>1, <1>2, <1>3, <1>4, <1>6 DEF ForeignKeysOff, foreign_key_references, ProgressInv
<1>7. CASE REWRITE_RUNS_REBUILD \/ MAP_RUNS_REBUILD
  BY <1>1, <1>2, <1>3, <1>4, <1>7 DEF REWRITE_RUNS_REBUILD, MAP_RUNS_REBUILD, ProgressInv
<1>8. CASE AbortRebuild \/ StartEnds \/ DiesInRebuild
  BY <1>1, <1>2, <1>3, <1>4, <1>8 DEF AbortRebuild, StartEnds, DiesInRebuild, ProgressInv
<1>9. CASE ForeignKeysOn  BY <1>1, <1>2, <1>3, <1>4, <1>9 DEF ForeignKeysOn, Advance, ProgressInv
<1> QED BY <1>5, <1>6, <1>7, <1>8, <1>9

\* Whatever an older version left: duplicates only where no index forbade them.
LEMMA MigrationStarts == MigrationInit => MigrationInv
<1> SUFFICES ASSUME MigrationInit PROVE MigrationInv  OBVIOUS
<1> USE ListFacts
<1>0. PICK n \in {0, 9, 13, Len(AddedColumns)}, i \in 0..Len(Unique), fk \in SUBSET Rebuilt :
        /\ schema = [tables |-> n > 0, columns |-> {AddedColumns[k] : k \in 1..n},
                     indexes |-> {Unique[k] : k \in 1..i} \cup (IF n > 13 THEN {"failure_kind"} ELSE {}),
                     ruleFk |-> IF n > 0 THEN fk ELSE {}]
        /\ \E hits \in SUBSET {Unique[k] : k \in (i + 1)..Len(Unique)} :
             tableRows = [t \in {Unique[k] : k \in 1..Len(Unique)} |-> [r \in RowIds |->
                            [key |-> IF t \in hits THEN Smallest(RowIds) ELSE r, live |-> n > 0]]]
  BY DEF MigrationInit
<1>1. PICK hits \in SUBSET {Unique[k] : k \in (i + 1)..Len(Unique)} :
             tableRows = [t \in {Unique[k] : k \in 1..Len(Unique)} |-> [r \in RowIds |->
                            [key |-> IF t \in hits THEN Smallest(RowIds) ELSE r, live |-> n > 0]]]
  BY <1>0
<1>2. phase = "closed" /\ column = 1 /\ sidecar = {} /\ earlier = tableRows  BY DEF MigrationInit
<1>3. schema \in SchemaType
  <2>1. {AddedColumns[k] : k \in 1..n} \subseteq Columns  BY <1>0
  <2>2. {Unique[k] : k \in 1..i} \cup (IF n > 13 THEN {"failure_kind"} ELSE {}) \subseteq Indexes  BY <1>0 DEF Indexes
  <2>3. (n > 0) \in BOOLEAN /\ (IF n > 0 THEN fk ELSE {}) \subseteq Rebuilt  BY <1>0
  <2> QED BY <1>0, <2>1, <2>2, <2>3 DEF SchemaType
<1>4. RowIds # {} => Smallest(RowIds) \in Nat  BY MigrationAssumption, SmallestFacts
<1>5. tableRows = [t \in UniqueTables |-> [r \in RowIds |-> [key |-> IF t \in hits THEN Smallest(RowIds) ELSE r, live |-> n > 0]]]
  BY <1>1 DEF UniqueTables
<1>6. \A t \in UniqueTables, r \in RowIds : /\ tableRows[t][r].key = (IF t \in hits THEN Smallest(RowIds) ELSE r)
                                            /\ tableRows[t][r].live <=> n > 0
  BY <1>5
<1>7. tableRows \in [UniqueTables -> [RowIds -> MigrationRow]]
  <2>1. ASSUME NEW t \in UniqueTables, NEW r \in RowIds
        PROVE  [key |-> IF t \in hits THEN Smallest(RowIds) ELSE r, live |-> n > 0] \in MigrationRow
    <3>1. (IF t \in hits THEN Smallest(RowIds) ELSE r) \in Nat /\ (n > 0) \in BOOLEAN  BY <1>4, MigrationAssumption
    <3> QED BY <3>1 DEF MigrationRow
  <2> QED BY <1>5, <2>1
<1>8. ASSUME NEW t \in UniqueTables, t \in schema.indexes PROVE ~HasDuplicates(t)
  <2>1. t \in {Unique[k] : k \in 1..i}  BY <1>0, <1>8
  <2>2. t \notin hits  BY <1>1, <2>1
  <2>3. \A r \in RowIds : tableRows[t][r].key = r  BY <1>6, <2>2
  <2> QED BY <2>3 DEF HasDuplicates, SameKey, LiveRows
<1>9. ASSUME NEW t \in UniqueTables, NEW r \in RowIds, earlier[t][r].live PROVE tableRows[t][Smallest(Twins(t, r))].live
  <2>1. Twins(t, r) \in SUBSET Nat /\ Twins(t, r) \in SUBSET RowIds /\ r \in Twins(t, r)  BY MigrationAssumption DEF Twins
  <2>2. PICK m \in RowIds : m = Smallest(Twins(t, r))  BY <2>1, SmallestFacts
  <2> QED BY <1>2, <1>6, <1>9, <2>2
<1>10. RowsInv  BY <1>2, <1>8, <1>9 DEF RowsInv
<1> QED BY <1>2, <1>3, <1>7, <1>10 DEF MigrationInv, MigrationTyped, ProgressInv, StartPhases, AfterColumns, AfterIndexes

\* The migrations keep their invariant over any number of starts, failures and crashes.
THEOREM MigrationInvariant == MigrationSpec => []MigrationInv
<1>1. ASSUME MigrationInv, [NextMigration]_migrationVars PROVE MigrationInv'
  <2>1. CASE open_read_only_database
    <3>1. UNCHANGED <<schema, tableRows, phase, column, enforced, earlier>> /\ sidecar' = inspect_schema
      BY <2>1 DEF open_read_only_database
    <3>2. inspect_schema' = inspect_schema  BY <3>1 DEF inspect_schema, table_has_columns, table_exists
    <3>3. RowsInv'  BY <1>1, <3>1, RowsStay
    <3> QED BY <1>1, <3>1, <3>2, <3>3 DEF MigrationInv, MigrationTyped, ProgressInv
  <2>2. CASE UNCHANGED migrationVars
    <3>1. RowsInv'  BY <1>1, <2>2, RowsStay DEF migrationVars
    <3>2. (sidecar \subseteq inspect_schema)'  BY <1>1, <2>2, SidecarStays DEF migrationVars, MigrationInv
    <3> QED BY <1>1, <2>2, <3>1, <3>2 DEF migrationVars, MigrationInv, MigrationTyped, ProgressInv
  <2> QED BY <1>1, <2>1, <2>2, ColumnSteps, IndexSteps, RebuildSteps DEF NextMigration
<1> QED BY <1>1, MigrationStarts, PTL DEF MigrationSpec

\* Whatever version left the database and wherever earlier starts failed or died, a start that
\* finishes leaves every column and unique index in place, no key twice, no rule foreign key
\* and enforcement on; no start loses a key; and a capability the sidecar read from the schema
\* never becomes untrue (open_database and the migrations of connection.rs and schema.rs).
THEOREM MigrationsAlwaysConverge == MigrationSpec => []MigrationsConverge
<1>1. ASSUME MigrationInv PROVE MigrationsConverge
  <2>1. ASSUME phase = "ready"
        PROVE  /\ schema.columns = Columns /\ schema.ruleFk = {} /\ enforced
               /\ \A k \in 1..Len(Unique) : Unique[k] \in schema.indexes /\ ~HasDuplicates(Unique[k])
    BY <1>1, <2>1, ListFacts DEF MigrationInv, ProgressInv, RowsInv, AfterColumns, AfterIndexes, StartPhases
  <2>2. ASSUME NEW t \in DOMAIN earlier, NEW r \in RowIds, earlier[t][r].live
        PROVE  Smallest({q \in RowIds : earlier[t][q].key = earlier[t][r].key}) \in LiveRows(t)
    <3>1. t \in UniqueTables  BY <1>1 DEF MigrationInv, MigrationTyped
    <3>2. Twins(t, r) \in SUBSET Nat /\ Twins(t, r) \in SUBSET RowIds /\ r \in Twins(t, r)  BY MigrationAssumption DEF Twins
    <3>3. PICK m \in RowIds : m = Smallest(Twins(t, r))  BY <3>2, SmallestFacts
    <3>4. tableRows[t][m].live  BY <1>1, <2>2, <3>1, <3>3 DEF MigrationInv, RowsInv
    <3> QED BY <3>3, <3>4 DEF Twins, LiveRows
  <2> QED BY <1>1, <2>1, <2>2 DEF MigrationsConverge, MigrationInv
<1> QED BY <1>1, MigrationInvariant, PTL

-----------------------------------------------------------------------------
(* Certificates.                                                           *)

PairType == [key : Nat, cert : Nat]
CommandSteps == {"idle", "ok", "err", "untrust", "key", "cert", "install", "publish", "restart", "demote", "handback",
                 "status", "look", "read", "write", "fill", "open"}
AppType == [mgr : PairType, sslMem : BOOLEAN, sslDb : BOOLEAN, running : BOOLEAN, starting : {"no", "bound"}, next : PairType,
            serving : PairType, sys : BOOLEAN]
CertCommand == [op : {"none", "generate", "remove", "show", "android", "harmony", "ios"}, at : CommandSteps,
                old : Nat, root : Nat, file : Nat, failed : SUBSET AllStores, handback : BOOLEAN, warned : BOOLEAN,
                crossed : BOOLEAN, raced : BOOLEAN, rerouted : BOOLEAN]

CertTyped ==
  /\ certFiles \in [key : Nat, cert : Nat, install : Nat] /\ trust \in [AllStores -> SUBSET Nat]
  /\ certApp \in AppType /\ certCmd \in [CertCommands -> CertCommand] /\ roots \in Nat /\ torn \in BOOLEAN

\* While a command is under way, every other one has not begun or knows that it was crossed.
SoloInv == \A c, d \in CertCommands : c # d /\ Active(c) => certCmd[d].at = "idle" \/ certCmd[d].crossed

\* What a command has of the roots: the one it found is older than the one it makes.
CommandRoots(r) ==
  /\ r.old <= roots /\ r.root <= roots /\ (r.root # 0 => r.old < r.root /\ r.op = "generate")
  /\ r.at \in {"untrust", "key"} => r.root = 0
  /\ r.op = "generate" /\ r.at \in {"cert", "install", "publish", "restart"} => r.root # 0
  /\ r.at \in {"cert", "install"} => r.op \in {"generate", "remove"}
  /\ r.at \notin {"write", "fill", "open", "ok", "err"} => r.file = 0

\* The files between two steps of a command, when no other is between its own.
Shape(r) ==
  /\ r.op = "generate" /\ r.at \in {"cert", "install"} => certFiles.key = r.root
  /\ r.op = "generate" /\ r.at = "install" => certFiles.cert = r.root
  /\ r.op = "remove" /\ r.at \in {"cert", "install"} => certFiles.key = 0
  /\ r.op = "remove" /\ r.at = "install" => certFiles.cert = 0
  /\ r.at \in {"write", "fill"} => certFiles.key = certFiles.cert /\ r.file = certFiles.cert
  /\ r.at = "write" => OneRoot
  /\ r.at = "fill" => certFiles.install = Cut
UntornInv ==
  ~torn => /\ \A c, d \in CertCommands : MidFiles(c) /\ MidFiles(d) => c = d
           /\ \A c \in CertCommands : MidFiles(c) => Shape(certCmd[c])
           /\ (\A c \in CertCommands : ~MidFiles(c)) => OneRoot

\* What a command has achieved at each step, if no other crossed it: the files,
AchievedFiles(r) ==
  /\ r.at = "untrust" => certFiles.cert = r.old
  /\ r.root # 0 => certFiles.key = r.root /\ r.at \notin {"read", "write", "fill"}
  /\ r.root # 0 /\ r.at # "cert" => certFiles.cert = r.root
  /\ r.root # 0 /\ r.at \notin {"cert", "install"} => certFiles.install = r.root
  /\ r.op = "remove" => r.at \notin {"look", "read", "write", "fill", "open"}
  /\ r.op = "remove" /\ r.at \notin {"untrust", "key"} => certFiles.key = 0
  /\ r.op = "remove" /\ r.at \notin {"untrust", "key", "cert"} => certFiles.cert = 0
  /\ r.op = "remove" /\ r.at \notin {"untrust", "key", "cert", "install"} => certFiles.install = 0
\* the trust in the old root,
Revoked(r) == r.old = 0 \/ r.failed # {} \/ \A s \in Stores : r.old \notin trust[s]
AchievedTrust(r) ==
  r.at # "untrust" /\ (r.root # 0 \/ r.op = "remove" \/ (r.op = "generate" /\ r.at = "key")) => Revoked(r)
\* who can still sign: the manager, the proxy that runs and the one that starts,
AchievedSigners(r) ==
  /\ r.root # 0 /\ r.at \notin {"cert", "install", "publish"} => certApp.mgr = Pair(r.root, r.root)
  /\ r.root # 0 /\ r.at \notin {"cert", "install", "publish", "restart"} /\ ~r.raced /\ r.old # 0 =>
       certApp.serving.cert # r.old /\ certApp.next.cert # r.old
  /\ r.op = "remove" /\ r.at \in {"handback", "restart", "status", "ok"} =>
       certApp.mgr = NoPair /\ ~certApp.sslMem /\ (certApp.sslDb => r.warned)
  /\ r.op = "remove" /\ r.at \in {"restart", "status", "ok"} => (certApp.sys => r.handback \/ r.rerouted)
  /\ r.op = "remove" /\ r.at \in {"status", "ok"} /\ ~r.raced => certApp.serving = NoPair /\ certApp.next = NoPair
\* and what was shown or handed over.
AchievedShown(r) == r.at = "ok" /\ r.file # 0 /\ ~torn => r.file = certFiles.cert
ByItself(r) == r.at \notin {"idle", "err"} /\ ~r.crossed
Achieved(r) == ByItself(r) => AchievedFiles(r) /\ AchievedTrust(r) /\ AchievedSigners(r) /\ AchievedShown(r)

\* A proxy that starts does not run, and only a proxy that runs signs.
AppInv ==
  /\ certApp.starting = "bound" => ~certApp.running
  /\ ~certApp.running => certApp.serving = NoPair
  /\ certApp.starting = "no" => certApp.next = NoPair

CertInv ==
  /\ CertTyped /\ SoloInv /\ UntornInv /\ AppInv /\ certFiles.cert <= roots
  /\ \A c \in CertCommands : CommandRoots(certCmd[c]) /\ Achieved(certCmd[c])

\* The stores are the platform's.
LEMMA StoresStay ==
  ASSUME platform' = platform
  PROVE  Stores' = Stores
BY DEF Stores

LEMMA StoresAreStores == Stores \subseteq AllStores
BY DEF Stores, AllStores

LEMMA PairFacts ==
  /\ NoPair \in PairType /\ NoPair.cert = 0
  /\ \A n \in Nat : Pair(n, n) \in PairType /\ Pair(n, n).cert = n /\ (n # 0 => Pair(n, n) # NoPair)
BY DEF NoPair, Pair, PairType

\* One command moves, the others stay.
Moved(c) ==
  /\ certCmd' \in [CertCommands -> CertCommand] /\ \A d \in CertCommands \ {c} : certCmd'[d] = certCmd[d]
  /\ certCmd'[c].op = certCmd[c].op /\ certCmd'[c].old = certCmd[c].old /\ certCmd'[c].crossed = certCmd[c].crossed
  /\ certCmd'[c].rerouted = certCmd[c].rerouted

LEMMA GotoFacts ==
  ASSUME CertTyped, NEW c \in CertCommands, NEW at \in CommandSteps, CertGoto(c, at)
  PROVE  /\ Moved(c) /\ certCmd'[c].at = at /\ certCmd'[c].root = certCmd[c].root /\ certCmd'[c].file = certCmd[c].file
         /\ certCmd'[c].failed = certCmd[c].failed /\ certCmd'[c].handback = certCmd[c].handback
         /\ certCmd'[c].warned = certCmd[c].warned /\ certCmd'[c].raced = certCmd[c].raced
<1>1. certCmd \in [CertCommands -> CertCommand] /\ certCmd' = [certCmd EXCEPT ![c].at = at]  BY DEF CertTyped, CertGoto
<1>2. PICK r \in CertCommand : r = certCmd[c]  BY <1>1
<1>3. PICK q \in CertCommand : q = [r EXCEPT !.at = at]  BY <1>2 DEF CertCommand
<1>4. certCmd'[c] = q /\ certCmd' \in [CertCommands -> CertCommand] /\ \A d \in CertCommands \ {c} : certCmd'[d] = certCmd[d]
  BY <1>1, <1>2, <1>3
<1> QED BY <1>2, <1>3, <1>4 DEF CertCommand, Moved

\* The step of one command: the others promise nothing while it is under way.
LEMMA OwnStep ==
  ASSUME CertInv, NEW c \in CertCommands, Active(c), Moved(c), certCmd'[c].at # "idle", roots' \in {roots, roots + 1},
         CertTyped', AppInv', UntornInv', certFiles'.cert <= roots', CommandRoots(certCmd[c])', Achieved(certCmd[c])'
  PROVE  CertInv'
<1>1. SoloInv /\ certCmd \in [CertCommands -> CertCommand] /\ certCmd' \in [CertCommands -> CertCommand] /\ roots \in Nat
  BY DEF CertInv, CertTyped
<1>2. SoloInv'
  <2> SUFFICES ASSUME NEW x \in CertCommands, NEW y \in CertCommands, x # y, Active(x)' PROVE certCmd'[y].at = "idle" \/ certCmd'[y].crossed
    BY DEF SoloInv
  <2>1. CASE x = c  BY <1>1, <2>1 DEF SoloInv, Moved
  <2>2. CASE x # c /\ y = c
    <3>1. Active(x)  BY <2>2 DEF Active, Moved
    <3> QED BY <1>1, <2>2, <3>1 DEF SoloInv, Active, Moved
  <2>3. CASE x # c /\ y # c  BY <1>1, <2>3 DEF SoloInv, Active, Moved
  <2> QED BY <2>1, <2>2, <2>3
<1>3. ASSUME NEW d \in CertCommands, d # c PROVE CommandRoots(certCmd[d])' /\ Achieved(certCmd[d])'
  <2>1. certCmd'[d] = certCmd[d] /\ (certCmd[d].at = "idle" \/ certCmd[d].crossed) /\ CommandRoots(certCmd[d])
    BY <1>1, <1>3 DEF SoloInv, Moved, CertInv
  <2>2. certCmd[d].old \in Nat /\ certCmd[d].root \in Nat  BY <1>1, <1>3 DEF CertCommand
  <2>3. CommandRoots(certCmd[d])'  BY <1>1, <2>1, <2>2 DEF CommandRoots
  <2> QED BY <2>1, <2>3 DEF Achieved, ByItself
<1> QED BY <1>2, <1>3 DEF CertInv

\* A step that leaves the files, outside the stretch between them.
LEMMA FilesRest ==
  ASSUME UntornInv, NEW c \in CertCommands, Moved(c), ~MidFiles(c), ~MidFiles(c)', UNCHANGED <<certFiles, torn>>
  PROVE  UntornInv'
<1>1. \A d \in CertCommands : MidFiles(d)' <=> MidFiles(d)  BY DEF MidFiles, Moved
<1>2. \A d \in CertCommands : MidFiles(d) => Shape(certCmd[d])' = Shape(certCmd[d])  BY DEF MidFiles, Moved, Shape, OneRoot, Cut
<1> QED BY <1>1, <1>2 DEF UntornInv, OneRoot

\* The pairs a start may take.
LEMMA InterceptorFacts ==
  ASSUME CertTyped, NEW ssl \in BOOLEAN
  PROVE  /\ Interceptor(ssl) \in PairType
         /\ ~ssl => Interceptor(ssl) = NoPair
         /\ ssl /\ certApp.mgr # NoPair => Interceptor(ssl) = certApp.mgr
<1>1. try_load_tls_manager \in PairType
  <2>1. certFiles.key \in Nat /\ certFiles.cert \in Nat  BY DEF CertTyped
  <2> QED BY <2>1, PairFacts DEF try_load_tls_manager, Pair, PairType
<1>2. certApp.mgr \in PairType  BY DEF CertTyped, AppType
<1> QED BY <1>1, <1>2, PairFacts DEF Interceptor

\* The proxy moves under the commands: what they achieved of the signers is all it can touch.
LEMMA UnderCommands ==
  ASSUME CertInv, UNCHANGED <<platform, certFiles, trust, certCmd, roots, torn>>, certApp' \in AppType, AppInv',
         \A c \in CertCommands : ByItself(certCmd[c]) /\ AchievedSigners(certCmd[c]) => AchievedSigners(certCmd[c])'
  PROVE  CertInv'
<1>1. CertTyped' /\ SoloInv' /\ UntornInv'  BY DEF CertInv, CertTyped, SoloInv, UntornInv, Active, MidFiles, Shape, OneRoot
<1>2. ASSUME NEW c \in CertCommands PROVE CommandRoots(certCmd[c])' /\ Achieved(certCmd[c])'
  <2>1. CommandRoots(certCmd[c]) /\ Achieved(certCmd[c])  BY <1>2 DEF CertInv
  <2>2. CommandRoots(certCmd[c])' /\ AchievedFiles(certCmd[c])' = AchievedFiles(certCmd[c]) /\ AchievedShown(certCmd[c])' = AchievedShown(certCmd[c])
    BY <2>1 DEF CommandRoots, AchievedFiles, AchievedShown
  <2>3. AchievedTrust(certCmd[c])' = AchievedTrust(certCmd[c])  BY StoresStay DEF AchievedTrust, Revoked
  <2> QED BY <1>2, <2>1, <2>2, <2>3 DEF Achieved, ByItself
<1> QED BY <1>1, <1>2 DEF CertInv

\* The user starts and stops the proxy under any command.
LEMMA ProxySteps ==
  ASSUME CertInv, StartProxy \/ ProxyStarted \/ StopProxy
  PROVE  CertInv'
<1>1. CertTyped /\ AppInv /\ certApp \in AppType /\ certCmd \in [CertCommands -> CertCommand] /\ NoPair \in PairType /\ NoPair.cert = 0
  BY PairFacts DEF CertInv, CertTyped
<1>2. UNCHANGED <<platform, certFiles, trust, certCmd, roots, torn>>  BY DEF StartProxy, ProxyStarted, StopProxy
<1>3. CASE StartProxy
  <2>1. PICK i \in PairType : i = Interceptor(certApp.sslMem)  BY <1>1, InterceptorFacts DEF AppType
  <2>2. PICK m \in PairType : m = IF certApp.sslMem THEN i ELSE certApp.mgr  BY <1>1, <2>1 DEF AppType
  <2>3. ~certApp.running /\ certApp.starting = "no" /\ certApp' = [certApp EXCEPT !.starting = "bound", !.next = i, !.mgr = m]
    BY <1>1, <1>3, <2>1, <2>2 DEF StartProxy, AppType
  <2>4. /\ certApp' \in AppType /\ certApp'.starting = "bound" /\ certApp'.next = i /\ certApp'.mgr = m /\ certApp'.running = certApp.running
        /\ certApp'.serving = certApp.serving /\ certApp'.sslMem = certApp.sslMem /\ certApp'.sslDb = certApp.sslDb /\ certApp'.sys = certApp.sys
    BY <1>1, <2>3 DEF AppType
  <2>5. (~certApp.sslMem => i = NoPair) /\ (certApp.sslMem /\ certApp.mgr # NoPair => i = certApp.mgr)
    BY <1>1, <2>1, InterceptorFacts DEF AppType
  <2>6. ASSUME NEW c \in CertCommands, AchievedSigners(certCmd[c]) PROVE AchievedSigners(certCmd[c])'
    <3>1. PICK r \in CertCommand : r = certCmd[c] /\ certCmd'[c] = r /\ CommandRoots(r)  BY <1>1, <1>2 DEF CertInv
    <3>2. r.root \in Nat /\ r.old \in Nat /\ (r.root # 0 => r.old < r.root)  BY <3>1 DEF CertCommand, CommandRoots
    <3>3. PICK made \in PairType : made = Pair(r.root, r.root) /\ made.cert = r.root /\ (r.root # 0 => made # NoPair)
      BY <3>2, PairFacts
    <3>4. AchievedSigners(r)  BY <2>6, <3>1
    <3>5. r.root # 0 /\ certApp.mgr = made => m = made /\ i \in {NoPair, made}  BY <2>2, <2>5, <3>3
    <3>6. r.root # 0 /\ certApp.mgr = made /\ r.old # 0 => i.cert # r.old  BY <1>1, <3>2, <3>3, <3>5
    <3>7. certApp.mgr = NoPair /\ ~certApp.sslMem => m = NoPair /\ i = NoPair  BY <2>2, <2>5
    <3>8. AchievedSigners(r)'  BY <2>4, <3>3, <3>4, <3>5, <3>6, <3>7 DEF AchievedSigners
    <3> QED BY <3>1, <3>8 DEF AchievedSigners
  <2>7. AppInv'  BY <1>1, <2>3, <2>4 DEF AppInv
  <2> QED BY <1>2, <2>4, <2>6, <2>7, UnderCommands
<1>4. CASE ProxyStarted
  <2>1. certApp.starting = "bound" /\ certApp' = [certApp EXCEPT !.starting = "no", !.running = TRUE, !.serving = certApp.next, !.next = NoPair]
    BY <1>4 DEF ProxyStarted
  <2>2. /\ certApp' \in AppType /\ certApp'.starting = "no" /\ certApp'.next = NoPair /\ certApp'.mgr = certApp.mgr /\ certApp'.running
        /\ certApp'.serving = certApp.next /\ certApp'.sslMem = certApp.sslMem /\ certApp'.sslDb = certApp.sslDb /\ certApp'.sys = certApp.sys
    BY <1>1, <2>1 DEF AppType
  <2>3. \A c \in CertCommands : AchievedSigners(certCmd[c]) => AchievedSigners(certCmd[c])'
    BY <1>1, <1>2, <2>2 DEF AchievedSigners
  <2>4. AppInv'  BY <2>2 DEF AppInv
  <2> QED BY <1>2, <2>2, <2>3, <2>4, UnderCommands
<1>5. CASE StopProxy
  <2>1. PICK restored \in BOOLEAN : certApp' = [certApp EXCEPT !.running = FALSE, !.serving = NoPair, !.sys = @ /\ ~restored]
    BY <1>5 DEF StopProxy
  <2>2. /\ certApp' \in AppType /\ certApp'.starting = certApp.starting /\ certApp'.next = certApp.next /\ certApp'.mgr = certApp.mgr
        /\ ~certApp'.running /\ certApp'.serving = NoPair
        /\ certApp'.sslMem = certApp.sslMem /\ certApp'.sslDb = certApp.sslDb /\ (certApp'.sys => certApp.sys)
    BY <1>1, <2>1 DEF AppType
  <2>3. \A c \in CertCommands : AchievedSigners(certCmd[c]) => AchievedSigners(certCmd[c])'
    BY <1>1, <1>2, <2>2 DEF AchievedSigners
  <2>4. AppInv'  BY <1>1, <2>2 DEF AppInv
  <2> QED BY <1>2, <2>2, <2>3, <2>4, UnderCommands
<1> QED BY <1>3, <1>4, <1>5

\* The user routes the system to the proxy, and every removal knows.
LEMMA RouteStep ==
  ASSUME CertInv, EnableSystemProxy
  PROVE  CertInv'
<1>1. CertTyped /\ AppInv /\ certApp \in AppType /\ certCmd \in [CertCommands -> CertCommand]  BY DEF CertInv, CertTyped
<1>2. /\ UNCHANGED <<platform, certFiles, trust, roots, torn>> /\ certApp' = [certApp EXCEPT !.sys = TRUE]
      /\ certCmd' = [c \in CertCommands |-> [certCmd[c] EXCEPT !.rerouted = certCmd[c].op = "remove"]]
  BY DEF EnableSystemProxy
<1>3. /\ certApp' \in AppType /\ certApp'.starting = certApp.starting /\ certApp'.next = certApp.next /\ certApp'.mgr = certApp.mgr
      /\ certApp'.running = certApp.running /\ certApp'.serving = certApp.serving
      /\ certApp'.sslMem = certApp.sslMem /\ certApp'.sslDb = certApp.sslDb
  BY <1>1, <1>2 DEF AppType
<1>4. ASSUME NEW c \in CertCommands
      PROVE  /\ certCmd'[c] \in CertCommand /\ certCmd'[c].rerouted = (certCmd[c].op = "remove")
             /\ certCmd'[c].op = certCmd[c].op /\ certCmd'[c].at = certCmd[c].at /\ certCmd'[c].old = certCmd[c].old
             /\ certCmd'[c].root = certCmd[c].root /\ certCmd'[c].file = certCmd[c].file /\ certCmd'[c].failed = certCmd[c].failed
             /\ certCmd'[c].warned = certCmd[c].warned /\ certCmd'[c].crossed = certCmd[c].crossed /\ certCmd'[c].raced = certCmd[c].raced
  <2>1. PICK r \in CertCommand : r = certCmd[c]  BY <1>1, <1>4
  <2>2. PICK b \in BOOLEAN : b = (r.op = "remove")  OBVIOUS
  <2>3. certCmd'[c] = [r EXCEPT !.rerouted = b]  BY <1>2, <1>4, <2>1, <2>2
  <2> QED BY <2>1, <2>2, <2>3 DEF CertCommand
<1>5. CertTyped'  BY <1>1, <1>2, <1>3, <1>4 DEF CertTyped
<1>6. SoloInv' /\ UntornInv' /\ AppInv'
  <2>1. SoloInv'  BY <1>4 DEF CertInv, SoloInv, Active
  <2>2. AppInv'  BY <1>1, <1>3 DEF AppInv
  <2>3. \A c \in CertCommands : MidFiles(c)' <=> MidFiles(c)  BY <1>4 DEF MidFiles
  <2>4. OneRoot' <=> OneRoot  BY <1>2 DEF OneRoot
  <2>5. \A c \in CertCommands : Shape(certCmd[c]) => Shape(certCmd[c])'  BY <1>2, <1>4, <2>4 DEF Shape, Cut
  <2>6. UntornInv'  BY <1>2, <2>3, <2>4, <2>5 DEF CertInv, UntornInv
  <2> QED BY <2>1, <2>2, <2>6
<1>7. ASSUME NEW c \in CertCommands PROVE CommandRoots(certCmd[c])' /\ Achieved(certCmd[c])'
  <2>1. CommandRoots(certCmd[c]) /\ Achieved(certCmd[c])  BY <1>7 DEF CertInv
  <2>2. CommandRoots(certCmd[c])' /\ (AchievedFiles(certCmd[c]) => AchievedFiles(certCmd[c])') /\ (AchievedShown(certCmd[c]) => AchievedShown(certCmd[c])')
    BY <1>2, <1>4, <1>7, <2>1 DEF CommandRoots, AchievedFiles, AchievedShown
  <2>3. AchievedTrust(certCmd[c]) => AchievedTrust(certCmd[c])'  BY <1>2, <1>4, <1>7, StoresStay DEF AchievedTrust, Revoked
  <2>4. AchievedSigners(certCmd[c]) => AchievedSigners(certCmd[c])'  BY <1>3, <1>4, <1>7 DEF AchievedSigners
  <2> QED BY <1>4, <1>7, <2>1, <2>2, <2>3, <2>4 DEF Achieved, ByItself
<1> QED BY <1>2, <1>5, <1>6, <1>7 DEF CertInv

\* A command begins with the root it finds; the others are idle or crossed from then on.
LEMMA BeginFacts ==
  ASSUME CertInv, NEW c \in CertCommands, NEW op \in {"generate", "remove", "show", "android", "harmony", "ios"},
         NEW at \in {"untrust", "key", "status", "look", "open"}, Begin(c, op, at),
         at = "untrust" => root_cert_exists, at = "key" => ~root_cert_exists, op = "remove" => at \in {"untrust", "key"}
  PROVE  CertInv'
<1>1. CertTyped /\ certFiles.cert \in Nat /\ certCmd \in [CertCommands -> CertCommand] /\ roots \in Nat /\ certFiles.cert <= roots
  BY DEF CertInv, CertTyped
<1>2. PICK old \in Nat : old = IF root_cert_exists THEN certFiles.cert ELSE 0  BY <1>1
<1>3. PICK crossed \in BOOLEAN : crossed = \E e \in CertCommands \ {c} : Active(e)  OBVIOUS
<1>4. /\ ~Active(c) /\ UNCHANGED <<platform, certFiles, trust, certApp, roots, torn>>
      /\ certCmd' = [d \in CertCommands |->
           IF d = c THEN [CertIdle EXCEPT !.op = op, !.at = at, !.old = old, !.crossed = crossed]
           ELSE IF Active(d) THEN [certCmd[d] EXCEPT !.crossed = TRUE] ELSE CertIdle]
  BY <1>2, <1>3 DEF Begin
<1>6. CertIdle \in CertCommand /\ CertIdle.at = "idle" /\ CertIdle.root = 0 /\ CertIdle.old = 0 /\ CertIdle.file = 0
  BY DEF CertIdle, CertCommand, CommandSteps
<1>5. /\ certCmd'[c] \in CertCommand /\ certCmd'[c].op = op /\ certCmd'[c].at = at /\ certCmd'[c].old = old /\ certCmd'[c].root = 0
      /\ certCmd'[c].file = 0 /\ certCmd'[c].crossed = crossed
  <2>1. PICK idle \in CertCommand : idle = CertIdle /\ idle.root = 0 /\ idle.file = 0  BY <1>6
  <2>2. certCmd'[c] = [idle EXCEPT !.op = op, !.at = at, !.old = old, !.crossed = crossed]  BY <1>4, <2>1
  <2>3. at \in CommandSteps  BY DEF CommandSteps
  <2> QED BY <1>2, <1>3, <2>1, <2>2, <2>3 DEF CertCommand
<1>7. ASSUME NEW d \in CertCommands, d # c, Active(d)
      PROVE  /\ certCmd'[d] \in CertCommand /\ certCmd'[d].crossed /\ certCmd'[d].op = certCmd[d].op /\ certCmd'[d].at = certCmd[d].at
             /\ certCmd'[d].old = certCmd[d].old /\ certCmd'[d].root = certCmd[d].root /\ certCmd'[d].file = certCmd[d].file
  <2>1. PICK r \in CertCommand : r = certCmd[d]  BY <1>1, <1>7
  <2>2. certCmd'[d] = [r EXCEPT !.crossed = TRUE]  BY <1>4, <1>7, <2>1
  <2> QED BY <2>1, <2>2 DEF CertCommand
<1>8. ASSUME NEW d \in CertCommands, d # c, ~Active(d) PROVE certCmd'[d] = CertIdle  BY <1>4, <1>8
<1>9. CertTyped'
  <2>1. \A d \in CertCommands : certCmd'[d] \in CertCommand  BY <1>5, <1>6, <1>7, <1>8
  <2>2. certCmd' \in [CertCommands -> CertCommand]  BY <1>4, <2>1
  <2> QED BY <1>1, <1>4, <2>2 DEF CertTyped
<1>10. \A d \in CertCommands : MidFiles(d)' <=> MidFiles(d)  BY <1>4, <1>5, <1>6, <1>7, <1>8 DEF MidFiles, Active
<1>11. SoloInv'
  <2> SUFFICES ASSUME NEW x \in CertCommands, NEW y \in CertCommands, x # y, Active(x)' PROVE certCmd'[y].at = "idle" \/ certCmd'[y].crossed
    BY DEF SoloInv
  <2>1. CASE y = c
    <3>1. Active(x)  BY <1>6, <1>8, <2>1 DEF Active
    <3> QED BY <1>3, <1>5, <2>1, <3>1
  <2>2. CASE y # c  BY <1>6, <1>7, <1>8, <2>2
  <2> QED BY <2>1, <2>2
<1>12. UntornInv'
  <2>1. ASSUME NEW d \in CertCommands, MidFiles(d), Shape(certCmd[d]) PROVE Shape(certCmd[d])'
    <3>1. d # c /\ Active(d)  BY <1>4, <2>1 DEF MidFiles, Active
    <3> QED BY <1>4, <1>7, <2>1, <3>1 DEF Shape, OneRoot, Cut
  <2>2. OneRoot' <=> OneRoot  BY <1>4 DEF OneRoot
  <2> QED BY <1>4, <1>10, <2>1, <2>2 DEF CertInv, UntornInv
<1>13. ASSUME NEW d \in CertCommands, d # c PROVE CommandRoots(certCmd[d])' /\ Achieved(certCmd[d])'
  <2>1. CASE Active(d)
    <3>1. CommandRoots(certCmd[d])  BY <1>13 DEF CertInv
    <3>2. CommandRoots(certCmd[d])'  BY <1>4, <1>7, <1>13, <2>1, <3>1 DEF CommandRoots
    <3> QED BY <1>7, <1>13, <2>1, <3>2 DEF Achieved, ByItself
  <2>2. CASE ~Active(d)  BY <1>1, <1>4, <1>6, <1>8, <1>13, <2>2 DEF CommandRoots, Achieved, ByItself
  <2> QED BY <2>1, <2>2
<1>14. CommandRoots(certCmd[c])'  BY <1>1, <1>2, <1>4, <1>5 DEF CommandRoots
<1>15. Achieved(certCmd[c])'
  <2>1. at = "untrust" => certFiles.cert = old  BY <1>2
  <2>2. at = "key" => old = 0  BY <1>2
  <2> QED BY <1>4, <1>5, <2>1, <2>2 DEF Achieved, AchievedFiles, AchievedTrust, Revoked, AchievedSigners, AchievedShown
<1>16. AppInv'  BY <1>4 DEF CertInv, AppInv
<1> QED BY <1>1, <1>4, <1>9, <1>11, <1>12, <1>13, <1>14, <1>15, <1>16 DEF CertInv

LEMMA BeginSteps ==
  ASSUME CertInv, NEW c \in CertCommands,
         \/ BeginGenerate(c) \/ BeginRemove(c) \/ BeginShow(c)
         \/ \E bridge \in {"android", "harmony", "ios"} : BeginInstall(c, bridge)
  PROVE  CertInv'
<1>1. CASE BeginGenerate(c)
  <2>1. PICK force \in BOOLEAN : Begin(c, "generate", IF ~root_cert_exists THEN "key" ELSE IF force THEN "untrust" ELSE "status")
    BY <1>1 DEF BeginGenerate
  <2>2. CASE ~root_cert_exists  BY <2>1, <2>2, BeginFacts
  <2>3. CASE root_cert_exists /\ force  BY <2>1, <2>3, BeginFacts
  <2>4. CASE root_cert_exists /\ ~force  BY <2>1, <2>4, BeginFacts
  <2> QED BY <2>2, <2>3, <2>4
<1>2. CASE BeginRemove(c)
  <2>1. CASE root_cert_exists  BY <1>2, <2>1, BeginFacts DEF BeginRemove
  <2>2. CASE ~root_cert_exists  BY <1>2, <2>2, BeginFacts DEF BeginRemove
  <2> QED BY <2>1, <2>2
<1>3. CASE BeginShow(c)  BY <1>3, BeginFacts DEF BeginShow
<1>4. CASE \E bridge \in {"android", "harmony", "ios"} : BeginInstall(c, bridge)
  <2>1. PICK bridge \in {"android", "harmony", "ios"} : Begin(c, bridge, IF bridge = "ios" THEN "open" ELSE "look")
    BY <1>4 DEF BeginInstall
  <2>2. CASE bridge = "ios"  BY <2>1, <2>2, BeginFacts
  <2>3. CASE bridge # "ios"  BY <2>1, <2>3, BeginFacts
  <2> QED BY <2>2, <2>3
<1> QED BY <1>1, <1>2, <1>3, <1>4

\* A revocation that no store reports as failed left the root in none.
LEMMA RevocationFacts ==
  ASSUME CertTyped, NEW root \in Nat, NEW refused \in SUBSET Stores, NEW illegible \in BOOLEAN,
         NEW report, report = remove_cert_trust_on_platform(root, refused, illegible)
  PROVE  /\ report.trust \in [AllStores -> SUBSET Nat] /\ report.failed \in SUBSET AllStores
         /\ report.failed = {} => \A s \in Stores : root \notin report.trust[s]
<1>2. trust \in [AllStores -> SUBSET Nat] /\ Stores \subseteq AllStores /\ refused \subseteq AllStores
  BY StoresAreStores DEF CertTyped
<1>3. ASSUME NEW places \in SUBSET Stores
      PROVE  /\ Untrusted(root, places) \in [AllStores -> SUBSET Nat] /\ \A s \in places : root \notin Untrusted(root, places)[s]
  BY <1>2, <1>3 DEF Untrusted
<1>4. CASE platform = "windows"
  <2>1. Stores = {"currentUserRoot", "localMachineRoot"}  BY <1>4 DEF Stores
  <2>2. report = remove_cert_trust_windows(root, refused, illegible)  BY <1>4 DEF remove_cert_trust_on_platform
  <2>3. CASE illegible  BY <1>2, <2>2, <2>3 DEF remove_cert_trust_windows, AllStores
  <2>4. CASE ~illegible
    <3>1. report = [trust |-> Untrusted(root, Stores \ refused), failed |-> refused]  BY <2>2, <2>4 DEF remove_cert_trust_windows
    <3>2. Stores \ refused \in SUBSET Stores /\ (refused = {} => Stores \ refused = Stores)  OBVIOUS
    <3> QED BY <1>2, <1>3, <3>1, <3>2
  <2> QED BY <2>3, <2>4
<1>5. CASE platform = "macos"
  <2>1. "loginKeychain" \in Stores /\ "systemKeychain" \in Stores  BY <1>5 DEF Stores
  <2>2. report = remove_cert_trust_macos(root, refused, illegible)  BY <1>5 DEF remove_cert_trust_on_platform
  <2>3. PICK failed \in SUBSET Stores : report = [trust |-> Untrusted(root, Stores \ failed), failed |-> failed]
    <3>1. refused \cup (IF illegible THEN {"loginKeychain", "systemKeychain"} ELSE {}) \in SUBSET Stores  BY <2>1
    <3> QED BY <2>2, <3>1 DEF remove_cert_trust_macos
  <2>4. Stores \ failed \in SUBSET Stores /\ (failed = {} => Stores \ failed = Stores)  OBVIOUS
  <2> QED BY <1>2, <1>3, <2>3, <2>4
<1>6. CASE platform \notin {"windows", "macos"}
  <2>1. Stores = {"anchors", "caStore"} /\ "anchors" \in AllStores /\ "caStore" \in AllStores  BY <1>6 DEF Stores, AllStores
  <2>2. report = remove_cert_trust_linux(root, refused, illegible)  BY <1>6 DEF remove_cert_trust_on_platform
  <2>3. CASE illegible  BY <1>2, <2>1, <2>2, <2>3 DEF remove_cert_trust_linux
  <2>4. CASE ~illegible
    <3>1. PICK anchors \in SUBSET Nat : anchors = IF "anchors" \in refused THEN trust["anchors"] ELSE trust["anchors"] \ {root}
      BY <1>2, <2>1
    <3>2. PICK live \in SUBSET Nat : live = IF "caStore" \in refused THEN trust["caStore"] ELSE anchors  BY <1>2, <2>1, <3>1
    <3>5. PICK left \in [AllStores -> SUBSET Nat] : left = [trust EXCEPT !["anchors"] = anchors, !["caStore"] = live]  BY <1>2
    <3>6. left["anchors"] = anchors /\ left["caStore"] = live  BY <1>2, <2>1, <3>5
    <3>3. report = [trust |-> left, failed |-> refused]  BY <2>2, <2>4, <3>1, <3>2, <3>5 DEF remove_cert_trust_linux
    <3>4. refused = {} => root \notin anchors /\ root \notin live  BY <3>1, <3>2
    <3> QED BY <1>2, <2>1, <3>3, <3>4, <3>6
  <2> QED BY <2>3, <2>4
<1> QED BY <1>4, <1>5, <1>6

\* The old root is revoked while its file names it.
LEMMA RevokeSteps ==
  ASSUME CertInv, NEW c \in CertCommands, UntrustOld(c) \/ RevokeTrust(c)
  PROVE  CertInv'
<1>1. CertTyped /\ certFiles.cert \in Nat /\ certCmd \in [CertCommands -> CertCommand] /\ roots \in Nat /\ AppInv /\ UntornInv
  BY DEF CertInv, CertTyped
<1>2. Revoke(c) /\ certCmd[c].at = "untrust" /\ certCmd[c].op \in {"generate", "remove"}  BY DEF UntrustOld, RevokeTrust, At
<1>30. PICK refused \in SUBSET Stores, illegible \in BOOLEAN :
         /\ trust' = remove_cert_trust_on_platform(certFiles.cert, refused, illegible).trust
         /\ certCmd' = [certCmd EXCEPT ![c].at = "key", ![c].failed = remove_cert_trust_on_platform(certFiles.cert, refused, illegible).failed]
  BY <1>2 DEF Revoke
<1> DEFINE report == remove_cert_trust_on_platform(certFiles.cert, refused, illegible)
<1>3. trust' = report.trust /\ certCmd' = [certCmd EXCEPT ![c].at = "key", ![c].failed = report.failed]  BY <1>30
<1>4. /\ trust' \in [AllStores -> SUBSET Nat] /\ report.failed \in SUBSET AllStores
      /\ report.failed = {} => \A s \in Stores : certFiles.cert \notin trust'[s]
  BY <1>1, <1>3, RevocationFacts
<1> HIDE DEF report
<1>5. UNCHANGED <<platform, certFiles, certApp, roots, torn>>  BY <1>2 DEF Revoke
<1>6. PICK r \in CertCommand : r = certCmd[c]  BY <1>1
<1>7. PICK q \in CertCommand : q = [r EXCEPT !.at = "key", !.failed = report.failed]  BY <1>4, <1>6 DEF CertCommand, CommandSteps
<1>8. certCmd'[c] = q /\ certCmd' \in [CertCommands -> CertCommand] /\ \A d \in CertCommands \ {c} : certCmd'[d] = certCmd[d]
  BY <1>1, <1>3, <1>6, <1>7
<1>9. /\ q.at = "key" /\ q.failed = report.failed /\ q.op = r.op /\ q.old = r.old /\ q.root = r.root /\ q.file = r.file /\ q.crossed = r.crossed
      /\ q.rerouted = r.rerouted
  BY <1>6, <1>7 DEF CertCommand
<1>10. Moved(c)  BY <1>6, <1>8, <1>9 DEF Moved
<1>11. r.root = 0 /\ r.file = 0 /\ CommandRoots(r) /\ Achieved(r)  BY <1>2, <1>6 DEF CertInv, CommandRoots
<1>12. CommandRoots(q)' /\ CertTyped'  BY <1>1, <1>4, <1>5, <1>8, <1>9, <1>11 DEF CommandRoots, CertTyped
<1>13. UntornInv'  BY <1>1, <1>2, <1>5, <1>8, <1>9, <1>10, FilesRest DEF MidFiles
<1>14. ASSUME ByItself(q) PROVE Revoked(q)'
  <2>1. certFiles.cert = r.old  BY <1>2, <1>6, <1>9, <1>11, <1>14 DEF ByItself, Achieved, AchievedFiles
  <2> QED BY <1>4, <1>5, <1>9, <2>1, StoresStay DEF Revoked
<1>15. Achieved(q)'  BY <1>9, <1>11, <1>14 DEF Achieved, ByItself, AchievedFiles, AchievedTrust, AchievedSigners, AchievedShown
<1>16. CommandRoots(certCmd[c])' /\ Achieved(certCmd[c])'
  BY <1>8, <1>12, <1>15 DEF CommandRoots, Achieved, ByItself, AchievedFiles, AchievedTrust, AchievedSigners, AchievedShown, Revoked
<1> QED BY <1>1, <1>2, <1>5, <1>8, <1>9, <1>10, <1>12, <1>13, <1>16, OwnStep DEF Active, AppInv, CertInv

\* A command that fails leaves the files as they are, or torn.
LEMMA ErrStep ==
  ASSUME CertInv, NEW c \in CertCommands, Active(c), CertGoto(c, "err"), certApp' \in AppType, AppInv',
         UNCHANGED <<platform, certFiles, trust, roots>>, torn' \in {torn, TRUE}, MidFiles(c) => torn' \/ certCmd[c].at = "write"
  PROVE  CertInv'
<1>1. CertTyped /\ UntornInv /\ "err" \in CommandSteps /\ certFiles.cert <= roots /\ torn \in BOOLEAN
  BY DEF CertInv, CertTyped, CommandSteps
<1>2. /\ Moved(c) /\ certCmd'[c].at = "err" /\ certCmd'[c].root = certCmd[c].root /\ certCmd'[c].file = certCmd[c].file
  BY <1>1, GotoFacts
<1>3. CertTyped'  BY <1>1, <1>2 DEF CertTyped, Moved
<1>4. UntornInv'
  <2>1. ~MidFiles(c)' /\ \A d \in CertCommands \ {c} : MidFiles(d)' <=> MidFiles(d)  BY <1>2 DEF MidFiles, Moved
  <2>2. CASE torn'  BY <2>2 DEF UntornInv
  <2>3. CASE ~torn' /\ ~MidFiles(c)  BY <1>1, <1>2, <2>1, <2>3, FilesRest
  <2>4. CASE ~torn' /\ MidFiles(c)
    <3>1. ~torn /\ certCmd[c].at = "write" /\ OneRoot /\ \A d \in CertCommands \ {c} : ~MidFiles(d)
      BY <1>1, <2>4 DEF UntornInv, Shape
    <3>2. OneRoot' /\ \A d \in CertCommands : ~MidFiles(d)'  BY <2>1, <3>1 DEF OneRoot
    <3> QED BY <3>2 DEF UntornInv
  <2> QED BY <2>2, <2>3, <2>4
<1>5. CommandRoots(certCmd[c])'
  <2>1. CommandRoots(certCmd[c])  BY DEF CertInv
  <2> QED BY <1>2, <2>1 DEF CommandRoots, Moved
<1>6. Achieved(certCmd[c])'  BY <1>2 DEF Achieved, ByItself
<1> QED BY <1>1, <1>2, <1>3, <1>4, <1>5, <1>6, OwnStep

\* What a command has of itself, after the step of a command that leads from r to q.
Left(r, q, at) ==
  /\ r \in CertCommand /\ q \in CertCommand /\ q.at = at /\ q.op = r.op /\ q.old = r.old /\ q.crossed = r.crossed
  /\ q.rerouted = r.rerouted /\ r.root \in Nat /\ r.old \in Nat /\ CommandRoots(r) /\ Achieved(r)
LEMMA GotoLeft ==
  ASSUME CertInv, NEW c \in CertCommands, NEW at \in CommandSteps, CertGoto(c, at)
  PROVE  /\ Moved(c) /\ Left(certCmd[c], certCmd'[c], at)
         /\ certCmd'[c].root = certCmd[c].root /\ certCmd'[c].file = certCmd[c].file
         /\ certCmd'[c].failed = certCmd[c].failed /\ certCmd'[c].handback = certCmd[c].handback
         /\ certCmd'[c].warned = certCmd[c].warned /\ certCmd'[c].raced = certCmd[c].raced
<1>1. CertTyped /\ certCmd[c] \in CertCommand /\ CommandRoots(certCmd[c]) /\ Achieved(certCmd[c])  BY DEF CertInv, CertTyped
<1>2. certCmd[c].root \in Nat /\ certCmd[c].old \in Nat  BY <1>1 DEF CertCommand
<1> QED BY <1>1, <1>2, GotoFacts DEF Left, Moved

\* The key of the new root.
LEMMA SaveKeyStep ==
  ASSUME CertInv, NEW c \in CertCommands, SaveKey(c)
  PROVE  CertInv'
<1>1. CertTyped /\ certCmd \in [CertCommands -> CertCommand] /\ roots \in Nat /\ AppInv /\ UntornInv /\ certApp \in AppType
      /\ certFiles \in [key : Nat, cert : Nat, install : Nat] /\ certFiles.cert <= roots
  BY DEF CertInv, CertTyped
<1>2. certCmd[c].at = "key" /\ certCmd[c].op = "generate" /\ UNCHANGED <<platform, trust, certApp>> /\ Active(c) /\ ~MidFiles(c)
  BY DEF SaveKey, At, Active, MidFiles
<1>3. CASE CertGoto(c, "err") /\ UNCHANGED <<certFiles, roots, torn>>  BY <1>1, <1>2, <1>3, ErrStep DEF AppInv
<1>4. CASE /\ certFiles' = [certFiles EXCEPT !.key = roots + 1]
           /\ certCmd' = [certCmd EXCEPT ![c].at = "cert", ![c].root = roots + 1]
           /\ roots' = roots + 1 /\ torn' = (torn \/ AmongOthers(c))
  <2>1. PICK r \in CertCommand : r = certCmd[c] /\ CommandRoots(r) /\ Achieved(r)  BY <1>1 DEF CertInv
  <2>20. PICK made \in Nat : made = roots + 1  BY <1>1
  <2>21. "cert" \in CommandSteps  BY DEF CommandSteps
  <2>2. PICK q \in CertCommand : q = [r EXCEPT !.at = "cert", !.root = made]  BY <2>1, <2>21 DEF CertCommand
  <2>3. certCmd'[c] = q /\ certCmd' \in [CertCommands -> CertCommand] /\ \A d \in CertCommands \ {c} : certCmd'[d] = certCmd[d]
    BY <1>1, <1>4, <2>1, <2>2, <2>20
  <2>4. /\ q.at = "cert" /\ q.root = roots + 1 /\ q.failed = r.failed /\ q.op = r.op /\ q.old = r.old /\ q.file = r.file
        /\ q.crossed = r.crossed /\ q.rerouted = r.rerouted /\ r.old \in Nat
    BY <2>1, <2>2, <2>20 DEF CertCommand
  <2>5. certFiles' \in [key : Nat, cert : Nat, install : Nat] /\ certFiles'.key = roots + 1 /\ certFiles'.cert = certFiles.cert
    BY <1>1, <1>4
  <2>6. Moved(c)  BY <2>1, <2>3, <2>4 DEF Moved
  <2>7. CertTyped'
    <3>1. torn' \in BOOLEAN /\ roots' \in Nat  BY <1>1, <1>4
    <3> QED BY <1>1, <1>2, <2>3, <2>5, <3>1 DEF CertTyped
  <2>8. CommandRoots(q)'  BY <1>1, <1>2, <1>4, <2>1, <2>4 DEF CommandRoots
  <2>9. Revoked(q)' <=> Revoked(r)  BY <1>2, <2>4, StoresStay DEF Revoked
  <2>10. Achieved(q)'
    BY <1>2, <2>1, <2>4, <2>5, <2>9 DEF Achieved, ByItself, AchievedFiles, AchievedTrust, AchievedSigners, AchievedShown
  <2>11. UntornInv'
    <3> SUFFICES ASSUME ~torn' PROVE UntornInv'  BY DEF UntornInv
    <3>1. ~torn /\ \A d \in CertCommands \ {c} : ~MidFiles(d)'  BY <1>4, <2>3 DEF AmongOthers, MidFiles
    <3>2. MidFiles(c)'  BY <2>3, <2>4 DEF MidFiles
    <3>3. Shape(q)'  BY <1>2, <2>1, <2>4, <2>5 DEF Shape
    <3>4. Shape(certCmd[c])'  BY <2>3, <3>3 DEF Shape
    <3> QED BY <3>1, <3>2, <3>4 DEF UntornInv
  <2>12. CommandRoots(certCmd[c])' /\ Achieved(certCmd[c])'
    BY <2>3, <2>8, <2>10 DEF CommandRoots, Achieved, ByItself, AchievedFiles, AchievedTrust, AchievedSigners, AchievedShown, Revoked
  <2> QED BY <1>1, <1>2, <1>4, <2>3, <2>4, <2>5, <2>6, <2>7, <2>11, <2>12, OwnStep DEF AppInv
<1> QED BY <1>3, <1>4 DEF SaveKey

\* Its certificate.
LEMMA SaveCertStep ==
  ASSUME CertInv, NEW c \in CertCommands, SaveCert(c)
  PROVE  CertInv'
<1>1. CertTyped /\ certCmd \in [CertCommands -> CertCommand] /\ roots \in Nat /\ AppInv /\ UntornInv /\ certApp \in AppType
      /\ certFiles \in [key : Nat, cert : Nat, install : Nat]
  BY DEF CertInv, CertTyped
<1>2. certCmd[c].at = "cert" /\ certCmd[c].op = "generate" /\ UNCHANGED <<platform, trust, certApp, roots>> /\ Active(c) /\ MidFiles(c)
  BY DEF SaveCert, At, Active, MidFiles
<1>3. CASE CertGoto(c, "err") /\ torn' = TRUE /\ UNCHANGED certFiles  BY <1>1, <1>2, <1>3, ErrStep DEF AppInv
<1>4. CASE certFiles' = [certFiles EXCEPT !.cert = certCmd[c].root] /\ CertGoto(c, "install") /\ UNCHANGED torn
  <2>1. PICK r \in CertCommand : r = certCmd[c]  BY <1>1
  <2>2. PICK q \in CertCommand : q = certCmd'[c] /\ Left(r, q, "install") /\ q.root = r.root /\ q.file = r.file /\ q.failed = r.failed
    BY <1>4, <2>1, GotoLeft DEF CommandSteps, Left
  <2>3. Moved(c)  BY <1>4, GotoLeft DEF CommandSteps
  <2>4. r.root \in Nat /\ r.root # 0 /\ r.root <= roots  BY <1>2, <2>1, <2>2 DEF Left, CommandRoots
  <2>5. certFiles' \in [key : Nat, cert : Nat, install : Nat] /\ certFiles'.key = certFiles.key /\ certFiles'.cert = r.root
    BY <1>1, <1>4, <2>1, <2>4
  <2>6. CertTyped'  BY <1>1, <1>2, <1>4, <2>3, <2>5 DEF CertTyped, Moved
  <2>7. CommandRoots(q)'  BY <1>2, <2>1, <2>2 DEF CommandRoots, Left
  <2>8. Revoked(q)' <=> Revoked(r)  BY <1>2, <2>2, StoresStay DEF Revoked, Left
  <2>9. Achieved(q)'
    BY <1>2, <2>1, <2>2, <2>5, <2>8 DEF Left, Achieved, ByItself, AchievedFiles, AchievedTrust, AchievedSigners, AchievedShown
  <2>10. UntornInv'
    <3> SUFFICES ASSUME ~torn' PROVE UntornInv'  BY DEF UntornInv
    <3>1. Shape(r) /\ \A d \in CertCommands \ {c} : ~MidFiles(d)  BY <1>1, <1>2, <1>4, <2>1 DEF UntornInv
    <3>2. MidFiles(c)' /\ \A d \in CertCommands \ {c} : ~MidFiles(d)'  BY <2>2, <2>3, <3>1 DEF MidFiles, Left, Moved
    <3>3. Shape(q)'  BY <1>2, <2>1, <2>2, <2>5, <3>1 DEF Shape, Left
    <3>4. Shape(certCmd[c])'  BY <2>2, <3>3 DEF Shape
    <3> QED BY <3>2, <3>4 DEF UntornInv
  <2>11. CommandRoots(certCmd[c])' /\ Achieved(certCmd[c])'
    BY <2>2, <2>7, <2>9 DEF CommandRoots, Achieved, ByItself, AchievedFiles, AchievedTrust, AchievedSigners, AchievedShown, Revoked
  <2> QED BY <1>1, <1>2, <1>4, <2>2, <2>3, <2>4, <2>5, <2>6, <2>10, <2>11, OwnStep DEF AppInv, Left
<1> QED BY <1>3, <1>4 DEF SaveCert

\* Its copy, which makes the files whole again.
LEMMA SaveInstallStep ==
  ASSUME CertInv, NEW c \in CertCommands, SaveInstall(c)
  PROVE  CertInv'
<1>1. CertTyped /\ certCmd \in [CertCommands -> CertCommand] /\ roots \in Nat /\ AppInv /\ UntornInv /\ certApp \in AppType /\ SoloInv
      /\ certFiles \in [key : Nat, cert : Nat, install : Nat] /\ certFiles.cert <= roots /\ torn \in BOOLEAN
  BY DEF CertInv, CertTyped
<1>2. certCmd[c].at = "install" /\ certCmd[c].op = "generate" /\ UNCHANGED <<platform, trust, certApp, roots>> /\ Active(c) /\ MidFiles(c)
  BY DEF SaveInstall, At, Active, MidFiles
<1>3. CASE CertGoto(c, "err") /\ torn' = TRUE /\ UNCHANGED certFiles  BY <1>1, <1>2, <1>3, ErrStep DEF AppInv
<1>4. ASSUME certFiles' = [certFiles EXCEPT !.install = certCmd[c].root], torn' = (torn /\ certCmd[c].crossed),
             NEW at \in {"publish", "err"}, CertGoto(c, at)
      PROVE  CertInv'
  <2>1. PICK r \in CertCommand : r = certCmd[c]  BY <1>1
  <2>2. PICK q \in CertCommand : q = certCmd'[c] /\ Left(r, q, at) /\ q.root = r.root /\ q.file = r.file /\ q.failed = r.failed
    BY <1>4, <2>1, GotoLeft DEF CommandSteps, Left
  <2>3. Moved(c)  BY <1>4, GotoLeft DEF CommandSteps
  <2>4. r.root \in Nat /\ r.root # 0 /\ r.crossed \in BOOLEAN  BY <1>2, <2>1, <2>2 DEF Left, CommandRoots, CertCommand
  <2>5. /\ certFiles' \in [key : Nat, cert : Nat, install : Nat] /\ certFiles'.key = certFiles.key /\ certFiles'.cert = certFiles.cert
        /\ certFiles'.install = r.root
    BY <1>1, <1>4, <2>1, <2>4
  <2>6. CertTyped'
    <3>1. torn' \in BOOLEAN  BY <1>1, <1>4, <2>1, <2>4
    <3> QED BY <1>1, <1>2, <2>3, <2>5, <3>1 DEF CertTyped, Moved
  <2>7. CommandRoots(q)'  BY <1>2, <1>4, <2>1, <2>2 DEF CommandRoots, Left
  <2>8. Revoked(q)' <=> Revoked(r)  BY <1>2, <2>2, StoresStay DEF Revoked, Left
  <2>9. Achieved(q)'
    <3>1. CASE at = "err"  BY <2>2, <3>1 DEF Left, Achieved, ByItself
    <3>2. CASE at = "publish"
      BY <1>2, <2>1, <2>2, <2>4, <2>5, <2>8, <3>2 DEF Left, Achieved, ByItself, AchievedFiles, AchievedTrust, AchievedSigners, AchievedShown
    <3> QED BY <1>4, <3>1, <3>2
  <2>10. UntornInv'
    <3> SUFFICES ASSUME ~torn' PROVE UntornInv'  BY DEF UntornInv
    <3>1. certFiles.key = r.root /\ certFiles.cert = r.root /\ \A d \in CertCommands \ {c} : ~MidFiles(d)
      <4>1. CASE ~torn  BY <1>1, <1>2, <2>1, <4>1 DEF UntornInv, Shape
      <4>2. CASE torn
        <5>1. ~r.crossed  BY <1>4, <2>1, <4>2
        <5>2. \A d \in CertCommands \ {c} : ~Active(d)  BY <1>1, <1>2, <2>1, <5>1 DEF SoloInv
        <5>3. certFiles.key = r.root /\ certFiles.cert = r.root
          BY <1>2, <2>1, <2>2, <2>4, <5>1 DEF Left, Achieved, ByItself, AchievedFiles
        <5> QED BY <5>2, <5>3 DEF Active, MidFiles
      <4> QED BY <4>1, <4>2
    <3>2. ~MidFiles(c)' /\ \A d \in CertCommands \ {c} : ~MidFiles(d)'  BY <1>4, <2>2, <2>3, <3>1 DEF MidFiles, Left, Moved
    <3>3. OneRoot'  BY <2>5, <3>1 DEF OneRoot
    <3> QED BY <3>2, <3>3 DEF UntornInv
  <2>11. CommandRoots(certCmd[c])' /\ Achieved(certCmd[c])'
    BY <2>2, <2>7, <2>9 DEF CommandRoots, Achieved, ByItself, AchievedFiles, AchievedTrust, AchievedSigners, AchievedShown, Revoked
  <2> QED BY <1>1, <1>2, <1>4, <2>2, <2>3, <2>5, <2>6, <2>10, <2>11, OwnStep DEF AppInv, Left
<1> QED BY <1>3, <1>4 DEF SaveInstall

\* A step of a command that leaves the files, the stores and the roots.
LEMMA AppStep ==
  ASSUME CertInv, NEW c \in CertCommands, Active(c), Moved(c), certCmd'[c].at \notin {"idle", "cert", "install", "write", "fill"},
         ~MidFiles(c), UNCHANGED <<platform, certFiles, trust, roots, torn>>, certApp' \in AppType, AppInv',
         CommandRoots(certCmd[c])', Achieved(certCmd[c])'
  PROVE  CertInv'
<1>1. CertTyped /\ UntornInv /\ certFiles.cert <= roots  BY DEF CertInv
<1>2. UntornInv'  BY <1>1, FilesRest DEF MidFiles
<1>3. CertTyped'  BY <1>1 DEF CertTyped, Moved
<1> QED BY <1>1, <1>2, <1>3, OwnStep

LEMMA PublishStep ==
  ASSUME CertInv, NEW c \in CertCommands, PublishManager(c)
  PROVE  CertInv'
<1>1. CertTyped /\ certCmd \in [CertCommands -> CertCommand] /\ AppInv /\ certApp \in AppType  BY DEF CertInv, CertTyped
<1>2. /\ certCmd[c].at = "publish" /\ certCmd[c].op = "generate" /\ UNCHANGED <<platform, certFiles, trust, roots, torn>>
      /\ Active(c) /\ ~MidFiles(c)
  BY DEF PublishManager, At, Active, MidFiles
<1>3. CASE CertGoto(c, "err") /\ UNCHANGED certApp  BY <1>1, <1>2, <1>3, ErrStep DEF AppInv
<1>4. CASE certApp' = [certApp EXCEPT !.mgr = Pair(certCmd[c].root, certCmd[c].root)] /\ CertGoto(c, "restart")
  <2>1. PICK r \in CertCommand : r = certCmd[c]  BY <1>1
  <2>2. PICK q \in CertCommand : q = certCmd'[c] /\ Left(r, q, "restart") /\ q.root = r.root /\ q.file = r.file /\ q.failed = r.failed
    BY <1>4, <2>1, GotoLeft DEF CommandSteps, Left
  <2>3. Moved(c)  BY <1>4, GotoLeft DEF CommandSteps
  <2>4. PICK made \in PairType : made = Pair(r.root, r.root)  BY <2>2, PairFacts DEF Left
  <2>5. /\ certApp' \in AppType /\ certApp'.mgr = made /\ certApp'.serving = certApp.serving /\ certApp'.next = certApp.next
        /\ certApp'.running = certApp.running /\ certApp'.starting = certApp.starting
    BY <1>1, <1>4, <2>1, <2>4 DEF AppType
  <2>6. Revoked(q)' <=> Revoked(r)  BY <1>2, <2>2, StoresStay DEF Revoked, Left
  <2>7. CommandRoots(q)'  BY <1>2, <2>1, <2>2 DEF CommandRoots, Left
  <2>8. Achieved(q)'
    <3>1. r.at = "publish" /\ r.op = "generate"  BY <1>2, <2>1
    <3>2. ByItself(q) => AchievedFiles(q)'  BY <1>2, <2>2, <3>1 DEF Left, Achieved, ByItself, AchievedFiles
    <3>3. ByItself(q) => AchievedTrust(q)'  BY <1>2, <2>2, <2>6, <3>1 DEF Left, Achieved, ByItself, AchievedTrust, CommandRoots
    <3>4. AchievedSigners(q)'  BY <2>2, <2>4, <2>5, <3>1 DEF Left, AchievedSigners
    <3> QED BY <2>2, <3>2, <3>3, <3>4 DEF Left, Achieved, ByItself, AchievedShown
  <2>9. CommandRoots(certCmd[c])' /\ Achieved(certCmd[c])'
    BY <2>2, <2>7, <2>8 DEF CommandRoots, Achieved, ByItself, AchievedFiles, AchievedTrust, AchievedSigners, AchievedShown, Revoked
  <2>10. AppInv'  BY <1>1, <2>5 DEF AppInv
  <2> QED BY <1>2, <2>2, <2>3, <2>5, <2>9, <2>10, AppStep DEF Left
<1> QED BY <1>3, <1>4 DEF PublishManager

\* The restart of a proxy that runs takes what the switch and the manager say.
LEMMA RestartFacts ==
  ASSUME CertInv, NEW c \in CertCommands, NEW ssl \in BOOLEAN, certCmd[c].at = "restart", RestartProxy(c, ssl)
  PROVE  /\ UNCHANGED <<platform, certFiles, trust, roots, torn>> /\ certApp' \in AppType /\ AppInv'
         /\ certApp'.mgr = certApp.mgr /\ certApp'.sslMem = certApp.sslMem /\ certApp'.sslDb = certApp.sslDb /\ certApp'.sys = certApp.sys
         /\ \/ CertGoto(c, "err")
            \/ /\ Moved(c) /\ Left(certCmd[c], certCmd'[c], "status")
               /\ certCmd'[c].root = certCmd[c].root /\ certCmd'[c].file = certCmd[c].file
               /\ certCmd'[c].failed = certCmd[c].failed /\ certCmd'[c].handback = certCmd[c].handback
               /\ certCmd'[c].warned = certCmd[c].warned
               /\ ~certCmd'[c].raced => certApp'.next = NoPair /\ certApp'.serving \in {NoPair, Interceptor(ssl)}
<1>1. CertTyped /\ certCmd \in [CertCommands -> CertCommand] /\ AppInv /\ certApp \in AppType
      /\ CommandRoots(certCmd[c]) /\ Achieved(certCmd[c])
  BY DEF CertInv, CertTyped
<1>2. UNCHANGED <<platform, certFiles, trust, roots, torn>>  BY DEF RestartProxy
<1>3. CASE ~certApp.running /\ UNCHANGED certApp /\ certCmd' = [certCmd EXCEPT ![c].at = "status", ![c].raced = certApp.starting # "no"]
  <2>1. PICK r \in CertCommand : r = certCmd[c]  BY <1>1
  <2>2. PICK b \in BOOLEAN : b = (certApp.starting # "no")  OBVIOUS
  <2>3. PICK q \in CertCommand : q = [r EXCEPT !.at = "status", !.raced = b]  BY <2>1 DEF CertCommand, CommandSteps
  <2>4. certCmd'[c] = q /\ certCmd' \in [CertCommands -> CertCommand] /\ \A d \in CertCommands \ {c} : certCmd'[d] = certCmd[d]
    BY <1>1, <1>3, <2>1, <2>2, <2>3
  <2>5. /\ q.at = "status" /\ q.root = r.root /\ q.failed = r.failed /\ q.op = r.op /\ q.old = r.old /\ q.file = r.file
        /\ q.crossed = r.crossed /\ q.rerouted = r.rerouted /\ q.handback = r.handback /\ q.warned = r.warned /\ q.raced = b
        /\ r.old \in Nat /\ r.root \in Nat
    BY <2>1, <2>3 DEF CertCommand
  <2>6. Moved(c) /\ Left(certCmd[c], certCmd'[c], "status")  BY <1>1, <2>1, <2>4, <2>5 DEF Moved, Left
  <2>7. ~b => certApp.next = NoPair /\ certApp.serving = NoPair  BY <1>1, <1>3, <2>2 DEF AppInv
  <2>8. certApp' \in AppType /\ AppInv'  BY <1>1, <1>3 DEF AppInv
  <2> QED BY <1>2, <1>3, <2>1, <2>4, <2>5, <2>6, <2>7, <2>8
<1>4. CASE certApp.running /\ MayStart(ssl) /\ certApp' = Restarted(ssl) /\ CertGoto(c, "status")
  <2>1. PICK i \in PairType : i = Interceptor(ssl)  BY <1>1, InterceptorFacts
  <2>2. certApp' = [certApp EXCEPT !.running = TRUE, !.serving = i]  BY <1>4, <2>1 DEF Restarted
  <2>3. /\ certApp' \in AppType /\ certApp'.starting = certApp.starting /\ certApp'.next = certApp.next /\ certApp'.mgr = certApp.mgr
        /\ certApp'.running /\ certApp'.serving = i
        /\ certApp'.sslMem = certApp.sslMem /\ certApp'.sslDb = certApp.sslDb /\ certApp'.sys = certApp.sys
    BY <1>1, <2>2 DEF AppType
  <2>4. certApp.starting = "no" /\ certApp.next = NoPair  BY <1>1, <1>4 DEF AppInv, AppType
  <2>5. AppInv'  BY <2>3, <2>4 DEF AppInv
  <2> QED BY <1>2, <1>4, <2>1, <2>3, <2>4, <2>5, GotoLeft DEF CommandSteps
<1>5. CASE certApp.running /\ certApp' = StoppedByRestart /\ CertGoto(c, "err")
  <2>1. certApp' = [certApp EXCEPT !.running = FALSE, !.serving = NoPair]  BY <1>5 DEF StoppedByRestart
  <2>2. /\ certApp' \in AppType /\ certApp'.starting = certApp.starting /\ certApp'.next = certApp.next /\ certApp'.mgr = certApp.mgr
        /\ ~certApp'.running /\ certApp'.serving = NoPair
        /\ certApp'.sslMem = certApp.sslMem /\ certApp'.sslDb = certApp.sslDb /\ certApp'.sys = certApp.sys
    BY <1>1, <2>1, PairFacts DEF AppType
  <2>3. AppInv'  BY <1>1, <2>2 DEF AppInv
  <2> QED BY <1>2, <1>5, <2>2, <2>3
<1> QED BY <1>3, <1>4, <1>5 DEF RestartProxy

LEMMA RestartSteps ==
  ASSUME CertInv, NEW c \in CertCommands, GenerateRestart(c) \/ RemoveRestart(c)
  PROVE  CertInv'
<1>1. CertTyped /\ certCmd \in [CertCommands -> CertCommand] /\ certApp \in AppType /\ certApp.sslMem \in BOOLEAN
  BY DEF CertInv, CertTyped, AppType
<1>2. certCmd[c].at = "restart" /\ certCmd[c].op \in {"generate", "remove"} /\ Active(c) /\ ~MidFiles(c)
  BY DEF GenerateRestart, RemoveRestart, At, Active, MidFiles
<1>3. PICK ssl \in BOOLEAN : RestartProxy(c, ssl) /\ (certCmd[c].op = "remove" => ~ssl)
  BY <1>1 DEF GenerateRestart, RemoveRestart, At
<1>4. /\ UNCHANGED <<platform, certFiles, trust, roots, torn>> /\ certApp' \in AppType /\ AppInv'
      /\ certApp'.mgr = certApp.mgr /\ certApp'.sslMem = certApp.sslMem /\ certApp'.sslDb = certApp.sslDb /\ certApp'.sys = certApp.sys
  BY <1>2, <1>3, RestartFacts
<1>5. CASE CertGoto(c, "err")  BY <1>2, <1>4, <1>5, ErrStep
<1>6. ASSUME Moved(c), NEW r, NEW q, r = certCmd[c], q = certCmd'[c], Left(r, q, "status"), q.root = r.root, q.file = r.file,
             q.failed = r.failed, q.handback = r.handback, q.warned = r.warned,
             ~q.raced => certApp'.next = NoPair /\ certApp'.serving \in {NoPair, Interceptor(ssl)}
      PROVE  CertInv'
  <2>1. r.at = "restart" /\ r.op \in {"generate", "remove"} /\ r.root \in Nat /\ r.old \in Nat /\ CommandRoots(r) /\ Achieved(r)
        /\ q.at = "status" /\ q.op = r.op /\ q.old = r.old /\ q.crossed = r.crossed /\ q.rerouted = r.rerouted
    BY <1>2, <1>6 DEF Left
  <2>2. Revoked(q)' <=> Revoked(r)  BY <1>4, <1>6, <2>1, StoresStay DEF Revoked
  <2>3. CommandRoots(q)'  BY <1>4, <1>6, <2>1 DEF CommandRoots
  <2>4. r.op = "generate" => r.root # 0 /\ r.old < r.root  BY <2>1 DEF CommandRoots
  <2>5. r.op = "remove" => r.root = 0  BY <2>1 DEF CommandRoots
  <2>6. ByItself(q) => AchievedFiles(q)' /\ AchievedTrust(q)'
    BY <1>4, <1>6, <2>1, <2>2 DEF Achieved, ByItself, AchievedFiles, AchievedTrust
  <2>7. ASSUME r.op = "generate", ByItself(q) PROVE AchievedSigners(q)'
    <3>1. PICK made \in PairType : made = Pair(r.root, r.root) /\ made.cert = r.root /\ made # NoPair
      BY <2>1, <2>4, <2>7, PairFacts
    <3>2. certApp.mgr = made  BY <2>1, <2>4, <2>7, <3>1 DEF Achieved, ByItself, AchievedSigners
    <3>3. Interceptor(ssl) \in {NoPair, made}  BY <1>1, <3>1, <3>2, InterceptorFacts
    <3>4. ~q.raced /\ r.old # 0 => certApp'.serving.cert # r.old /\ certApp'.next.cert # r.old
      BY <1>6, <2>1, <2>4, <2>7, <3>1, <3>3, PairFacts
    <3> QED BY <1>4, <1>6, <2>1, <2>7, <3>1, <3>2, <3>4 DEF AchievedSigners
  <2>8. ASSUME r.op = "remove", ByItself(q) PROVE AchievedSigners(q)'
    <3>1. Interceptor(ssl) = NoPair  BY <1>1, <1>3, <1>6, <2>8, InterceptorFacts
    <3>2. ~q.raced => certApp'.serving = NoPair /\ certApp'.next = NoPair  BY <1>6, <3>1
    <3>3. certApp.mgr = NoPair /\ ~certApp.sslMem /\ (certApp.sslDb => r.warned) /\ (certApp.sys => r.handback \/ r.rerouted)
      BY <2>1, <2>8 DEF Achieved, ByItself, AchievedSigners
    <3> QED BY <1>4, <1>6, <2>1, <2>5, <2>8, <3>2, <3>3 DEF AchievedSigners
  <2>9. Achieved(q)'  BY <2>1, <2>6, <2>7, <2>8 DEF Achieved, ByItself, AchievedShown
  <2>10. CommandRoots(certCmd[c])' /\ Achieved(certCmd[c])'
    BY <1>6, <2>3, <2>9 DEF CommandRoots, Achieved, ByItself, AchievedFiles, AchievedTrust, AchievedSigners, AchievedShown, Revoked
  <2> QED BY <1>2, <1>4, <1>6, <2>1, <2>10, AppStep
<1> QED BY <1>2, <1>3, <1>5, <1>6, RestartFacts

\* A removal deletes the key, the certificate and the copy, which leaves the files whole again.
LEMMA RemoveSteps ==
  ASSUME CertInv, NEW c \in CertCommands, remove_root_cert(c)
  PROVE  CertInv'
<1>1. CertTyped /\ certCmd \in [CertCommands -> CertCommand] /\ roots \in Nat /\ AppInv /\ UntornInv /\ certApp \in AppType /\ SoloInv
      /\ certFiles \in [key : Nat, cert : Nat, install : Nat] /\ certFiles.cert <= roots /\ torn \in BOOLEAN
  BY DEF CertInv, CertTyped
<1>2. PICK at \in {"key", "cert", "install"}, next \in {"cert", "install", "demote"} :
        RemoveStep(c, at, at, next) /\ (at = "key" => next = "cert") /\ (at = "cert" => next = "install") /\ (at = "install" => next = "demote")
  BY DEF remove_root_cert
<1>3. certCmd[c].at = at /\ certCmd[c].op = "remove" /\ UNCHANGED <<platform, trust, certApp, roots>> /\ Active(c) /\ (MidFiles(c) <=> at # "key")
  BY <1>2 DEF RemoveStep, At, Active, MidFiles
<1>4. CASE CertGoto(c, "err") /\ torn' = (torn \/ at # "key") /\ UNCHANGED certFiles  BY <1>1, <1>3, <1>4, ErrStep DEF AppInv
<1>5. CASE /\ certFiles' = [certFiles EXCEPT ![at] = 0] /\ CertGoto(c, next)
           /\ torn' = CASE at = "key" -> torn \/ AmongOthers(c)
                        [] at = "cert" -> torn
                        [] at = "install" -> torn /\ certCmd[c].crossed
  <2>1. PICK r \in CertCommand : r = certCmd[c]  BY <1>1
  <2>2. next \in CommandSteps  BY DEF CommandSteps
  <2>3. PICK q \in CertCommand : q = certCmd'[c] /\ Left(r, q, next) /\ q.root = r.root /\ q.file = r.file /\ q.failed = r.failed /\ Moved(c)
    BY <1>5, <2>1, <2>2, GotoLeft DEF Left
  <2>4. /\ r.at = at /\ r.op = "remove" /\ r.root = 0 /\ CommandRoots(r) /\ Achieved(r) /\ r.crossed \in BOOLEAN
        /\ q.at = next /\ q.op = r.op /\ q.old = r.old /\ q.crossed = r.crossed
    BY <1>3, <2>1, <2>3 DEF Left, CommandRoots, CertCommand
  <2>5. certFiles' \in [key : Nat, cert : Nat, install : Nat]  BY <1>1, <1>5
  <2>6. /\ certFiles'.key = (IF at = "key" THEN 0 ELSE certFiles.key) /\ certFiles'.cert = (IF at = "cert" THEN 0 ELSE certFiles.cert)
        /\ certFiles'.install = (IF at = "install" THEN 0 ELSE certFiles.install)
    BY <1>1, <1>5
  <2>7. /\ at = "key" => torn' = (torn \/ AmongOthers(c))
        /\ at = "cert" => torn' = torn
        /\ at = "install" => torn' = (torn /\ r.crossed)
    BY <1>5, <2>1
  <2>8. CertTyped'
    <3>1. torn' \in BOOLEAN  BY <1>1, <2>4, <2>7
    <3> QED BY <1>1, <1>3, <2>3, <2>5, <3>1 DEF CertTyped, Moved
  <2>9. CommandRoots(q)'  BY <1>2, <1>3, <2>3, <2>4 DEF CommandRoots
  <2>10. Revoked(q)' <=> Revoked(r)  BY <1>3, <2>3, <2>4, StoresStay DEF Revoked
  <2>11. Achieved(q)'
    <3> SUFFICES ASSUME ByItself(q) PROVE AchievedFiles(q)' /\ AchievedTrust(q)' /\ AchievedSigners(q)' /\ AchievedShown(q)'
      BY DEF Achieved, ByItself
    <3>1. AchievedFiles(r) /\ AchievedTrust(r)  BY <1>3, <2>4 DEF Achieved, ByItself
    <3>2. AchievedFiles(q)'  BY <1>2, <2>3, <2>4, <2>6, <3>1 DEF AchievedFiles
    <3>3. AchievedTrust(q)'  BY <1>2, <2>3, <2>4, <2>10, <3>1 DEF AchievedTrust
    <3> QED BY <1>2, <2>3, <2>4, <3>2, <3>3 DEF AchievedSigners, AchievedShown
  <2>12. UntornInv'
    <3> SUFFICES ASSUME ~torn' PROVE UntornInv'  BY DEF UntornInv
    <3>1. \A d \in CertCommands \ {c} : MidFiles(d)' <=> MidFiles(d)  BY <2>3 DEF MidFiles, Moved
    <3>2. CASE at = "key"
      <4>1. \A d \in CertCommands \ {c} : ~MidFiles(d)'  BY <2>7, <3>1, <3>2 DEF AmongOthers
      <4>2. MidFiles(c)' /\ Shape(q)'  BY <1>2, <2>3, <2>4, <2>6, <3>2 DEF MidFiles, Shape
      <4>3. Shape(certCmd[c])'  BY <2>3, <4>2 DEF Shape
      <4> QED BY <4>1, <4>2, <4>3 DEF UntornInv
    <3>3. CASE at = "cert"
      <4>1. Shape(r) /\ \A d \in CertCommands \ {c} : ~MidFiles(d)  BY <1>1, <1>3, <2>1, <2>7, <3>3 DEF UntornInv
      <4>2. MidFiles(c)' /\ Shape(q)'  BY <1>2, <2>3, <2>4, <2>6, <3>3, <4>1 DEF MidFiles, Shape
      <4>3. Shape(certCmd[c])'  BY <2>3, <4>2 DEF Shape
      <4> QED BY <3>1, <4>1, <4>2, <4>3 DEF UntornInv
    <3>4. CASE at = "install"
      <4>1. certFiles.key = 0 /\ certFiles.cert = 0 /\ \A d \in CertCommands \ {c} : ~MidFiles(d)
        <5>1. CASE ~torn  BY <1>1, <1>3, <2>1, <2>4, <3>4, <5>1 DEF UntornInv, Shape
        <5>2. CASE torn
          <6>1. ~r.crossed  BY <2>7, <3>4, <5>2
          <6>2. \A d \in CertCommands \ {c} : ~Active(d)  BY <1>1, <1>3, <2>1, <3>4, <6>1 DEF SoloInv
          <6>3. certFiles.key = 0 /\ certFiles.cert = 0  BY <2>4, <3>4, <6>1 DEF Achieved, ByItself, AchievedFiles
          <6> QED BY <6>2, <6>3 DEF Active, MidFiles
        <5> QED BY <5>1, <5>2
      <4>2. ~MidFiles(c)' /\ OneRoot'  BY <1>2, <2>3, <2>4, <2>6, <3>4, <4>1 DEF MidFiles, OneRoot
      <4> QED BY <3>1, <4>1, <4>2 DEF UntornInv
    <3> QED BY <3>2, <3>3, <3>4
  <2>13. CommandRoots(certCmd[c])' /\ Achieved(certCmd[c])'
    BY <2>3, <2>9, <2>11 DEF CommandRoots, Achieved, ByItself, AchievedFiles, AchievedTrust, AchievedSigners, AchievedShown, Revoked
  <2>14. certFiles'.cert <= roots' /\ AppInv'  BY <1>1, <1>3, <2>6 DEF AppInv
  <2> QED BY <1>3, <2>3, <2>4, <2>8, <2>12, <2>13, <2>14, OwnStep
<1> QED BY <1>2, <1>4, <1>5 DEF RemoveStep

\* The manager and the switch go, then the system is handed back.
LEMMA DemoteSteps ==
  ASSUME CertInv, NEW c \in CertCommands, DemoteWorkspace(c) \/ HandBack(c)
  PROVE  CertInv'
<1>1. CertTyped /\ certCmd \in [CertCommands -> CertCommand] /\ AppInv /\ certApp \in AppType /\ CommandRoots(certCmd[c]) /\ Achieved(certCmd[c])
  BY DEF CertInv, CertTyped
<1>2. /\ certCmd[c].at \in {"demote", "handback"} /\ certCmd[c].op = "remove" /\ UNCHANGED <<platform, certFiles, trust, roots, torn>>
      /\ Active(c) /\ ~MidFiles(c)
  BY DEF DemoteWorkspace, HandBack, At, Active, MidFiles
<1>3. PICK r \in CertCommand : r = certCmd[c] /\ r.root = 0 /\ r.old \in Nat /\ r.at \in {"demote", "handback"} /\ r.op = "remove"
                               /\ CommandRoots(r) /\ Achieved(r)
  BY <1>1, <1>2 DEF CertCommand, CommandRoots
<1>4. ASSUME NEW q \in CertCommand, certCmd' = [certCmd EXCEPT ![c] = q], q.at \in {"handback", "restart"}, q.op = r.op, q.old = r.old, q.root = r.root,
             q.file = r.file, q.failed = r.failed, q.crossed = r.crossed, q.rerouted = r.rerouted, certApp' \in AppType,
             certApp'.running = certApp.running, certApp'.starting = certApp.starting, certApp'.next = certApp.next,
             certApp'.serving = certApp.serving, ByItself(q) => AchievedSigners(q)'
      PROVE  CertInv'
  <2>1. certCmd'[c] = q /\ Moved(c)  BY <1>1, <1>3, <1>4 DEF Moved
  <2>2. Revoked(q)' <=> Revoked(r)  BY <1>2, <1>4, StoresStay DEF Revoked
  <2>3. CommandRoots(q)'  BY <1>2, <1>3, <1>4 DEF CommandRoots
  <2>4. Achieved(q)'  BY <1>2, <1>3, <1>4, <2>2 DEF Achieved, ByItself, AchievedFiles, AchievedTrust, AchievedShown
  <2>5. CommandRoots(certCmd[c])' /\ Achieved(certCmd[c])'
    BY <2>1, <2>3, <2>4 DEF CommandRoots, Achieved, ByItself, AchievedFiles, AchievedTrust, AchievedSigners, AchievedShown, Revoked
  <2>6. AppInv'  BY <1>1, <1>4 DEF AppInv
  <2> QED BY <1>2, <1>4, <2>1, <2>5, <2>6, AppStep
<1>5. CASE DemoteWorkspace(c)
  <2>1. PICK saved \in BOOLEAN : /\ certApp' = [certApp EXCEPT !.mgr = NoPair, !.sslMem = FALSE, !.sslDb = @ /\ ~saved]
                                 /\ certCmd' = [certCmd EXCEPT ![c].at = "handback", ![c].warned = ~saved]
    BY <1>5 DEF DemoteWorkspace
  <2>2. PICK w \in BOOLEAN : w = ~saved  OBVIOUS
  <2>3. PICK q \in CertCommand : q = [r EXCEPT !.at = "handback", !.warned = w]  BY <1>3 DEF CertCommand, CommandSteps
  <2>4. /\ q.at = "handback" /\ q.op = r.op /\ q.old = r.old /\ q.root = r.root /\ q.file = r.file /\ q.failed = r.failed /\ q.crossed = r.crossed
        /\ q.rerouted = r.rerouted /\ q.warned = w
    BY <1>3, <2>3 DEF CertCommand
  <2>5. certCmd' = [certCmd EXCEPT ![c] = q]  BY <1>1, <1>3, <2>1, <2>2, <2>3
  <2>6. PICK b \in BOOLEAN : b = (certApp.sslDb /\ ~saved)  OBVIOUS
  <2>7. certApp' = [certApp EXCEPT !.mgr = NoPair, !.sslMem = FALSE, !.sslDb = b]  BY <1>1, <2>1, <2>6 DEF AppType
  <2>8. /\ certApp' \in AppType /\ certApp'.running = certApp.running /\ certApp'.starting = certApp.starting /\ certApp'.next = certApp.next
        /\ certApp'.serving = certApp.serving /\ certApp'.mgr = NoPair /\ ~certApp'.sslMem /\ certApp'.sslDb = b
    BY <1>1, <2>7, PairFacts DEF AppType
  <2>9. AchievedSigners(q)'  BY <1>3, <2>2, <2>4, <2>6, <2>8 DEF AchievedSigners
  <2> QED BY <1>4, <2>4, <2>5, <2>8, <2>9
<1>6. CASE HandBack(c)
  <2>1. r.at = "handback"  BY <1>3, <1>6 DEF HandBack, At
  <2>2. ByItself(r) => certApp.mgr = NoPair /\ ~certApp.sslMem /\ (certApp.sslDb => r.warned)
    BY <1>3, <2>1 DEF Achieved, AchievedSigners
  <2>3. CASE certApp' = [certApp EXCEPT !.sys = FALSE] /\ CertGoto(c, "restart")
    <3>1. PICK q \in CertCommand : q = [r EXCEPT !.at = "restart"]  BY <1>3 DEF CertCommand, CommandSteps
    <3>2. /\ q.at = "restart" /\ q.op = r.op /\ q.old = r.old /\ q.root = r.root /\ q.file = r.file /\ q.failed = r.failed /\ q.crossed = r.crossed
          /\ q.rerouted = r.rerouted /\ q.warned = r.warned
      BY <1>3, <3>1 DEF CertCommand
    <3>3. certCmd' = [certCmd EXCEPT ![c] = q]  BY <1>1, <1>3, <2>3, <3>1 DEF CertGoto
    <3>4. /\ certApp' \in AppType /\ certApp'.running = certApp.running /\ certApp'.starting = certApp.starting /\ certApp'.next = certApp.next
          /\ certApp'.serving = certApp.serving /\ certApp'.mgr = certApp.mgr /\ certApp'.sslMem = certApp.sslMem
          /\ certApp'.sslDb = certApp.sslDb /\ ~certApp'.sys
      BY <1>1, <2>3 DEF AppType
    <3>5. ByItself(q) => AchievedSigners(q)'  BY <1>3, <2>1, <2>2, <3>2, <3>4 DEF AchievedSigners, ByItself
    <3> QED BY <1>4, <3>2, <3>3, <3>4, <3>5
  <2>4. CASE certCmd' = [certCmd EXCEPT ![c].at = "restart", ![c].handback = TRUE] /\ UNCHANGED certApp
    <3>1. PICK q \in CertCommand : q = [r EXCEPT !.at = "restart", !.handback = TRUE]  BY <1>3 DEF CertCommand, CommandSteps
    <3>2. /\ q.at = "restart" /\ q.op = r.op /\ q.old = r.old /\ q.root = r.root /\ q.file = r.file /\ q.failed = r.failed /\ q.crossed = r.crossed
          /\ q.rerouted = r.rerouted /\ q.warned = r.warned /\ q.handback
      BY <1>3, <3>1 DEF CertCommand
    <3>3. certCmd' = [certCmd EXCEPT ![c] = q]  BY <1>1, <1>3, <2>4, <3>1
    <3>4. ByItself(q) => AchievedSigners(q)'  BY <1>3, <2>1, <2>2, <2>4, <3>2 DEF AchievedSigners, ByItself
    <3> QED BY <1>1, <1>4, <2>4, <3>2, <3>3, <3>4
  <2> QED BY <1>6, <2>3, <2>4 DEF HandBack
<1> QED BY <1>5, <1>6

LEMMA StatusStep ==
  ASSUME CertInv, NEW c \in CertCommands, get_certificate_status(c)
  PROVE  CertInv'
<1>1. CertTyped /\ AppInv /\ certApp \in AppType  BY DEF CertInv, CertTyped
<1>2. certCmd[c].at = "status" /\ UNCHANGED <<platform, certFiles, trust, certApp, roots, torn>> /\ Active(c) /\ ~MidFiles(c) /\ AppInv'
  BY <1>1 DEF get_certificate_status, Active, MidFiles, AppInv
<1>3. CASE CertGoto(c, "err")  BY <1>1, <1>2, <1>3, ErrStep
<1>4. ASSUME NEW at \in {"ok", "look", "open"}, CertGoto(c, at), at # "ok" => root_cert_exists PROVE CertInv'
  <2>1. PICK r \in CertCommand, q \in CertCommand : r = certCmd[c] /\ q = certCmd'[c] /\ Left(r, q, at)
    BY <1>4, GotoLeft DEF CommandSteps, Left
  <2>2. /\ Moved(c) /\ q.root = r.root /\ q.file = r.file /\ q.failed = r.failed /\ q.handback = r.handback /\ q.warned = r.warned /\ q.raced = r.raced
    BY <1>4, <2>1, GotoLeft DEF CommandSteps
  <2>3. /\ r.at = "status" /\ CommandRoots(r) /\ Achieved(r) /\ q.at = at /\ q.op = r.op /\ q.old = r.old /\ q.crossed = r.crossed
        /\ q.rerouted = r.rerouted /\ r.file = 0
    BY <1>2, <2>1 DEF Left, CommandRoots
  <2>4. CommandRoots(q)'  BY <1>2, <1>4, <2>2, <2>3 DEF CommandRoots
  <2>5. Revoked(q)' <=> Revoked(r)  BY <1>2, <2>2, <2>3, StoresStay DEF Revoked
  <2>6. Achieved(q)'
    <3> SUFFICES ASSUME ByItself(q) PROVE AchievedFiles(q)' /\ AchievedTrust(q)' /\ AchievedSigners(q)' /\ AchievedShown(q)'
      BY DEF Achieved, ByItself
    <3>1. AchievedFiles(r) /\ AchievedTrust(r) /\ AchievedSigners(r)  BY <2>3 DEF Achieved, ByItself
    <3>2. r.op = "remove" => at = "ok"  BY <1>4, <2>3, <3>1 DEF AchievedFiles, root_cert_exists
    <3>3. AchievedFiles(q)'  BY <1>2, <1>4, <2>2, <2>3, <3>1, <3>2 DEF AchievedFiles
    <3>4. AchievedTrust(q)'  BY <1>4, <2>2, <2>3, <2>5, <3>1 DEF AchievedTrust
    <3>5. AchievedSigners(q)'  BY <1>2, <1>4, <2>2, <2>3, <3>1, <3>2 DEF AchievedSigners
    <3>6. AchievedShown(q)'  BY <2>2, <2>3 DEF AchievedShown
    <3> QED BY <3>3, <3>4, <3>5, <3>6
  <2>7. CommandRoots(certCmd[c])' /\ Achieved(certCmd[c])'
    BY <2>1, <2>4, <2>6 DEF CommandRoots, Achieved, ByItself, AchievedFiles, AchievedTrust, AchievedSigners, AchievedShown, Revoked
  <2> QED BY <1>1, <1>2, <1>4, <2>1, <2>2, <2>3, <2>7, AppStep
<1> QED BY <1>3, <1>4 DEF get_certificate_status

LEMMA LookStep ==
  ASSUME CertInv, NEW c \in CertCommands, LookForCopy(c)
  PROVE  CertInv'
<1>1. CertTyped /\ AppInv /\ certApp \in AppType  BY DEF CertInv, CertTyped
<1>2. certCmd[c].at = "look" /\ UNCHANGED <<platform, certFiles, trust, certApp, roots, torn>> /\ Active(c) /\ ~MidFiles(c) /\ AppInv'
  BY <1>1 DEF LookForCopy, Active, MidFiles, AppInv
<1>3. PICK at \in {"open", "read"} : CertGoto(c, at) /\ (at = "read" => certFiles.install = 0)  BY DEF LookForCopy
<1>4. PICK r \in CertCommand, q \in CertCommand : r = certCmd[c] /\ q = certCmd'[c] /\ Left(r, q, at)
  BY <1>3, GotoLeft DEF CommandSteps, Left
<1>5. Moved(c) /\ q.root = r.root /\ q.file = r.file /\ q.failed = r.failed /\ q.raced = r.raced
  BY <1>3, <1>4, GotoLeft DEF CommandSteps
<1>6. /\ r.at = "look" /\ CommandRoots(r) /\ Achieved(r) /\ q.at = at /\ q.op = r.op /\ q.old = r.old /\ q.crossed = r.crossed
  BY <1>2, <1>4 DEF Left
<1>7. CommandRoots(q)'  BY <1>2, <1>3, <1>5, <1>6 DEF CommandRoots
<1>8. Revoked(q)' <=> Revoked(r)  BY <1>2, <1>5, <1>6, StoresStay DEF Revoked
<1>9. Achieved(q)'
  BY <1>2, <1>3, <1>5, <1>6, <1>8 DEF Achieved, ByItself, AchievedFiles, AchievedTrust, AchievedSigners, AchievedShown
<1>10. CommandRoots(certCmd[c])' /\ Achieved(certCmd[c])'
  BY <1>4, <1>7, <1>9 DEF CommandRoots, Achieved, ByItself, AchievedFiles, AchievedTrust, AchievedSigners, AchievedShown, Revoked
<1> QED BY <1>1, <1>2, <1>3, <1>4, <1>5, <1>6, <1>10, AppStep

LEMMA ReadStep ==
  ASSUME CertInv, NEW c \in CertCommands, ReadForCopy(c)
  PROVE  CertInv'
<1>1. CertTyped /\ AppInv /\ certApp \in AppType /\ certCmd \in [CertCommands -> CertCommand] /\ UntornInv /\ torn \in BOOLEAN
      /\ certFiles.cert \in Nat /\ certFiles.cert <= roots
  BY DEF CertInv, CertTyped
<1>2. certCmd[c].at = "read" /\ UNCHANGED <<platform, certFiles, trust, certApp, roots>> /\ Active(c) /\ ~MidFiles(c) /\ AppInv'
  BY <1>1 DEF ReadForCopy, Active, MidFiles, AppInv
<1>3. CASE CertGoto(c, "err") /\ UNCHANGED torn  BY <1>1, <1>2, <1>3, ErrStep
<1>4. CASE /\ certCmd' = [certCmd EXCEPT ![c].at = "write", ![c].file = certFiles.cert]
           /\ torn' = (torn \/ AmongOthers(c))
  <2>1. PICK r \in CertCommand : r = certCmd[c] /\ CommandRoots(r) /\ Achieved(r) /\ r.at = "read"  BY <1>1, <1>2 DEF CertInv
  <2>2. PICK file \in Nat : file = certFiles.cert  BY <1>1
  <2>3. PICK q \in CertCommand : q = [r EXCEPT !.at = "write", !.file = file]  BY <2>1, <2>2 DEF CertCommand, CommandSteps
  <2>4. certCmd'[c] = q /\ certCmd' \in [CertCommands -> CertCommand] /\ \A d \in CertCommands \ {c} : certCmd'[d] = certCmd[d]
    BY <1>1, <1>4, <2>1, <2>2, <2>3
  <2>5. /\ q.at = "write" /\ q.file = file /\ q.root = r.root /\ q.failed = r.failed /\ q.op = r.op /\ q.old = r.old
        /\ q.crossed = r.crossed /\ q.rerouted = r.rerouted
    BY <2>1, <2>3 DEF CertCommand
  <2>6. Moved(c)  BY <2>1, <2>4, <2>5 DEF Moved
  <2>7. CertTyped'  BY <1>1, <1>2, <1>4, <2>4 DEF CertTyped
  <2>8. CommandRoots(q)'  BY <1>2, <2>1, <2>5 DEF CommandRoots
  <2>9. Achieved(q)'  BY <1>2, <2>1, <2>5 DEF Achieved, ByItself, AchievedFiles, AchievedTrust, AchievedSigners, AchievedShown
  <2>10. UntornInv'
    <3> SUFFICES ASSUME ~torn' PROVE UntornInv'  BY DEF UntornInv
    <3>1. ~torn /\ \A d \in CertCommands : ~MidFiles(d)  BY <1>2, <1>4 DEF AmongOthers
    <3>2. OneRoot  BY <1>1, <3>1 DEF UntornInv
    <3>3. MidFiles(c)' /\ \A d \in CertCommands \ {c} : ~MidFiles(d)'  BY <2>4, <2>5, <3>1 DEF MidFiles
    <3>4. OneRoot' /\ certFiles.key = certFiles.cert  BY <1>2, <3>2 DEF OneRoot
    <3>5. Shape(certCmd[c])'  BY <1>2, <2>2, <2>4, <2>5, <3>4 DEF Shape
    <3> QED BY <3>3, <3>5 DEF UntornInv
  <2>11. CommandRoots(certCmd[c])' /\ Achieved(certCmd[c])'
    BY <2>4, <2>8, <2>9 DEF CommandRoots, Achieved, ByItself, AchievedFiles, AchievedTrust, AchievedSigners, AchievedShown, Revoked
  <2> QED BY <1>1, <1>2, <2>4, <2>5, <2>6, <2>7, <2>10, <2>11, OwnStep
<1> QED BY <1>3, <1>4 DEF ReadForCopy

LEMMA OpenStep ==
  ASSUME CertInv, NEW c \in CertCommands, OpenCopy(c)
  PROVE  CertInv'
<1>1. CertTyped /\ AppInv /\ certApp \in AppType /\ UntornInv /\ certFiles \in [key : Nat, cert : Nat, install : Nat] /\ certFiles.cert <= roots
      /\ Cut \in Nat
  BY CertificatesAssumption DEF CertInv, CertTyped, Cut
<1>2. certCmd[c].at = "write" /\ UNCHANGED <<platform, trust, certApp, roots, torn>> /\ Active(c) /\ MidFiles(c) /\ AppInv'
  BY <1>1 DEF OpenCopy, Active, MidFiles, AppInv
<1>3. CASE CertGoto(c, "err") /\ UNCHANGED certFiles  BY <1>1, <1>2, <1>3, ErrStep
<1>4. CASE certFiles' = [certFiles EXCEPT !.install = Cut] /\ CertGoto(c, "fill")
  <2>1. PICK r \in CertCommand, q \in CertCommand : r = certCmd[c] /\ q = certCmd'[c] /\ Left(r, q, "fill")
    BY <1>4, GotoLeft DEF CommandSteps, Left
  <2>2. Moved(c) /\ q.root = r.root /\ q.file = r.file /\ q.failed = r.failed  BY <1>4, <2>1, GotoLeft DEF CommandSteps
  <2>3. /\ r.at = "write" /\ CommandRoots(r) /\ Achieved(r) /\ q.at = "fill" /\ q.op = r.op /\ q.old = r.old /\ q.crossed = r.crossed
    BY <1>2, <2>1 DEF Left
  <2>4. /\ certFiles' \in [key : Nat, cert : Nat, install : Nat] /\ certFiles'.key = certFiles.key /\ certFiles'.cert = certFiles.cert
        /\ certFiles'.install = Cut
    BY <1>1, <1>4
  <2>5. CertTyped'  BY <1>1, <1>2, <2>2, <2>4 DEF CertTyped, Moved
  <2>6. CommandRoots(q)'  BY <1>2, <2>2, <2>3 DEF CommandRoots
  <2>7. Achieved(q)'  BY <2>2, <2>3 DEF Achieved, ByItself, AchievedFiles, AchievedTrust, AchievedSigners, AchievedShown
  <2>8. UntornInv'
    <3> SUFFICES ASSUME ~torn' PROVE UntornInv'  BY DEF UntornInv
    <3>1. Shape(r) /\ \A d \in CertCommands \ {c} : ~MidFiles(d)  BY <1>1, <1>2, <2>1 DEF UntornInv
    <3>2. MidFiles(c)' /\ \A d \in CertCommands \ {c} : ~MidFiles(d)'  BY <2>1, <2>2, <2>3, <3>1 DEF MidFiles, Moved
    <3>3. Shape(q)'  BY <2>2, <2>3, <2>4, <3>1 DEF Shape, Cut
    <3>4. Shape(certCmd[c])'  BY <2>1, <3>3 DEF Shape
    <3> QED BY <3>2, <3>4 DEF UntornInv
  <2>9. CommandRoots(certCmd[c])' /\ Achieved(certCmd[c])'
    BY <2>1, <2>6, <2>7 DEF CommandRoots, Achieved, ByItself, AchievedFiles, AchievedTrust, AchievedSigners, AchievedShown, Revoked
  <2> QED BY <1>1, <1>2, <2>1, <2>2, <2>3, <2>4, <2>5, <2>8, <2>9, OwnStep
<1> QED BY <1>3, <1>4 DEF OpenCopy

LEMMA FillStep ==
  ASSUME CertInv, NEW c \in CertCommands, FillCopy(c)
  PROVE  CertInv'
<1>1. CertTyped /\ AppInv /\ certApp \in AppType /\ UntornInv /\ certFiles \in [key : Nat, cert : Nat, install : Nat] /\ certFiles.cert <= roots
  BY DEF CertInv, CertTyped
<1>2. certCmd[c].at = "fill" /\ UNCHANGED <<platform, trust, certApp, roots>> /\ Active(c) /\ MidFiles(c) /\ AppInv'
  BY <1>1 DEF FillCopy, Active, MidFiles, AppInv
<1>3. CASE CertGoto(c, "err") /\ torn' = TRUE /\ UNCHANGED certFiles  BY <1>1, <1>2, <1>3, ErrStep
<1>4. CASE /\ \/ certFiles' = [certFiles EXCEPT !.install = certCmd[c].file]
              \/ certFiles.install # Cut /\ UNCHANGED certFiles
           /\ CertGoto(c, "open") /\ UNCHANGED torn
  <2>1. PICK r \in CertCommand, q \in CertCommand : r = certCmd[c] /\ q = certCmd'[c] /\ Left(r, q, "open")
    BY <1>4, GotoLeft DEF CommandSteps, Left
  <2>2. Moved(c) /\ q.root = r.root /\ q.file = r.file /\ q.failed = r.failed  BY <1>4, <2>1, GotoLeft DEF CommandSteps
  <2>3. /\ r.at = "fill" /\ CommandRoots(r) /\ Achieved(r) /\ q.at = "open" /\ q.op = r.op /\ q.old = r.old /\ q.crossed = r.crossed
        /\ r.file \in Nat
    BY <1>2, <2>1 DEF Left, CertCommand
  <2>4. /\ certFiles' \in [key : Nat, cert : Nat, install : Nat] /\ certFiles'.key = certFiles.key /\ certFiles'.cert = certFiles.cert
        /\ certFiles'.install = r.file \/ certFiles.install # Cut
    BY <1>1, <1>4, <2>1, <2>3
  <2>5. CertTyped'  BY <1>1, <1>2, <1>4, <2>2, <2>4 DEF CertTyped, Moved
  <2>6. CommandRoots(q)'  BY <1>2, <2>2, <2>3 DEF CommandRoots
  <2>7. Achieved(q)'  BY <2>2, <2>3 DEF Achieved, ByItself, AchievedFiles, AchievedTrust, AchievedSigners, AchievedShown
  <2>8. UntornInv'
    <3> SUFFICES ASSUME ~torn' PROVE UntornInv'  BY DEF UntornInv
    <3>1. Shape(r) /\ \A d \in CertCommands \ {c} : ~MidFiles(d)  BY <1>1, <1>2, <1>4, <2>1 DEF UntornInv
    <3>2. ~MidFiles(c)' /\ \A d \in CertCommands \ {c} : ~MidFiles(d)'  BY <2>1, <2>2, <2>3, <3>1 DEF MidFiles, Moved
    <3>3. OneRoot'  BY <2>3, <2>4, <3>1 DEF Shape, OneRoot
    <3> QED BY <3>2, <3>3 DEF UntornInv
  <2>9. CommandRoots(certCmd[c])' /\ Achieved(certCmd[c])'
    BY <2>1, <2>6, <2>7 DEF CommandRoots, Achieved, ByItself, AchievedFiles, AchievedTrust, AchievedSigners, AchievedShown, Revoked
  <2> QED BY <1>1, <1>2, <2>1, <2>2, <2>3, <2>4, <2>5, <2>8, <2>9, OwnStep
<1> QED BY <1>3, <1>4 DEF FillCopy

\* Who ran by itself met no other between its files.
LEMMA AloneIsWhole ==
  ASSUME CertInv, NEW c \in CertCommands, ~MidFiles(c), certCmd[c].at # "idle", ~certCmd[c].crossed, ~torn
  PROVE  OneRoot
<1>1. \A d \in CertCommands \ {c} : ~Active(d)  BY DEF CertInv, SoloInv
<1>2. \A d \in CertCommands : ~MidFiles(d)  BY <1>1 DEF Active, MidFiles
<1> QED BY <1>2 DEF CertInv, UntornInv

\* A command ends by showing or handing over a file; what the user then trusts is not the old root.
LEMMA ShownStep ==
  ASSUME CertInv, NEW c \in CertCommands, certCmd[c].at = "open", NEW file \in {certFiles.install, certFiles.cert},
         certCmd' = [certCmd EXCEPT ![c].at = "ok", ![c].file = file], UNCHANGED <<platform, certFiles, certApp, roots, torn>>,
         trust' \in [AllStores -> SUBSET Nat],
         certCmd[c].op \in {"generate", "remove"} /\ trust' # trust /\ ~certCmd[c].crossed => Revoked(certCmd[c])'
  PROVE  CertInv'
<1>1. CertTyped /\ AppInv /\ UntornInv /\ certCmd \in [CertCommands -> CertCommand] /\ certFiles \in [key : Nat, cert : Nat, install : Nat]
      /\ certFiles.cert <= roots
  BY DEF CertInv, CertTyped
<1>2. PICK r \in CertCommand : r = certCmd[c] /\ CommandRoots(r) /\ Achieved(r) /\ r.at = "open"  BY <1>1 DEF CertInv
<1>3. PICK f \in Nat : f = file  BY <1>1
<1>4. PICK q \in CertCommand : q = [r EXCEPT !.at = "ok", !.file = f]  BY <1>2 DEF CertCommand, CommandSteps
<1>5. certCmd'[c] = q /\ certCmd' \in [CertCommands -> CertCommand] /\ \A d \in CertCommands \ {c} : certCmd'[d] = certCmd[d]
  BY <1>1, <1>2, <1>3, <1>4
<1>6. /\ q.at = "ok" /\ q.file = f /\ q.root = r.root /\ q.failed = r.failed /\ q.op = r.op /\ q.old = r.old
      /\ q.crossed = r.crossed /\ q.rerouted = r.rerouted /\ q.raced = r.raced
  BY <1>2, <1>4 DEF CertCommand
<1>7. Moved(c) /\ Active(c) /\ ~MidFiles(c) /\ ~MidFiles(c)'  BY <1>2, <1>5, <1>6 DEF Moved, Active, MidFiles
<1>8. CertTyped' /\ UntornInv' /\ AppInv'
  <2>1. UntornInv'  BY <1>1, <1>7, FilesRest
  <2>2. AppInv'  BY <1>1 DEF AppInv
  <2>3. CertTyped'  BY <1>1, <1>5 DEF CertTyped
  <2> QED BY <2>1, <2>2, <2>3
<1>9. CommandRoots(q)'  BY <1>2, <1>6 DEF CommandRoots
<1>10. Achieved(q)'
  <2> SUFFICES ASSUME ByItself(q) PROVE AchievedFiles(q)' /\ AchievedTrust(q)' /\ AchievedSigners(q)' /\ AchievedShown(q)'
    BY DEF Achieved, ByItself
  <2>1. AchievedFiles(r) /\ AchievedTrust(r) /\ AchievedSigners(r)  BY <1>2, <1>6 DEF Achieved, ByItself
  <2>2. r.op # "remove" /\ (r.root # 0 => r.op = "generate")  BY <1>2, <2>1 DEF AchievedFiles, CommandRoots
  <2>3. AchievedFiles(q)' /\ AchievedSigners(q)'  BY <1>2, <1>6, <2>1, <2>2 DEF AchievedFiles, AchievedSigners
  <2>4. AchievedTrust(q)'
    <3> SUFFICES ASSUME r.root # 0 PROVE Revoked(q)'  BY <1>6, <2>2 DEF AchievedTrust
    <3>1. Revoked(r)  BY <1>2, <2>1 DEF AchievedTrust
    <3>2. Revoked(r)'
      <4>1. CASE trust' = trust  BY <3>1, <4>1, StoresStay DEF Revoked
      <4>2. CASE trust' # trust
        <5>1. Revoked(certCmd[c])'  BY <1>2, <1>6, <2>2, <4>2 DEF ByItself
        <5> QED BY <1>2, <1>5, <1>6, <5>1 DEF Revoked
      <4> QED BY <4>1, <4>2
    <3> QED BY <1>6, <3>2 DEF Revoked
  <2>5. AchievedShown(q)'
    <3> SUFFICES ASSUME f # 0, ~torn PROVE f = certFiles.cert  BY <1>6 DEF AchievedShown
    <3>1. OneRoot  BY <1>2, <1>6, <1>7, AloneIsWhole DEF ByItself
    <3> QED BY <1>3, <3>1 DEF OneRoot
  <2> QED BY <2>3, <2>4, <2>5
<1>11. CommandRoots(certCmd[c])' /\ Achieved(certCmd[c])'
  <2>1. (AchievedFiles(certCmd[c])' <=> AchievedFiles(q)') /\ (AchievedShown(certCmd[c])' <=> AchievedShown(q)')
    BY <1>5 DEF AchievedFiles, AchievedShown
  <2>2. AchievedTrust(certCmd[c])' <=> AchievedTrust(q)'  BY <1>5 DEF AchievedTrust, Revoked
  <2>3. AchievedSigners(certCmd[c])' <=> AchievedSigners(q)'  BY <1>5 DEF AchievedSigners
  <2>4. CommandRoots(certCmd[c])'  BY <1>5, <1>9 DEF CommandRoots
  <2> QED BY <1>5, <1>10, <2>1, <2>2, <2>3, <2>4 DEF Achieved, ByItself
<1> QED BY <1>1, <1>5, <1>6, <1>7, <1>8, <1>11, OwnStep

LEMMA InstallSteps ==
  ASSUME CertInv, NEW c \in CertCommands,
         \/ install_android_certificate_via_adb(c) \/ install_harmony_certificate_via_hdc(c) \/ install_ios_certificate_via_simulator(c)
  PROVE  CertInv'
<1>1. CertTyped /\ AppInv /\ certApp \in AppType /\ trust \in [AllStores -> SUBSET Nat]  BY DEF CertInv, CertTyped
<1>2. PICK targets \in {AdbTargets, HdcTargets, Simulators}, file \in {certFiles.install, certFiles.cert} : HandOver(c, targets, file)
  BY DEF install_android_certificate_via_adb, install_harmony_certificate_via_hdc, install_ios_certificate_via_simulator
<1>3. certCmd[c].at = "open" /\ UNCHANGED <<platform, certFiles, trust, certApp, roots, torn>>  BY <1>2 DEF HandOver
<1>4. CASE CertGoto(c, "err")  BY <1>1, <1>3, <1>4, ErrStep DEF Active, MidFiles, AppInv
<1>5. CASE certCmd' = [certCmd EXCEPT ![c].at = "ok", ![c].file = file]  BY <1>1, <1>3, <1>5, ShownStep
<1> QED BY <1>2, <1>4, <1>5 DEF HandOver

\* What the user trusts is added to the stores.
LEMMA TrustFacts ==
  ASSUME CertTyped, NEW root \in Nat, NEW t \in TrustedByUser(root)
  PROVE  t \in [AllStores -> SUBSET Nat] /\ \A s \in AllStores : t[s] \subseteq trust[s] \cup {root} \cup trust["anchors"]
<1>1. trust \in [AllStores -> SUBSET Nat] /\ Stores \subseteq AllStores /\ "anchors" \in AllStores /\ "caStore" \in AllStores
  BY StoresAreStores DEF CertTyped, AllStores
<1>2. CASE root \in {0, Cut}
  <2>1. TrustedByUser(root) = {}  BY <1>2 DEF TrustedByUser
  <2> QED BY <2>1
<1>3. CASE root \notin {0, Cut} /\ platform = "windows"
  <2>1. PICK s \in Stores : t = [trust EXCEPT ![s] = @ \cup {root}]  BY <1>3 DEF TrustedByUser
  <2> QED BY <1>1, <2>1
<1>4. CASE root \notin {0, Cut} /\ platform = "macos"
  <2>1. PICK places \in {{"loginKeychain", "userDomain"}, {"systemKeychain", "systemDomain"}} :
          t = [s \in AllStores |-> IF s \in places THEN trust[s] \cup {root} ELSE trust[s]]
    BY <1>4 DEF TrustedByUser
  <2> QED BY <1>1, <2>1
<1>5. CASE root \notin {0, Cut} /\ platform \notin {"windows", "macos"}
  <2>1. PICK anchors \in SUBSET Nat : anchors = trust["anchors"] \cup {root}  BY <1>1
  <2>2. t = [trust EXCEPT !["anchors"] = anchors, !["caStore"] = anchors]  BY <1>5, <2>1 DEF TrustedByUser
  <2> QED BY <1>1, <2>1, <2>2
<1> QED BY <1>2, <1>3, <1>4, <1>5

LEMMA LaunchStep ==
  ASSUME CertInv, NEW c \in CertCommands, launch_certificate_installer(c)
  PROVE  CertInv'
<1>1. CertTyped /\ certCmd[c] \in CertCommand /\ trust \in [AllStores -> SUBSET Nat] /\ certFiles \in [key : Nat, cert : Nat, install : Nat]
      /\ CommandRoots(certCmd[c]) /\ Achieved(certCmd[c])
  BY DEF CertInv, CertTyped
<1>2. PICK file \in {certFiles.install, certFiles.cert} : file = certificate_display_path /\ (platform = "macos" => file = certFiles.install)
  BY DEF certificate_display_path
<1>3. /\ certCmd[c].at = "open" /\ UNCHANGED <<platform, certFiles, certApp, roots, torn>>
      /\ certCmd' = [certCmd EXCEPT ![c].at = "ok", ![c].file = file]
  BY <1>2 DEF launch_certificate_installer
<1>4. CASE UNCHANGED trust  BY <1>1, <1>3, <1>4, ShownStep
<1>5. CASE /\ At(c, "show", "open") \/ (platform = "macos" /\ At(c, "generate", "open") /\ certCmd[c].root # 0)
           /\ trust' \in TrustedByUser(file)
  <2>1. trust' \in [AllStores -> SUBSET Nat] /\ \A s \in AllStores : trust'[s] \subseteq trust[s] \cup {file} \cup trust["anchors"]
    BY <1>1, <1>5, TrustFacts
  <2>2. CASE At(c, "show", "open")  BY <1>1, <1>3, <2>1, <2>2, ShownStep DEF At
  <2>3. CASE platform = "macos" /\ At(c, "generate", "open") /\ certCmd[c].root # 0
    <3>1. ASSUME ~certCmd[c].crossed PROVE Revoked(certCmd[c])'
      <4>1. PICK r \in CertCommand : r = certCmd[c] /\ r.old \in Nat /\ r.root \in Nat  BY <1>1 DEF CertCommand
      <4>2. file = r.root /\ r.old < r.root /\ Revoked(r)
        BY <1>1, <1>2, <1>3, <2>3, <3>1, <4>1 DEF Achieved, ByItself, AchievedFiles, AchievedTrust, CommandRoots
      <4>3. PICK places \in {{"loginKeychain", "userDomain"}, {"systemKeychain", "systemDomain"}} :
              trust' = [s \in AllStores |-> IF s \in places THEN trust[s] \cup {file} ELSE trust[s]]
        BY <1>5, <2>3 DEF TrustedByUser
      <4>4. \A s \in Stores : r.old \in trust'[s] => r.old \in trust[s]  BY <4>1, <4>2, <4>3, StoresAreStores
      <4>5. Revoked(r)'  BY <1>3, <4>2, <4>4, StoresStay DEF Revoked
      <4>6. certCmd'[c].old = r.old /\ certCmd'[c].failed = r.failed
        <5>1. certCmd \in [CertCommands -> CertCommand]  BY DEF CertInv, CertTyped
        <5> QED BY <1>3, <4>1, <5>1 DEF CertCommand
      <4> QED BY <4>5, <4>6 DEF Revoked
    <3> QED BY <1>1, <1>3, <2>1, <3>1, ShownStep
  <2> QED BY <1>5, <2>2, <2>3
<1> QED BY <1>2, <1>4, <1>5 DEF launch_certificate_installer

\* A crash forgets the commands; one that stopped between two files left them torn.
LEMMA CrashStep ==
  ASSUME CertInv, CertCrash
  PROVE  CertInv'
<1>1. CertTyped /\ certApp \in AppType /\ UntornInv /\ certFiles.cert <= roots /\ torn \in BOOLEAN /\ roots \in Nat
  BY DEF CertInv, CertTyped
<1>2. /\ certCmd' = [c \in CertCommands |-> CertIdle] /\ UNCHANGED <<platform, certFiles, trust, roots>>
      /\ torn' = (torn \/ \E c \in CertCommands : certCmd[c].at \in {"cert", "install", "fill"})
  BY DEF CertCrash
<1>3. CertIdle \in CertCommand /\ CertIdle.at = "idle" /\ CertIdle.root = 0 /\ CertIdle.old = 0 /\ CertIdle.file = 0
  BY DEF CertIdle, CertCommand, CommandSteps
<1>4. PICK ssl \in BOOLEAN : certApp' = [mgr |-> NoPair, sslMem |-> ssl, sslDb |-> ssl, running |-> FALSE, starting |-> "no",
                                         next |-> NoPair, serving |-> NoPair, sys |-> FALSE]
  BY <1>1 DEF CertCrash, AppType
<1>5. certApp' \in AppType /\ AppInv'  BY <1>4, PairFacts DEF AppType, AppInv
<1>6. CertTyped'  BY <1>1, <1>2, <1>3, <1>5 DEF CertTyped
<1>7. \A c \in CertCommands : certCmd'[c] = CertIdle  BY <1>2
<1>8. SoloInv' /\ \A c \in CertCommands : CommandRoots(certCmd[c])' /\ Achieved(certCmd[c])'
  BY <1>1, <1>2, <1>3, <1>7 DEF SoloInv, Active, CommandRoots, Achieved, ByItself
<1>9. UntornInv'
  <2> SUFFICES ASSUME ~torn' PROVE OneRoot'  BY <1>3, <1>7 DEF UntornInv, MidFiles
  <2>1. ~torn /\ \A c \in CertCommands : MidFiles(c) => certCmd[c].at = "write"  BY <1>2 DEF MidFiles
  <2>2. OneRoot  BY <1>1, <2>1 DEF UntornInv, Shape
  <2> QED BY <1>2, <2>2 DEF OneRoot
<1> QED BY <1>1, <1>2, <1>5, <1>6, <1>8, <1>9 DEF CertInv

\* The invariant of the certificate commands: what an uncrossed one has
\* achieved at each step of the files, the stores and the signers, and that the
\* files of commands that kept out of each other's way are one root's
\* (certificates.rs:440-548, 600-728; storage.rs:181-310).
THEOREM CertificatesInvariant == CertificatesSpec => []CertInv
<1>1. CertificatesInit => CertInv
  <2> SUFFICES ASSUME CertificatesInit PROVE CertInv  OBVIOUS
  <2>1. CertIdle \in CertCommand /\ CertIdle.at = "idle" /\ CertIdle.root = 0 /\ CertIdle.old = 0 /\ CertIdle.file = 0
    BY DEF CertIdle, CertCommand, CommandSteps
  <2>2. \A c \in CertCommands : certCmd[c] = CertIdle  BY DEF CertificatesInit
  <2>3. roots \in Nat /\ certFiles \in [key : Nat, cert : Nat, install : Nat] /\ certFiles.key = roots /\ certFiles.cert = roots
        /\ certFiles.install = 0 /\ torn = FALSE
    BY DEF CertificatesInit, Files
  <2>4. certApp \in AppType /\ AppInv  BY PairFacts DEF CertificatesInit, AppType, AppInv
  <2>5. CertTyped  BY <2>1, <2>3, <2>4 DEF CertificatesInit, CertTyped
  <2>6. SoloInv /\ UntornInv  BY <2>1, <2>2, <2>3 DEF SoloInv, UntornInv, Active, MidFiles, OneRoot
  <2>7. \A c \in CertCommands : CommandRoots(certCmd[c]) /\ Achieved(certCmd[c])
    BY <2>1, <2>2, <2>3 DEF CommandRoots, Achieved, ByItself
  <2> QED BY <2>3, <2>4, <2>5, <2>6, <2>7 DEF CertInv
<1>2. CertInv /\ [NextCertificates]_certVars => CertInv'
  <2> SUFFICES ASSUME CertInv, [NextCertificates]_certVars PROVE CertInv'  OBVIOUS
  <2>1. CASE StartProxy \/ ProxyStarted \/ StopProxy  BY <2>1, ProxySteps
  <2>2. CASE EnableSystemProxy  BY <2>2, RouteStep
  <2>3. ASSUME NEW c \in CertCommands, CertStep(c) PROVE CertInv'
    BY <2>3, BeginSteps, RevokeSteps, SaveKeyStep, SaveCertStep, SaveInstallStep, PublishStep, RestartSteps, RemoveSteps, DemoteSteps,
       StatusStep, LookStep, ReadStep, OpenStep, FillStep, LaunchStep, InstallSteps
       DEF CertStep, save_root_cert, ensure_root_cert_install_copy
  <2>4. CASE CertCrash  BY <2>4, CrashStep
  <2>5. CASE set_android_proxy_via_adb \/ clear_android_proxy_via_adb \/ UNCHANGED certVars
    <3>1. UNCHANGED <<platform, certFiles, trust, certApp, certCmd, roots, torn>>
      BY <2>5 DEF set_android_proxy_via_adb, clear_android_proxy_via_adb, AdbShell, certVars
    <3>2. certApp' \in AppType /\ AppInv'  BY <3>1 DEF CertInv, CertTyped, AppInv
    <3>3. \A c \in CertCommands : AchievedSigners(certCmd[c]) => AchievedSigners(certCmd[c])'  BY <3>1 DEF AchievedSigners
    <3> QED BY <3>1, <3>2, <3>3, UnderCommands
  <2> QED BY <2>1, <2>2, <2>3, <2>4, <2>5 DEF NextCertificates
<1> QED BY <1>1, <1>2, PTL DEF CertificatesSpec

\* A certificate command that ran by itself did all it reports, whatever
\* crashes, failed writes and crossing commands did before, and files no two
\* commands wrote at once are of one root: for any number of commands,
\* roots, crashes and starts of the proxy (certificates.rs:136-144, 440-728).
THEOREM CertificatesAlwaysComplete == CertificatesSpec => []CertificateCommandsComplete
<1>1. CertInv => CertificateCommandsComplete
  <2> SUFFICES ASSUME CertInv PROVE CertificateCommandsComplete  OBVIOUS
  <2>1. ~torn /\ (\A c \in CertCommands : ~MidFiles(c)) => OneRoot  BY DEF CertInv, UntornInv
  <2>2. certFiles \in [key : Nat, cert : Nat, install : Nat] /\ AppInv  BY DEF CertInv, CertTyped
  <2>3. ASSUME NEW c \in CertCommands, NEW r, r = certCmd[c], r.at = "ok", ~r.crossed
        PROVE  /\ r.root # 0 => certFiles = Files(r.root, r.root, r.root) /\ certApp.mgr = Pair(r.root, r.root)
               /\ r.op = "remove" =>
                    /\ certFiles = Files(0, 0, 0) /\ certApp.mgr = NoPair
                    /\ ~r.raced => certApp.serving = NoPair
                    /\ certApp.sslDb => r.warned
                    /\ certApp.sys => r.handback \/ r.rerouted
               /\ (r.root # 0 \/ r.op = "remove") /\ r.old # 0 =>
                    /\ \A s \in Stores : r.old \in trust[s] => r.failed # {}
                    /\ ~r.raced /\ certApp.running => certApp.serving.cert # r.old
               /\ r.file # 0 /\ ~torn => r.file = certFiles.cert
    <3>1. AchievedFiles(r) /\ AchievedTrust(r) /\ AchievedSigners(r) /\ AchievedShown(r)  BY <2>3 DEF CertInv, Achieved, ByItself
    <3>2. r.root # 0 => certFiles = Files(r.root, r.root, r.root) /\ certApp.mgr = Pair(r.root, r.root)
      BY <2>2, <2>3, <3>1 DEF AchievedFiles, AchievedSigners, Files
    <3>3. r.op = "remove" => certFiles = Files(0, 0, 0)  BY <2>2, <2>3, <3>1 DEF AchievedFiles, Files
    <3>4. r.op = "remove" =>
            /\ certApp.mgr = NoPair /\ (~r.raced => certApp.serving = NoPair)
            /\ (certApp.sslDb => r.warned) /\ (certApp.sys => r.handback \/ r.rerouted)
      BY <2>3, <3>1 DEF AchievedSigners
    <3>5. (r.root # 0 \/ r.op = "remove") /\ r.old # 0 => \A s \in Stores : r.old \in trust[s] => r.failed # {}
      BY <2>3, <3>1 DEF AchievedTrust, Revoked
    <3>6. (r.root # 0 \/ r.op = "remove") /\ r.old # 0 /\ ~r.raced => certApp.serving.cert # r.old
      BY <2>3, <3>1, <3>4, PairFacts DEF AchievedSigners
    <3> QED BY <2>3, <3>1, <3>2, <3>3, <3>4, <3>5, <3>6 DEF AchievedShown
  <2> QED BY <2>1, <2>3 DEF CertificateCommandsComplete
<1> QED BY <1>1, CertificatesInvariant, PTL
=============================================================================
