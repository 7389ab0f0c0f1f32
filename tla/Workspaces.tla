----------------------------- MODULE Workspaces -----------------------------
(***************************************************************************)
(* Workspace settings: the list in memory that the proxy starts from and   *)
(* the rows that survive a restart (workspace.rs, commands/workspaces.rs,  *)
(* crates/db/src/workspaces.rs, the seeding in main.rs).  A command edits  *)
(* memory first and the row in a later turn; nothing keeps two commands on *)
(* one workspace apart, and a failed row write puts the earlier snapshot   *)
(* back.                                                                   *)
(*                                                                         *)
(* Four fields stand for the row: name (with the port, the host lists and  *)
(* the other plain settings), ssl, routed (system_proxy_enabled, kept in   *)
(* the row only) and chain (upstream proxy, SSL policy: settings that are  *)
(* absent until first configured).                                         *)
(***************************************************************************)
EXTENDS Naturals, FiniteSets

CONSTANTS Editing,        \* commands that can be in flight at a time
          MaxWorkspaceCommands, MaxWorkspaceRestarts   \* bounds

ASSUME WorkspacesAssumption == {MaxWorkspaceCommands, MaxWorkspaceRestarts} \subseteq Nat

VARIABLES listed,     \* WorkspaceManager: workspace |-> data, or Unlisted
          stored,     \* the workspaces table: workspace |-> row, or Unlisted
          editing,    \* command |-> [kind, id, before, patch]; kind "none" when free
          promised,   \* ghost: the rows as the answered commands left them
          apart,      \* ghost: <<workspace, field>> pairs that crossing commands may have left different
          started,    \* the application has loaded the rows
          issued,     \* commands so far
          restarts    \* restarts so far

workspaceVars == <<listed, stored, editing, promised, apart, started, issued, restarts>>

WorkspaceIds == {"default", "added"}
Fields == {"name", "ssl", "chain"}
Unlisted == [name |-> "none", ssl |-> "none", routed |-> "none", chain |-> "none"]
NoPatch == [name |-> "keep", ssl |-> "keep", chain |-> "keep"]
NotEditing == [kind |-> "none", id |-> "default", before |-> Unlisted, patch |-> NoPatch]

---------------------------------------------------------------------------
(* The list in memory. *)

FreshWorkspace == [name |-> "first", ssl |-> "on", routed |-> "off", chain |-> "never"]
NewManager == [w \in WorkspaceIds |-> IF w = "default" THEN FreshWorkspace ELSE Unlisted]

load(w) == listed[w]
Patched(data, patch) ==
  [name |-> IF patch.name = "keep" THEN data.name ELSE patch.name,
   ssl |-> IF patch.ssl = "keep" THEN data.ssl ELSE patch.ssl,
   routed |-> data.routed,
   chain |-> IF patch.chain = "keep" THEN data.chain ELSE patch.chain]
create(w) == listed' = [listed EXCEPT ![w] = FreshWorkspace]
remove(w) == listed' = [listed EXCEPT ![w] = Unlisted]
update(w, patch) == listed[w] # Unlisted /\ listed' = [listed EXCEPT ![w] = Patched(@, patch)]

\* The snapshot as a patch: a setting it does not have reads as "unchanged".
M_PatchBack(w, snapshot) ==
  listed' = [listed EXCEPT ![w] = IF @ = Unlisted THEN @
               ELSE Patched(@, [name |-> snapshot.name, ssl |-> snapshot.ssl,
                                chain |-> IF snapshot.chain = "never" THEN "keep" ELSE snapshot.chain])]
restore(w, snapshot) == listed' = [listed EXCEPT ![w] = IF @ = Unlisted THEN @ ELSE snapshot]

---------------------------------------------------------------------------
(* The rows.  A chain is stored as JSON, "" when there is none. *)

AsRow(data) == [data EXCEPT !.chain = IF @ = "never" THEN "" ELSE @]
\* Text that does not parse reads as never configured.
workspace_row_to_data(row) == [row EXCEPT !.chain = IF @ \in {"", "malformed"} THEN "never" ELSE @]

load_all_workspaces == {w \in WorkspaceIds : stored[w] # Unlisted}

\* A check that failed does not count as an empty table.
is_empty(reads) == reads /\ load_all_workspaces = {}

upsert_workspace(w, row) == stored' = [stored EXCEPT ![w] = row]
update_workspace(w, patch) == stored[w] # Unlisted /\ stored' = [stored EXCEPT ![w] = Patched(@, patch)]
set_workspace_ssl_enabled(w) ==
  stored' = [stored EXCEPT ![w] = IF @ = Unlisted THEN @ ELSE [@ EXCEPT !.ssl = "off"]]
set_workspace_system_proxy_enabled(w, value) ==
  stored' = [stored EXCEPT ![w] = IF @ = Unlisted THEN @ ELSE [@ EXCEPT !.routed = value]]

---------------------------------------------------------------------------
(* The commands: a step in memory, then a step on the row. *)

EditedFields(patch) == {f \in Fields : patch[f] # "keep"}
Others(o, w) == {p \in Editing \ {o} : editing[p].kind # "none" /\ editing[p].id = w}
\* The fields that another command in flight on the workspace also writes.
Shared(o, w, patch) == {<<w, f>> : f \in EditedFields(patch) \cap UNION {EditedFields(editing[p].patch) : p \in Others(o, w)}}

BeginEdit(o, kind, w, patch) ==
  /\ started /\ editing[o] = NotEditing /\ issued < MaxWorkspaceCommands
  /\ issued' = issued + 1
  /\ editing' = [editing EXCEPT ![o] = [kind |-> kind, id |-> w, before |-> load(w), patch |-> patch]]
  /\ apart' = apart \cup Shared(o, w, patch)
  /\ UNCHANGED <<stored, promised, started, restarts>>

\* A new id each time: it is not in use.
create_workspace(o) ==
  /\ listed["added"] = Unlisted /\ stored["added"] = Unlisted
  /\ BeginEdit(o, "create", "added", NoPatch) /\ create("added")
update_workspace_impl(o, w, patch) == BeginEdit(o, "update", w, patch) /\ update(w, patch)
\* remove_certificate_trust: memory is demoted, then the row.
DemoteSsl(o) ==
  BeginEdit(o, "demote", "default", [NoPatch EXCEPT !.ssl = "off"]) /\ update("default", [NoPatch EXCEPT !.ssl = "off"])
\* enable and disable of the system proxy write the row only, best effort.
PersistRoute(value) ==
  /\ started /\ issued < MaxWorkspaceCommands /\ issued' = issued + 1
  /\ set_workspace_system_proxy_enabled("default", value)
  /\ promised' = [promised EXCEPT !["default"] = IF @ = Unlisted THEN @ ELSE [@ EXCEPT !.routed = value]]
  /\ UNCHANGED <<listed, editing, apart, started, restarts>>

EditEnded(o) ==
  /\ started /\ editing[o].kind # "none"
  /\ editing' = [editing EXCEPT ![o] = NotEditing]
  /\ UNCHANGED <<started, issued, restarts>>

RowWritten(o) ==
  /\ EditEnded(o)
  /\ CASE editing[o].kind = "create" -> upsert_workspace(editing[o].id, AsRow(FreshWorkspace))
       [] editing[o].kind = "update" -> update_workspace(editing[o].id, editing[o].patch)
       [] editing[o].kind = "demote" -> set_workspace_ssl_enabled(editing[o].id)
  /\ promised' = stored'
  /\ UNCHANGED <<listed, apart>>

\* The way back undoes the command and nothing else.
Undone(o) == editing[o].kind = "create" \/ load(editing[o].id) = Patched(editing[o].before, editing[o].patch)

\* An update of a row that is missing fails like any other write: memory takes
\* the snapshot back, whatever has been written to it since; a created workspace
\* is taken out; a demotion stands, with a warning.
RowWriteFails(o) ==
  /\ EditEnded(o)
  /\ CASE editing[o].kind = "create" -> remove(editing[o].id)
       [] editing[o].kind = "update" -> restore(editing[o].id, editing[o].before)
       [] editing[o].kind = "demote" -> UNCHANGED listed
  /\ apart' = apart \cup (IF editing[o].kind = "demote" THEN {<<editing[o].id, "ssl">>}
                          ELSE IF Others(o, editing[o].id) = {} /\ Undone(o) THEN {} ELSE {editing[o].id} \X Fields)
  /\ UNCHANGED <<stored, promised>>

---------------------------------------------------------------------------
(* Start: the rows replace the built-in default, which is seeded into an    *)
(* empty table.                                                             *)

LoadWorkspaces(reads) ==
  listed' = IF reads /\ load_all_workspaces # {}
            THEN [w \in WorkspaceIds |-> IF stored[w] = Unlisted THEN Unlisted ELSE workspace_row_to_data(stored[w])]
            ELSE NewManager

Seed(reads, writes) ==
  IF is_empty(reads) /\ writes
  THEN upsert_workspace("default", AsRow(listed'["default"]))
  ELSE UNCHANGED stored

Start(reads, checks, writes) ==
  /\ ~started /\ started' = TRUE
  /\ LoadWorkspaces(reads) /\ Seed(checks, writes)
  /\ promised' = IF load_all_workspaces = {} THEN stored' ELSE promised
  /\ apart' = IF reads /\ (load_all_workspaces # {} \/ (checks /\ writes)) THEN {} ELSE WorkspaceIds \X Fields
  /\ UNCHANGED <<editing, issued, restarts>>

\* The application ends at any moment; an unreadable setting may be met later.
Exit(damage) ==
  /\ started /\ restarts < MaxWorkspaceRestarts
  /\ started' = FALSE /\ restarts' = restarts + 1
  /\ editing' = [o \in Editing |-> NotEditing]
  /\ stored' = IF damage /\ stored["default"] # Unlisted THEN [stored EXCEPT !["default"].chain = "malformed"] ELSE stored
  /\ promised' = stored'
  /\ UNCHANGED <<listed, apart, issued>>

Patches == {[NoPatch EXCEPT !.name = "renamed"], [NoPatch EXCEPT !.name = "moved", !.chain = "set"],
            [NoPatch EXCEPT !.chain = "off"], [NoPatch EXCEPT !.ssl = "on"]}

WorkspacesInit ==
  /\ listed = NewManager /\ stored = [w \in WorkspaceIds |-> Unlisted] /\ promised = stored
  /\ editing = [o \in Editing |-> NotEditing]
  /\ apart = {} /\ started = FALSE /\ issued = 0 /\ restarts = 0

NextWorkspaces ==
  \/ \E o \in Editing :
       \/ create_workspace(o) \/ DemoteSsl(o)
       \/ \E w \in WorkspaceIds, patch \in Patches : update_workspace_impl(o, w, patch)
       \/ RowWritten(o) \/ RowWriteFails(o)
  \/ \E value \in {"on", "off"} : PersistRoute(value)
  \/ \E reads, checks, writes \in BOOLEAN : Start(reads, checks, writes)
  \/ \E damage \in BOOLEAN : Exit(damage)

\* SettingsSurvive: what answered commands saved is in the rows, whatever fails,
\* restarts or is seeded afterwards; and with no command in flight the settings
\* in force are the saved ones, field by field, unless two commands wrote that
\* field at once, one failed while another was under way or the rows could not be
\* read.  In particular a failed create leaves no workspace behind, and a failed
\* first configuration leaves none.
SettingsSurvive ==
  /\ stored = promised
  /\ started /\ (\A o \in Editing : editing[o] = NotEditing) =>
       \A w \in WorkspaceIds, f \in Fields :
         <<w, f>> \in apart \/ (IF stored[w] = Unlisted THEN listed[w] = Unlisted
                                ELSE listed[w][f] = workspace_row_to_data(stored[w])[f])

WorkspacesSpec == WorkspacesInit /\ [][NextWorkspaces]_workspaceVars
=============================================================================
