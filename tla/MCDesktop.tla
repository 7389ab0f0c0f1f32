----------------------------- MODULE MCDesktop -----------------------------
(***************************************************************************)
(* The desktop application's commands and their storage on small           *)
(* instances: proxy lifecycle, root and leaf certificates, rule tables,    *)
(* schema migrations, collections, workspaces and file export.  Each       *)
(* behaviour runs one part, chosen at the start, so the state space is the *)
(* sum of theirs; the other parts keep their initial state.  The commands  *)
(* of all parts are the same two model values, so that one symmetry does   *)
(* for all.                                                                *)
(***************************************************************************)
EXTENDS ProxyLifecycle, Certificates, CertResolver, RuleTables, Migrations, Collections, Workspaces, FileExport, TLC

VARIABLE part

Interchangeable == Permutations(Ops)

---------------------------------------------------------------------------
(* Certificates: what hdc, adb and simctl list, where a bridge is found.   *)

MCListings == {{<<"d1">>, <<"d2", "TCP", "Connected">>}, {<<"d1", "device">>, <<"d2", "device">>},
               {<<"d1", "Booted">>, <<"d2", "offline">>}}
MCTools == {{}, {"home", "xcrun"}}

---------------------------------------------------------------------------
(* File export: two captures of one URL that leave the folder, one of them *)
(* clipped; a file whose name is also a folder; a reserved name; a socket. *)

Seg(stem, ext) == [stem |-> stem, ext |-> ext]
FileName(stem, ext) == [stem |-> stem, ext |-> ext, n |-> 0]
Capture(segs, slash, mime, at, body, socket) ==
  [url |-> [segs |-> segs, slash |-> slash, valid |-> TRUE], mime |-> mime, started |-> at, body |-> body, socket |-> socket]
MCCaptures ==
  "c1" :> Capture(<<Seg("..", ""), Seg("a", "js")>>, FALSE, "text/html", 1, "full", FALSE)
  @@ "c2" :> Capture(<<Seg("..", ""), Seg("a", "js")>>, FALSE, "text/html", 2, "clipped", FALSE)
  @@ "c3" :> Capture(<<Seg("a", "js")>>, FALSE, "text/html", 3, "full", FALSE)
  @@ "c4" :> Capture(<<Seg("a", "js"), Seg("con", ""), Seg("d", "")>>, TRUE, "vendor+json", 4, "full", FALSE)
  @@ "c5" :> Capture(<<Seg("a", "js")>>, FALSE, "text/html", 5, "empty", TRUE)
MCSelections == {<<"c1", "c2", "c1">>, <<"c3", "c4", "c5">>}
MCFolders == {<< >>, <<FileName("a", "js")>> :> [kind |-> "file", by |-> "user"],
              <<FileName("_", "")>> :> [kind |-> "link", by |-> "user"]}

---------------------------------------------------------------------------
\* Certificates: one disturbance at a time: a crash, starts and stops of the proxy (on Linux), commands
\* that cross (on macOS, where most of them write a file) or a phone; the user trusts the first root only.
OneDisturbance ==
  LET crossing == \E c \in CertCommands : Active(c) /\ certCmd[c].crossed
      toggled == budget.toggles < MaxToggles
      trusted == UNION {trust[s] : s \in Stores}
      Only(names) == \A c \in CertCommands : certCmd[c].op \in names
  IN
  /\ trusted \subseteq {1}
  /\ device # "none" => Only({"none"})
  /\ budget.crashes < MaxCrashes => platform # "macos" /\ ~toggled
  /\ toggled => platform = "linux" /\ Only({"none", "generate", "remove"})
  /\ platform = "macos" => \A c \in CertCommands : Cardinality(certCmd[c].failed) <= 1
  /\ crossing => /\ platform = "macos" /\ trusted = {} /\ certApp.sslDb = certApp.sslMem
                 /\ Only({"none", "generate", "remove", "show"})
                 /\ \A c \in CertCommands : certCmd[c].failed = {}
\* A restart or a trace.  The hosts are interchangeable, so the third handshake is for the first one.
Bounded ==
  /\ OneDisturbance
  /\ spent.restarts + spent.runs <= 1
  /\ \A t \in Handshakes \ Ops : hs[t].host # "h2"

\* Rows that clash in a table that is to become unique.
Clashing == {t \in DOMAIN tableRows : \E r, q \in RowIds : r # q /\ tableRows[t][r].key = tableRows[t][q].key}

DesktopInit ==
  /\ part \in {"lifecycle", "certificates", "resolver", "tables", "migrations", "collections", "workspaces", "export"}
  /\ Init
  /\ CertificatesInit /\ (part # "certificates" => platform = "linux")
  /\ ResolverInit
  /\ TablesInit /\ (part # "tables" => ruleKind = "dns" /\ ruleRows[CHOOSE i \in RuleIds : TRUE] # NoRule)
  /\ MigrationInit /\ IF part = "migrations" THEN Cardinality(Clashing) <= 1 ELSE ~schema.tables /\ Clashing = {}
  /\ CollectionsInit /\ (part # "collections" => focus = "tree")
  /\ WorkspacesInit
  /\ ExportInit /\ (part # "export" => folder = << >>)

\* Only the lifecycle must never stop: the other parts come to rest at their bounds.
DesktopNext ==
  \/ /\ part = "lifecycle" /\ Next
     /\ UNCHANGED <<part, certVars, resolverVars, tableVars, migrationVars, collectionVars, workspaceVars, exportVars>>
  \/ /\ part = "certificates" /\ NextCertificates
     /\ UNCHANGED <<part, vars, resolverVars, tableVars, migrationVars, collectionVars, workspaceVars, exportVars>>
  \/ /\ part = "resolver" /\ NextResolver
     /\ UNCHANGED <<part, vars, certVars, tableVars, migrationVars, collectionVars, workspaceVars, exportVars>>
  \/ /\ part = "tables" /\ NextTables
     /\ UNCHANGED <<part, vars, certVars, resolverVars, migrationVars, collectionVars, workspaceVars, exportVars>>
  \/ /\ part = "migrations" /\ NextMigration
     /\ UNCHANGED <<part, vars, certVars, resolverVars, tableVars, collectionVars, workspaceVars, exportVars>>
  \/ /\ part = "collections" /\ NextCollections
     /\ UNCHANGED <<part, vars, certVars, resolverVars, tableVars, migrationVars, workspaceVars, exportVars>>
  \/ /\ part = "workspaces" /\ NextWorkspaces
     /\ UNCHANGED <<part, vars, certVars, resolverVars, tableVars, migrationVars, collectionVars, exportVars>>
  \/ /\ part = "export" /\ NextExport
     /\ UNCHANGED <<part, vars, certVars, resolverVars, tableVars, migrationVars, collectionVars, workspaceVars>>
  \/ /\ part # "lifecycle"
     /\ UNCHANGED <<part, vars, certVars, resolverVars, tableVars, migrationVars, collectionVars, workspaceVars, exportVars>>

DesktopSpec ==
  /\ DesktopInit
  /\ [][DesktopNext]_<<part, vars, certVars, resolverVars, tableVars, migrationVars, collectionVars, workspaceVars, exportVars>>
=============================================================================
