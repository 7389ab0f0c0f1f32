----------------------------- MODULE Migrations -----------------------------
(***************************************************************************)
(* Opening the database (crates/db/src/connection.rs, schema.rs).  Every   *)
(* start of the desktop runs the whole list of migrations again: tables,   *)
(* added columns, duplicate rows collapsed before a unique index is built  *)
(* over them, and the rebuild of two tables without a foreign key.  Each   *)
(* statement commits by itself except the rebuild, which is one            *)
(* transaction with enforcement switched off around it.  A statement may   *)
(* fail, which ends the start, and the program may die between any two;    *)
(* the next start has to finish the work on whatever it finds.  Meanwhile  *)
(* the MCP sidecar may open the same file read-only and decide from its    *)
(* schema what it can serve.                                               *)
(*                                                                         *)
(* A table is a few rows with a key each (the row that first had the key); *)
(* live means enabled for throttle profiles, present for other tables.     *)
(***************************************************************************)
EXTENDS Naturals, Sequences, FiniteSets

CONSTANTS RowIds,        \* rows of each table that may hold duplicates
          MaxFaults      \* bound on crashes and failed statements

ASSUME MigrationAssumption == RowIds \subseteq Nat /\ MaxFaults \in Nat

VARIABLES schema,    \* committed: tables, columns added so far, indexes, rule foreign keys
          tableRows, \* unique table |-> row |-> [key, live]
          copied,    \* the rebuild transaction: tables it has rebuilt
          enforced,  \* PRAGMA foreign_keys of the desktop's connection
          phase,     \* where the desktop's start is
          column,    \* next column migration
          sidecar,   \* capabilities the sidecar last reported
          faults,
          earlier    \* ghost: what the database held before this version

migrationVars == <<schema, tableRows, copied, enforced, phase, column, sidecar, faults, earlier>>

Unique == <<"throttle_profiles", "api_environment_variables", "api_global_variables", "session_details">>
Rebuilt == {"rewrite_runs", "map_runs"}

\* The column migrations, in order.
AddedColumns ==
  << <<"rewrite_rules", "match_type">>, <<"breakpoint_rules", "match_type">>,
     <<"script_rules", "match_type">>, <<"map_rules", "match_type">>,
     <<"dns_mappings", "match_type">>, <<"throttle_rules", "match_type">>,
     <<"api_collection_items", "form_files">>, <<"session_details", "trailers">>,
     <<"session_details", "h2_stream_id">>, <<"session_details", "via_upstream_proxy">>,
     <<"session_summaries", "failure_origin">>, <<"session_summaries", "failure_kind">>,
     <<"session_details", "failure_message">>, <<"workspaces", "http2_enabled">>,
     <<"workspaces", "verify_upstream_tls">>, <<"workspaces", "tls_verify_hosts">>,
     <<"workspaces", "ssl_blind_hosts">>, <<"workspaces", "upstream_proxy">>,
     <<"workspaces", "ssl_proxying">>, <<"ws_messages", "truncated">> >>
Columns == {AddedColumns[i] : i \in 1..Len(AddedColumns)}
FailureIndexAfter == 13

LiveRows(t) == {r \in RowIds : tableRows[t][r].live}
Smallest(S) == CHOOSE x \in S : \A y \in S : x <= y
SameKey(t, r) == {q \in LiveRows(t) : tableRows[t][q].key = tableRows[t][r].key}
HasDuplicates(t) == \E r \in LiveRows(t) : SameKey(t, r) # {r}

---------------------------------------------------------------------------
(* What the sidecar can tell from the schema. *)

table_exists(t) == schema.tables
table_has_columns(t, needed) == table_exists(t) /\ {<<t, c>> : c \in needed} \cap Columns \subseteq schema.columns

\* Only the columns a migration adds can be missing once the tables exist.
inspect_schema ==
  {c \in {"core_sessions", "session_details", "websocket_messages", "rule_traces", "workspaces", "session_failures"} :
     CASE c = "core_sessions" -> table_has_columns("session_summaries", {}) /\ table_has_columns("session_details", {})
       [] c = "session_details" ->
            table_has_columns("session_details", {"trailers", "h2_stream_id", "via_upstream_proxy"})
       [] c = "websocket_messages" -> table_has_columns("ws_messages", {"truncated"})
       [] c = "rule_traces" -> \A t \in Rebuilt : table_exists(t)
       [] c = "workspaces" ->
            table_has_columns("workspaces", {"http2_enabled", "verify_upstream_tls", "tls_verify_hosts",
                                             "ssl_blind_hosts", "upstream_proxy", "ssl_proxying"})
       [] c = "session_failures" ->
            /\ table_has_columns("session_summaries", {"failure_origin", "failure_kind"})
            /\ table_has_columns("session_details", {"failure_message"})}

\* The sidecar opens the file read-only at any moment; it creates nothing.
open_read_only_database ==
  /\ sidecar' = inspect_schema /\ sidecar' # sidecar
  /\ UNCHANGED <<schema, tableRows, copied, enforced, phase, column, faults, earlier>>

---------------------------------------------------------------------------
(* The desktop's start. *)

Advance(from, to) == phase = from /\ phase' = to

open_database ==
  /\ Advance("closed", "tables")
  /\ enforced' = TRUE /\ column' = 1 /\ copied' = {}
  /\ UNCHANGED <<schema, tableRows, sidecar, faults, earlier>>

\* CREATE TABLE IF NOT EXISTS: a database that already has them keeps its own.
CreateTables ==
  /\ Advance("tables", "columns")
  /\ schema' = [schema EXCEPT !.tables = TRUE]
  /\ UNCHANGED <<tableRows, copied, enforced, column, sidecar, faults, earlier>>

column_exists(c) == c \in schema.columns

migrate_add_column ==
  /\ phase = "columns" /\ column <= Len(AddedColumns)
  /\ column = FailureIndexAfter + 1 => "failure_kind" \in schema.indexes
  /\ schema' = IF column_exists(AddedColumns[column]) THEN schema
               ELSE [schema EXCEPT !.columns = @ \cup {AddedColumns[column]}]
  /\ column' = column + 1
  /\ UNCHANGED <<tableRows, copied, enforced, phase, sidecar, faults, earlier>>

\* An index over a column needs the column.
CreateFailureIndex ==
  /\ phase = "columns" /\ column = FailureIndexAfter + 1 /\ "failure_kind" \notin schema.indexes
  /\ <<"session_summaries", "failure_kind">> \in schema.columns
  /\ schema' = [schema EXCEPT !.indexes = @ \cup {"failure_kind"}]
  /\ UNCHANGED <<tableRows, copied, enforced, phase, column, sidecar, faults, earlier>>

ColumnsDone ==
  /\ phase = "columns" /\ column > Len(AddedColumns)
  /\ phase' = "collapse" /\ column' = 1
  /\ UNCHANGED <<schema, tableRows, copied, enforced, sidecar, faults, earlier>>

\* Of the rows with one key the first stays live.
KeepFirst(t) ==
  tableRows' = [tableRows EXCEPT ![t] = [r \in RowIds |->
                  [tableRows[t][r] EXCEPT !.live = tableRows[t][r].live /\ r = Smallest(SameKey(t, r))]]]

collapse_duplicate_enabled_throttle_profiles == column = 1 /\ KeepFirst("throttle_profiles")
collapse_duplicate_env_variables == column = 2 /\ KeepFirst("api_environment_variables")
collapse_duplicate_global_variables == column = 3 /\ KeepFirst("api_global_variables")
\* The details are scanned only while their index is missing.
collapse_duplicate_session_details ==
  /\ column = 4
  /\ IF "session_details" \in schema.indexes THEN UNCHANGED tableRows ELSE KeepFirst("session_details")

Collapse ==
  /\ Advance("collapse", "index")
  /\ \/ collapse_duplicate_enabled_throttle_profiles \/ collapse_duplicate_env_variables
     \/ collapse_duplicate_global_variables \/ collapse_duplicate_session_details
  /\ UNCHANGED <<schema, copied, enforced, column, sidecar, faults, earlier>>

\* Building a unique index over duplicates fails; an index that exists is left.
CreateUniqueIndex ==
  LET t == Unique[column] IN
  /\ phase = "index"
  /\ t \in schema.indexes \/ ~HasDuplicates(t)
  /\ schema' = [schema EXCEPT !.indexes = @ \cup {t}]
  /\ column' = column + 1
  /\ phase' = IF column = Len(Unique) THEN "rebuild" ELSE "collapse"
  /\ UNCHANGED <<tableRows, copied, enforced, sidecar, faults, earlier>>

\* The rebuild waits until both tables carry the key.
M_BothNeeded == schema.ruleFk = Rebuilt

\* One of the two tables still refers to its rule table.
foreign_key_references == schema.ruleFk # {}

ForeignKeysOff ==
  /\ phase = "rebuild"
  /\ IF foreign_key_references THEN phase' = "copying" /\ enforced' = FALSE
     ELSE phase' = "ready" /\ UNCHANGED enforced
  /\ UNCHANGED <<schema, tableRows, copied, column, sidecar, faults, earlier>>

\* Copy, drop and rename one table, inside the transaction.
REWRITE_RUNS_REBUILD ==
  /\ phase = "copying" /\ "rewrite_runs" \in schema.ruleFk \ copied
  /\ copied' = copied \cup {"rewrite_runs"}
  /\ UNCHANGED <<schema, tableRows, enforced, phase, column, sidecar, faults, earlier>>

MAP_RUNS_REBUILD ==
  /\ phase = "copying" /\ "map_runs" \in schema.ruleFk \ copied /\ "rewrite_runs" \notin schema.ruleFk \ copied
  /\ copied' = copied \cup {"map_runs"}
  /\ UNCHANGED <<schema, tableRows, enforced, phase, column, sidecar, faults, earlier>>

\* foreign_key_check over the copies, then the commit makes both visible.
CommitRebuild ==
  /\ phase = "copying" /\ copied = schema.ruleFk
  /\ schema' = [schema EXCEPT !.ruleFk = @ \ copied]
  /\ copied' = {} /\ phase' = "restore"
  /\ UNCHANGED <<tableRows, enforced, column, sidecar, faults, earlier>>

\* The rebuild fails: the transaction rolls back and enforcement is restored
\* before the error is returned.
AbortRebuild ==
  /\ phase = "copying" /\ faults < MaxFaults
  /\ copied' = {} /\ enforced' = TRUE /\ phase' = "closed"
  /\ faults' = faults + 1
  /\ UNCHANGED <<schema, tableRows, column, sidecar, earlier>>

ForeignKeysOn ==
  /\ Advance("restore", "ready")
  /\ enforced' = TRUE
  /\ UNCHANGED <<schema, tableRows, copied, column, sidecar, faults, earlier>>

\* Any other statement fails and the start ends, or the program dies.
StartEnds ==
  /\ phase \notin {"closed", "copying"} /\ faults < MaxFaults
  /\ phase' = "closed" /\ copied' = {} /\ faults' = faults + 1
  /\ UNCHANGED <<schema, tableRows, enforced, column, sidecar, earlier>>

DiesInRebuild ==
  /\ phase = "copying" /\ faults < MaxFaults
  /\ phase' = "closed" /\ copied' = {} /\ faults' = faults + 1
  /\ UNCHANGED <<schema, tableRows, enforced, column, sidecar, earlier>>

---------------------------------------------------------------------------
\* A new file, or one an older version left: some of the columns, the indexes
\* built so far in their order, and duplicates only where no index forbade them.
MigrationInit ==
  /\ \E n \in {0, 9, 13, Len(AddedColumns)}, i \in 0..Len(Unique), fk \in SUBSET Rebuilt :
       /\ i > 0 => n = Len(AddedColumns)
       /\ schema = [tables |-> n > 0, columns |-> {AddedColumns[k] : k \in 1..n},
                    indexes |-> {Unique[k] : k \in 1..i} \cup IF n > 13 THEN {"failure_kind"} ELSE {},
                    ruleFk |-> IF n > 0 THEN fk ELSE {}]
       /\ \E hits \in SUBSET {Unique[k] : k \in (i + 1)..Len(Unique)} :
            tableRows = [t \in {Unique[k] : k \in 1..Len(Unique)} |-> [r \in RowIds |->
                           [key |-> IF t \in hits THEN Smallest(RowIds) ELSE r,
                            live |-> n > 0]]]
  /\ copied = {} /\ enforced = FALSE /\ phase = "closed" /\ column = 1 /\ faults = 0
  /\ sidecar = {}
  /\ earlier = tableRows

NextMigration ==
  \/ open_read_only_database \/ open_database \/ CreateTables \/ migrate_add_column
  \/ CreateFailureIndex \/ ColumnsDone \/ Collapse \/ CreateUniqueIndex
  \/ ForeignKeysOff \/ REWRITE_RUNS_REBUILD \/ MAP_RUNS_REBUILD \/ CommitRebuild
  \/ AbortRebuild \/ ForeignKeysOn \/ StartEnds \/ DiesInRebuild

\* MigrationsConverge: whatever version left the database, and wherever earlier
\* starts failed or died, a start that finishes leaves every column and unique
\* index in place, no key twice, no rule foreign key and enforcement on; no
\* start loses a key (of duplicates the first row survives); and a capability
\* the sidecar read from the schema at any moment never becomes untrue.
MigrationsConverge ==
  /\ phase = "ready" =>
       /\ schema.columns = Columns /\ schema.ruleFk = {} /\ enforced
       /\ \A k \in 1..Len(Unique) : Unique[k] \in schema.indexes /\ ~HasDuplicates(Unique[k])
  /\ \A t \in DOMAIN earlier : \A r \in RowIds :
       earlier[t][r].live =>
         Smallest({q \in RowIds : earlier[t][q].key = earlier[t][r].key}) \in LiveRows(t)
  /\ sidecar \subseteq inspect_schema

MigrationSpec == MigrationInit /\ [][NextMigration]_migrationVars
=============================================================================
