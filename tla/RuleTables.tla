----------------------------- MODULE RuleTables -----------------------------
(***************************************************************************)
(* The rules the user edits: every kind lives twice, as rows of SQLite     *)
(* (crates/db/src/rules.rs) and in the manager the proxy matches against   *)
(* (proxy-core rules/managers.rs, rule-engine types.rs).  A command of     *)
(* commands/rules.rs or throttling.rs checks its input, writes the rows on *)
(* the blocking pool under the connection's lock and then, without that    *)
(* lock, the manager; start-up loads the managers from the rows.  Rewrite  *)
(* and map commands hold automation_mutation_lock throughout, the other    *)
(* kinds hold nothing.  A captured exchange names the rules that matched   *)
(* it, and its traces are written later, when a rule may be gone.          *)
(*                                                                         *)
(* One behaviour is about one kind.  A rule is its content, its match type *)
(* and its switch; rows hold its encoding, managers the decoded rule.  A   *)
(* command is cut at its lock, its checks, each database write and each    *)
(* manager write.  Priority and the order of the lists are left out.       *)
(***************************************************************************)
EXTENDS Naturals, Sequences, FiniteSets

CONSTANTS RuleIds,            \* rule ids
          Editors,      \* commands that may run at the same time
          TracedSessions,       \* captured exchanges
          NobodyHolds,    \* a lock that is free
          MaxCommands, MaxRestarts, MaxRuns   \* bounds on commands, restarts, trace writes

ASSUME TablesAssumption ==
  /\ RuleIds # {} /\ Editors # {} /\ NobodyHolds \notin Editors
  /\ {MaxCommands, MaxRestarts, MaxRuns} \subseteq Nat

VARIABLES ruleKind,      \* the kind of rule this behaviour is about
          ruleRows,      \* its table: id |-> rule
          memory,    \* its manager: id |-> rule
          owner,     \* who made the rule: the user, an automation change, a temporary agent rule
          runs,      \* run history: session |-> ids, "null" for a forgotten rule
          runEntries,   \* entries of those runs (script and rewrite)
          matched,   \* session |-> ids its exchange matched, not yet written
          ops,       \* the commands
          mutex,     \* holder of automation_mutation_lock
          dbHolder,      \* holder of the database connection
          diverged,      \* ghost: two unlocked commands crossed, or a load failed
          due,       \* ghost: the run history that was written and not deleted
          spent      \* commands, restarts and trace writes so far

tableVars == <<ruleKind, ruleRows, memory, owner, runs, runEntries, matched, ops, mutex, dbHolder, diverged, due, spent>>

Kinds == {"rewrite", "map", "dns", "script", "throttle", "profile", "breakpoint"}
Locked == {"rewrite", "map"}                   \* held under automation_mutation_lock
NoRule == [form |-> "none", v |-> 0, mt |-> "none", flaw |-> "none", on |-> FALSE]

\* A rule of a manager: its content, its match type (None is "default"), its
\* switch, for rewrite rules whether it carries actions or a single payload, and
\* what is wrong with it: a blank field, or a target, mode or source that is no good.
RuleForm == IF ruleKind = "rewrite" THEN "actions" ELSE "plain"
Flaws == CASE ruleKind = "map" -> {"blank", "mode", "target"}
           [] ruleKind = "dns" -> {"blank", "target"}
           [] ruleKind = "script" -> {"source"}
           [] OTHER -> {}
InputRule(v, mt, flaw, on) == [form |-> RuleForm, v |-> v, mt |-> mt, flaw |-> flaw, on |-> on]
Inputs == {InputRule(c[1], c[2], "none", b) : c \in {<<1, "default">>, <<2, "exact">>}, b \in BOOLEAN}
            \cup {InputRule(2, "default", f, TRUE) : f \in Flaws}
AtRest == [pc |-> "rest", act |-> "none", id |-> "none", rule |-> NoRule, list |-> << >>, ok |-> TRUE]

PresentIn(t) == {i \in RuleIds : t[i] # NoRule}

---------------------------------------------------------------------------
(* Encoding a rule for its row and back.  The row always names a match     *)
(* type; an empty one, written by an older version, is read as None.       *)

RowMatch(mt) == IF mt = "default" THEN "contains" ELSE mt
RuleMatch(mt) == IF mt = "" THEN "default" ELSE mt

\* The payload column holds the ordered actions as an array.
rewrite_rule_to_row(r) == [r EXCEPT !.form = "array", !.mt = RowMatch(r.mt)]
map_rule_to_row(r) == [r EXCEPT !.mt = RowMatch(r.mt)]
dns_rule_to_row(r) == [r EXCEPT !.mt = RowMatch(r.mt)]
script_rule_to_row(r) == [r EXCEPT !.mt = RowMatch(r.mt)]
throttle_rule_to_row(r) == [r EXCEPT !.mt = RowMatch(r.mt)]
breakpoint_rule_to_row(r) == [r EXCEPT !.mt = RowMatch(r.mt)]

\* A row of an older version holds one action object: the rule carries it as
\* its payload and has no actions.
rewrite_row_to_rule(r) ==
  [r EXCEPT !.form = IF r.form = "array" THEN "actions" ELSE "single", !.mt = RuleMatch(r.mt)]

map_row_to_rule(r) == [r EXCEPT !.mt = RuleMatch(r.mt)]
dns_mapping_row_to_rule(r) == [r EXCEPT !.mt = RuleMatch(r.mt)]
script_row_to_rule(r) == [r EXCEPT !.mt = RuleMatch(r.mt)]
throttle_row_to_rule(r) == [r EXCEPT !.mt = RuleMatch(r.mt)]
breakpoint_row_to_rule(r) == [r EXCEPT !.mt = RuleMatch(r.mt)]

RowOf(r) ==
  IF r = NoRule \/ ruleKind = "profile" THEN r
  ELSE CASE ruleKind = "rewrite" -> rewrite_rule_to_row(r)
         [] ruleKind = "map" -> map_rule_to_row(r)
         [] ruleKind = "dns" -> dns_rule_to_row(r)
         [] ruleKind = "script" -> script_rule_to_row(r)
         [] ruleKind = "throttle" -> throttle_rule_to_row(r)
         [] ruleKind = "breakpoint" -> breakpoint_rule_to_row(r)

RuleOf(r) ==
  IF r = NoRule \/ ruleKind = "profile" THEN r
  ELSE CASE ruleKind = "rewrite" -> rewrite_row_to_rule(r)
         [] ruleKind = "map" -> map_row_to_rule(r)
         [] ruleKind = "dns" -> dns_mapping_row_to_rule(r)
         [] ruleKind = "script" -> script_row_to_rule(r)
         [] ruleKind = "throttle" -> throttle_row_to_rule(r)
         [] ruleKind = "breakpoint" -> breakpoint_row_to_rule(r)

---------------------------------------------------------------------------
(* The rows. *)

\* UPDATE-or-INSERT: the row is replaced in place and nothing that refers to it moves.
UpdateOrInsert(i, rule) == ruleRows' = [ruleRows EXCEPT ![i] = rule] /\ UNCHANGED <<runs, runEntries>>

save_rewrite_row(i, rule) == UpdateOrInsert(i, rule)
save_map_row(i, rule) == UpdateOrInsert(i, rule)
save_dns_row(i, rule) == UpdateOrInsert(i, rule)
save_script_row(i, rule) == UpdateOrInsert(i, rule)
save_throttle_row(i, rule) == UpdateOrInsert(i, rule)

\* An enabled profile switches every other one off in the same transaction.
save_throttle_profile(i, rule) ==
  /\ ruleRows' = [j \in RuleIds |-> IF j = i THEN rule
                            ELSE IF rule.on THEN [ruleRows[j] EXCEPT !.on = FALSE] ELSE ruleRows[j]]
  /\ UNCHANGED <<runs, runEntries>>

\* All profiles off, then the named one on; an unknown id rolls the transaction back.
set_active_throttle_profile(i) ==
  /\ i \in RuleIds => ruleRows[i] # NoRule
  /\ ruleRows' = [j \in RuleIds |-> [ruleRows[j] EXCEPT !.on = (j = i)]]
  /\ UNCHANGED <<runs, runEntries>>

\* The whole breakpoint table is replaced by the list of the editor.
replace_breakpoint_rules(table) == ruleRows' = [i \in RuleIds |-> RowOf(table[i])] /\ UNCHANGED <<runs, runEntries>>

RowGone(i) == ruleRows' = [ruleRows EXCEPT ![i] = NoRule]
delete_rewrite_row(i) == RowGone(i) /\ UNCHANGED <<runs, runEntries>>
delete_map_row(i) == RowGone(i) /\ UNCHANGED <<runs, runEntries>>
delete_dns_row(i) == RowGone(i) /\ UNCHANGED <<runs, runEntries>>

\* script_runs refers to the rule: its runs and their entries go with it.
delete_script_row(i) ==
  /\ RowGone(i)
  /\ runs' = [s \in TracedSessions |-> runs[s] \ {i}]
  /\ runEntries' = [s \in TracedSessions |-> runEntries[s] \ {i}]

\* throttle_runs does not: the id is nulled, the row of the run stays.
delete_throttle_row(i) ==
  /\ RowGone(i)
  /\ runs' = [s \in TracedSessions |-> IF i \in runs[s] THEN (runs[s] \ {i}) \cup {"null"} ELSE runs[s]]
  /\ UNCHANGED runEntries

SaveRow(i, rule) ==
  CASE ruleKind = "rewrite" -> save_rewrite_row(i, rule)
    [] ruleKind = "map" -> save_map_row(i, rule)
    [] ruleKind = "dns" -> save_dns_row(i, rule)
    [] ruleKind = "script" -> save_script_row(i, rule)
    [] ruleKind = "throttle" -> save_throttle_row(i, rule)
    [] ruleKind = "profile" -> save_throttle_profile(i, rule)

DeleteRow(i) ==
  CASE ruleKind = "rewrite" -> delete_rewrite_row(i)
    [] ruleKind = "map" -> delete_map_row(i)
    [] ruleKind = "dns" -> delete_dns_row(i)
    [] ruleKind = "script" -> delete_script_row(i)
    [] ruleKind = "throttle" -> delete_throttle_row(i)

---------------------------------------------------------------------------
(* The managers.  A deleted id is forgotten; saving replaces in place.     *)

rewrite_manager_save(m, i, rule) == [m EXCEPT ![i] = rule]
map_manager_save(m, i, rule) == [m EXCEPT ![i] = rule]
dns_manager_save(m, i, rule) == [m EXCEPT ![i] = rule]
script_manager_save(m, i, rule) == [m EXCEPT ![i] = rule]
throttle_manager_save(m, i, rule) == [m EXCEPT ![i] = rule]
profile_manager_save(m, i, rule) == [m EXCEPT ![i] = rule]
set_active_profile(m, i) ==
  [j \in RuleIds |-> IF m[j] = NoRule THEN NoRule ELSE [m[j] EXCEPT !.on = (j = i)]]

ManagerSave(m, i, rule) ==
  CASE ruleKind = "rewrite" -> rewrite_manager_save(m, i, rule)
    [] ruleKind = "map" -> map_manager_save(m, i, rule)
    [] ruleKind = "dns" -> dns_manager_save(m, i, rule)
    [] ruleKind = "script" -> script_manager_save(m, i, rule)
    [] ruleKind = "throttle" -> throttle_manager_save(m, i, rule)
    [] ruleKind = "profile" -> profile_manager_save(m, i, rule)

---------------------------------------------------------------------------
(* What a command refuses. *)

\* Rules made by an automation change, or held by the agent registry, are read-only.
ensure_rule_is_user_editable(i) == owner[i] = "user"

\* Every field filled, a known mode, a URL or an existing file or folder behind it.
validate_map_rule(r) == r.flaw \notin {"blank", "mode", "target"}
\* Every field filled and an address that parses.
validate_dns_mapping(r) == r.flaw \notin {"blank", "target"}
compile_script_rule(r) == r.flaw # "source"

SaveAllowed(i, r) ==
  CASE ruleKind = "rewrite" -> ensure_rule_is_user_editable(i)
    [] ruleKind = "map" -> ensure_rule_is_user_editable(i) /\ validate_map_rule(r)
    [] ruleKind = "dns" -> validate_dns_mapping(r)
    [] ruleKind = "script" -> compile_script_rule(r)
    [] OTHER -> TRUE

\* A temporary agent rule may be deleted; a rule of an automation change may not.
DeleteAllowed(i) == ruleKind \in Locked => owner[i] # "agent"

BulkAllowed(list) ==
  ruleKind \in Locked => \A k \in 1..Len(list) : ensure_rule_is_user_editable(list[k].id)

---------------------------------------------------------------------------
(* The commands.  A request names what it wants; list is the bulk patch or *)
(* the breakpoint table; pos is the patch being applied.                   *)

Requests ==
  CASE ruleKind = "breakpoint" ->
         {[AtRest EXCEPT !.act = "replace", !.list = <<t>>] :
            t \in [RuleIds -> {NoRule, InputRule(1, "default", "none", TRUE), InputRule(2, "exact", "none", TRUE)}]}
    [] ruleKind = "profile" ->
         {[AtRest EXCEPT !.act = "save", !.id = i, !.rule = r] : i \in RuleIds, r \in Inputs}
           \cup {[AtRest EXCEPT !.act = "activate", !.id = i] : i \in RuleIds \cup {"none"}}
    [] OTHER ->
         {[AtRest EXCEPT !.act = "save", !.id = i, !.rule = r] : i \in RuleIds, r \in Inputs}
           \cup {[AtRest EXCEPT !.act = "delete", !.id = i] : i \in RuleIds}
           \cup {[AtRest EXCEPT !.act = "bulk", !.list = l] :
                    l \in {<<[id |-> i, on |-> FALSE]>> : i \in RuleIds}
                           \cup {<<[id |-> i, on |-> b], [id |-> j, on |-> FALSE]>> :
                                   i \in RuleIds, j \in RuleIds, b \in {TRUE}}}

Goes(o, pc) == ops' = [ops EXCEPT ![o].pc = pc]
ReleaseMutex(o) == mutex' = IF mutex = o THEN NobodyHolds ELSE mutex
EditDone(o) == ops' = [ops EXCEPT ![o] = AtRest] /\ ReleaseMutex(o)
Tables == <<ruleRows, runs, runEntries>>

Ask(o) ==
  /\ ops[o].pc = "rest" /\ spent.commands < MaxCommands
  /\ \E q \in Requests : ops' = [ops EXCEPT ![o] = [q EXCEPT !.pc = "lock"]]
  /\ spent' = [spent EXCEPT !.commands = @ + 1]
  /\ UNCHANGED <<ruleKind, ruleRows, memory, owner, runs, runEntries, matched, mutex, dbHolder, diverged, due>>

\* Only a save waits for the automation lock.
M_SavesOnly(o) == ruleKind \in Locked /\ ops[o].act = "save"

\* Rewrite and map commands run one at a time, and never beside an automation change.
TakesLock(o) == ruleKind \in Locked

AutomationLock(o) ==
  /\ ops[o].pc = "lock"
  /\ IF TakesLock(o) THEN mutex = NobodyHolds /\ mutex' = o ELSE mutex' = mutex
  /\ Goes(o, "check")
  /\ UNCHANGED <<ruleKind, ruleRows, memory, owner, runs, runEntries, matched, dbHolder, diverged, due, spent>>

\* Some other command has written its rows and not yet its manager.
Crossed(o) == ruleKind \notin Locked /\ \E p \in Editors \ {o} : ops[p].pc \in {"publish", "activate"}

RefuseEdit(o) ==
  /\ ops[o].pc = "check"
  /\ CASE ops[o].act = "save" -> ~SaveAllowed(ops[o].id, ops[o].rule)
       [] ops[o].act = "delete" -> ~DeleteAllowed(ops[o].id)
       [] ops[o].act = "bulk" -> ~BulkAllowed(ops[o].list)
       [] OTHER -> FALSE
  /\ EditDone(o)
  /\ UNCHANGED <<ruleKind, ruleRows, memory, owner, runs, runEntries, matched, dbHolder, diverged, due, spent>>

\* The statement or its commit fails, or the activated profile is unknown:
\* nothing is written and the manager is left alone.
PersistFails(o) ==
  /\ ops[o].pc = "check" /\ ops[o].act # "bulk" /\ dbHolder = NobodyHolds
  /\ EditDone(o)
  /\ UNCHANGED <<ruleKind, ruleRows, memory, owner, runs, runEntries, matched, dbHolder, diverged, due, spent>>

Persisting(o, act) ==
  /\ ops[o].pc = "check" /\ ops[o].act = act /\ dbHolder = NobodyHolds
  /\ Goes(o, "publish")
  /\ diverged' = (diverged \/ Crossed(o))
  /\ UNCHANGED <<ruleKind, memory, owner, matched, mutex, dbHolder, spent>>

PersistSave(o) ==
  /\ Persisting(o, "save")
  /\ SaveAllowed(ops[o].id, ops[o].rule)
  /\ SaveRow(ops[o].id, RowOf(ops[o].rule))
  /\ UNCHANGED due

PersistDelete(o) ==
  /\ Persisting(o, "delete")
  /\ DeleteAllowed(ops[o].id)
  /\ DeleteRow(ops[o].id)
  /\ due' = [s \in TracedSessions |->
               IF ops[o].id \notin due[s] \/ ruleKind \notin {"script", "throttle"} THEN due[s]
               ELSE (due[s] \ {ops[o].id}) \cup (IF ruleKind = "throttle" THEN {"null"} ELSE {})]

PersistActive(o) ==
  Persisting(o, "activate") /\ set_active_throttle_profile(ops[o].id) /\ UNCHANGED due

set_breakpoint_rules(o) ==
  Persisting(o, "replace") /\ replace_breakpoint_rules(ops[o].list[1]) /\ UNCHANGED due

\* The manager write of the same command.  Deleting a temporary agent rule
\* makes the registry forget it.  An enabled profile is then made the active one.
PublishRule(o) ==
  /\ ops[o].pc = "publish" /\ ops[o].act # "bulk"
  /\ memory' = CASE ops[o].act = "save" -> ManagerSave(memory, ops[o].id, ops[o].rule)
                 [] ops[o].act = "delete" -> [memory EXCEPT ![ops[o].id] = NoRule]
                 [] ops[o].act = "activate" -> set_active_profile(memory, ops[o].id)
                 [] ops[o].act = "replace" -> ops[o].list[1]
  /\ owner' = IF ops[o].act = "delete" THEN [owner EXCEPT ![ops[o].id] = "user"] ELSE owner
  /\ IF ruleKind = "profile" /\ ops[o].act = "save" /\ ops[o].rule.on
       THEN Goes(o, "activate") /\ UNCHANGED mutex ELSE EditDone(o)
  /\ UNCHANGED <<ruleKind, ruleRows, runs, runEntries, matched, dbHolder, diverged, due, spent>>

ActivateSaved(o) ==
  /\ ops[o].pc = "activate"
  /\ memory' = set_active_profile(memory, ops[o].id)
  /\ EditDone(o)
  /\ UNCHANGED <<ruleKind, ruleRows, owner, runs, runEntries, matched, dbHolder, diverged, due, spent>>

---------------------------------------------------------------------------
(* bulk_update_rules: one turn of the connection for the whole list, a     *)
(* patch at a time, each read from the manager, written to the rows and    *)
(* then to the manager.  A patch that fails ends the command; the earlier  *)
(* ones stay.  An id the manager does not know is skipped.                 *)

BulkBegin(o) ==
  /\ ops[o].pc = "check" /\ ops[o].act = "bulk" /\ BulkAllowed(ops[o].list)
  /\ dbHolder = NobodyHolds /\ dbHolder' = o
  /\ Goes(o, "read")
  /\ UNCHANGED <<ruleKind, ruleRows, memory, owner, runs, runEntries, matched, mutex, diverged, due, spent>>

apply_rule_patch(r, update) == [r EXCEPT !.on = update.on]

BulkRead(o) ==
  LET update == Head(ops[o].list) IN
  /\ ops[o].pc = "read" /\ ops[o].list # << >>
  /\ ops' = IF memory[update.id] = NoRule THEN [ops EXCEPT ![o].list = Tail(@)]
             ELSE [ops EXCEPT ![o].pc = "write", ![o].id = update.id,
                              ![o].rule = apply_rule_patch(memory[update.id], update)]
  /\ diverged' = (diverged \/ Crossed(o))
  /\ UNCHANGED <<ruleKind, ruleRows, memory, owner, runs, runEntries, matched, mutex, dbHolder, due, spent>>

\* The rows of one patch.  A rule of the older form is stored as an array of
\* its one action, whatever form the manager keeps.
bulk_patch_rewrite(o) == save_rewrite_row(ops[o].id, RowOf(ops[o].rule))
bulk_patch_map(o) == save_map_row(ops[o].id, RowOf(ops[o].rule))
bulk_patch_dns(o) == save_dns_row(ops[o].id, RowOf(ops[o].rule))
bulk_patch_script(o) == compile_script_rule(ops[o].rule) /\ save_script_row(ops[o].id, RowOf(ops[o].rule))
bulk_patch_throttle(o) == save_throttle_row(ops[o].id, RowOf(ops[o].rule))

BulkWrite(o) ==
  /\ ops[o].pc = "write"
  /\ CASE ruleKind = "rewrite" -> bulk_patch_rewrite(o)
       [] ruleKind = "map" -> bulk_patch_map(o)
       [] ruleKind = "dns" -> bulk_patch_dns(o)
       [] ruleKind = "script" -> bulk_patch_script(o)
       [] ruleKind = "throttle" -> bulk_patch_throttle(o)
  /\ Goes(o, "publish")
  /\ UNCHANGED <<ruleKind, memory, owner, matched, mutex, dbHolder, diverged, due, spent>>

BulkPublish(o) ==
  /\ ops[o].pc = "publish" /\ ops[o].act = "bulk"
  /\ memory' = ManagerSave(memory, ops[o].id, ops[o].rule)
  /\ ops' = [ops EXCEPT ![o].pc = "read", ![o].list = Tail(@)]
  /\ UNCHANGED <<ruleKind, ruleRows, owner, runs, runEntries, matched, mutex, dbHolder, diverged, due, spent>>

BulkEnds(o) ==
  /\ \/ ops[o].pc = "read" /\ ops[o].list = << >>
     \/ ops[o].pc = "write"
  /\ dbHolder' = NobodyHolds
  /\ EditDone(o)
  /\ UNCHANGED <<ruleKind, ruleRows, memory, owner, runs, runEntries, matched, diverged, due, spent>>

---------------------------------------------------------------------------
(* Run history.  An exchange matches the enabled rules of the manager; its *)
(* traces are written with the session, each write replacing the last.     *)

HasRuns == ruleKind \in {"rewrite", "map", "script", "throttle"}

MatchRules(s) ==
  /\ HasRuns /\ matched[s] = {} /\ spent.runs < MaxRuns
  /\ matched' = [matched EXCEPT ![s] = {i \in RuleIds : memory[i] # NoRule /\ memory[i].on}]
  /\ spent' = [spent EXCEPT !.runs = @ + 1]
  /\ UNCHANGED <<ruleKind, ruleRows, memory, owner, runs, runEntries, ops, mutex, dbHolder, diverged, due>>

ReplaceRuns(s, new) == runs' = [runs EXCEPT ![s] = new]
ReplaceEntries(s, new) == runEntries' = [runEntries EXCEPT ![s] = new]

\* script_runs still refers to script_rules: one trace of a rule that is gone
\* rolls the session's whole replacement back.
replace_script_runs_for_session(s, new, told) ==
  IF new \subseteq PresentIn(ruleRows) THEN ReplaceRuns(s, new) /\ ReplaceEntries(s, told)
  ELSE UNCHANGED <<runs, runEntries>>
replace_rewrite_runs_for_session(s, new, told) == ReplaceRuns(s, new) /\ ReplaceEntries(s, told)
replace_map_runs_for_session(s, new) == ReplaceRuns(s, new) /\ UNCHANGED runEntries
replace_throttle_runs_for_session(s, new) == ReplaceRuns(s, new) /\ UNCHANGED runEntries

\* One run row per trace, its entries keyed by the run.
persist_script_traces_impl(s, traces) == replace_script_runs_for_session(s, traces, traces)
persist_rewrite_traces_impl(s, traces) == replace_rewrite_runs_for_session(s, traces, traces)
persist_map_traces_impl(s, traces) == replace_map_runs_for_session(s, traces)
persist_throttle_traces_impl(s, traces) == replace_throttle_runs_for_session(s, traces)

persist_all_traces(s) ==
  CASE ruleKind = "script" -> persist_script_traces_impl(s, matched[s])
    [] ruleKind = "rewrite" -> persist_rewrite_traces_impl(s, matched[s])
    [] ruleKind = "map" -> persist_map_traces_impl(s, matched[s])
    [] ruleKind = "throttle" -> persist_throttle_traces_impl(s, matched[s])

WriteTraces(s) ==
  /\ matched[s] # {} /\ dbHolder = NobodyHolds
  /\ persist_all_traces(s)
  /\ matched' = [matched EXCEPT ![s] = {}]
  /\ due' = IF ruleKind = "script" /\ ~(matched[s] \subseteq PresentIn(ruleRows)) THEN due
            ELSE [due EXCEPT ![s] = matched[s]]
  /\ UNCHANGED <<ruleKind, ruleRows, memory, owner, ops, mutex, dbHolder, diverged, spent>>

---------------------------------------------------------------------------
(* Restart: commands in flight are gone, managers are loaded from the rows *)
(* or, when a row does not decode, stay empty; temporary rules are gone,   *)
(* and start-up clears the captured sessions with their runs.              *)

\* One row that does not decode fails the load of its table.
Loaded(decodes, Convert(_)) ==
  [i \in RuleIds |-> IF decodes /\ ruleRows[i] # NoRule THEN Convert(ruleRows[i]) ELSE NoRule]
load_all_rewrite_rules(decodes) == Loaded(decodes, rewrite_row_to_rule)
load_all_map_rules(decodes) == Loaded(decodes, map_row_to_rule)
load_all_dns_mappings(decodes) == Loaded(decodes, dns_mapping_row_to_rule)
load_all_script_rules(decodes) == Loaded(decodes, script_row_to_rule)
load_all_throttle_rules(decodes) == Loaded(decodes, throttle_row_to_rule)
load_breakpoint_rules(decodes) == Loaded(decodes, breakpoint_row_to_rule)
load_all_throttle_profiles(decodes) == IF decodes THEN ruleRows ELSE [i \in RuleIds |-> NoRule]

init_from_db(decodes) ==
  memory' = CASE ruleKind = "rewrite" -> load_all_rewrite_rules(decodes)
              [] ruleKind = "map" -> load_all_map_rules(decodes)
              [] ruleKind = "dns" -> load_all_dns_mappings(decodes)
              [] ruleKind = "script" -> load_all_script_rules(decodes)
              [] ruleKind = "throttle" -> load_all_throttle_rules(decodes)
              [] ruleKind = "breakpoint" -> load_breakpoint_rules(decodes)
              [] ruleKind = "profile" -> load_all_throttle_profiles(decodes)

Restart ==
  /\ spent.restarts < MaxRestarts
  /\ \E decodes \in BOOLEAN : init_from_db(decodes) /\ diverged' = ~decodes
  /\ spent' = [spent EXCEPT !.restarts = @ + 1]
  /\ ops' = [o \in Editors |-> AtRest]
  /\ mutex' = NobodyHolds /\ dbHolder' = NobodyHolds
  /\ owner' = [i \in RuleIds |-> IF owner[i] = "temp" THEN "user" ELSE owner[i]]
  /\ runs' = [s \in TracedSessions |-> {}] /\ runEntries' = [s \in TracedSessions |-> {}]
  /\ matched' = [s \in TracedSessions |-> {}] /\ due' = [s \in TracedSessions |-> {}]
  /\ UNCHANGED <<ruleKind, ruleRows>>

---------------------------------------------------------------------------

\* A row written by an older version: no match type, and one action object.
OldRow == [form |-> IF ruleKind = "rewrite" THEN "object" ELSE "plain", v |-> 3, mt |-> "",
           flaw |-> "none", on |-> TRUE]

TablesInit ==
  /\ ruleKind \in Kinds
  /\ \E i \in RuleIds : ruleRows = [j \in RuleIds |-> IF j = i THEN OldRow ELSE NoRule]
  /\ owner \in [RuleIds -> {"user", "agent", "temp"}]
  /\ \A i \in RuleIds :
       /\ owner[i] # "user" => ruleKind \in Locked
       /\ owner[i] = "agent" => ruleRows[i] # NoRule
       /\ owner[i] = "temp" => ruleRows[i] = NoRule
  /\ memory = [i \in RuleIds |-> IF owner[i] = "temp" THEN InputRule(1, "default", "none", TRUE) ELSE RuleOf(ruleRows[i])]
  /\ runs = [s \in TracedSessions |-> {}] /\ runEntries = runs /\ matched = runs /\ due = runs
  /\ ops = [o \in Editors |-> AtRest]
  /\ mutex = NobodyHolds /\ dbHolder = NobodyHolds /\ diverged = FALSE
  /\ spent = [commands |-> 0, restarts |-> 0, runs |-> 0]

NextTables ==
  \/ \E o \in Editors :
       \/ Ask(o) \/ AutomationLock(o) \/ RefuseEdit(o) \/ PersistFails(o)
       \/ PersistSave(o) \/ PersistDelete(o) \/ PersistActive(o) \/ set_breakpoint_rules(o)
       \/ PublishRule(o) \/ ActivateSaved(o)
       \/ BulkBegin(o) \/ BulkRead(o) \/ BulkWrite(o) \/ BulkPublish(o) \/ BulkEnds(o)
  \/ \E s \in TracedSessions : MatchRules(s) \/ WriteTraces(s)
  \/ Restart

---------------------------------------------------------------------------
(* What the user is shown. *)

\* A listed rule is marked as the agent's when the registry or its metadata says so.
annotate_agent_rule(i) == IF owner[i] # "user" THEN "agent" ELSE "user"
list_rewrite_rules == [i \in PresentIn(memory) |-> annotate_agent_rule(i)]

\* Runs of a session with their entries, joined by run id.
load_script_runs_for_session(s) == runs[s]
load_script_run_entries(s, ids) == runEntries[s] \cap ids
list_script_session_trace(s) ==
  LET ids == load_script_runs_for_session(s) IN
  {[rule |-> i, told |-> i \in load_script_run_entries(s, ids)] : i \in ids}
load_rewrite_runs_for_session(s) == runs[s]
load_rewrite_run_entries(s, ids) == runEntries[s] \cap ids
list_rewrite_session_trace(s) ==
  LET ids == load_rewrite_runs_for_session(s) IN
  {[rule |-> i, told |-> i \in load_rewrite_run_entries(s, ids)] : i \in ids}
load_map_runs_for_session(s) == runs[s]
list_map_session_trace(s) == {[rule |-> i, told |-> TRUE] : i \in load_map_runs_for_session(s)}
load_throttle_runs_for_session(s) == runs[s]
list_throttle_session_trace(s) == {[rule |-> i, told |-> TRUE] : i \in load_throttle_runs_for_session(s)}
load_throttled_session_ids == {s \in TracedSessions : runs[s] # {}}

ShownTrace(s) ==
  CASE ruleKind = "script" -> list_script_session_trace(s)
    [] ruleKind = "rewrite" -> list_rewrite_session_trace(s)
    [] ruleKind = "map" -> list_map_session_trace(s)
    [] OTHER -> list_throttle_session_trace(s)

\* What a rule does, whichever form it is kept in.
Effect(r) == [v |-> r.v, mt |-> IF r.mt = "default" THEN "contains" ELSE r.mt, on |-> r.on]

InWindow == \E o \in Editors : ops[o].pc \in {"publish", "activate"}

\* RulesStayConsistent: whatever commands run together, whichever of them fail
\* and whenever the program restarts, outside the window between a command's two
\* writes the rule the proxy applies is the rule the next start would load (for
\* unlocked kinds unless two commands crossed); rows never hold a rule its command
\* refuses nor two active profiles; a rule shown as the user's own is one the user
\* may edit; a rule of an automation change is never touched; and the run history
\* shown is what was written last, each run with its entries: runs of a deleted script
\* rule go with it, a throttle run forgets its rule, rewrite and map runs stay.
RulesStayConsistent ==
  /\ ~InWindow /\ ~diverged => \A i \in RuleIds :
       owner[i] # "temp" => Effect(memory[i]) = Effect(RuleOf(ruleRows[i]))
  /\ \A i \in RuleIds : ruleRows[i].flaw \notin Flaws
  /\ ruleKind = "profile" => Cardinality({i \in RuleIds : ruleRows[i].on}) <= 1
  /\ \A i \in DOMAIN list_rewrite_rules :
       ruleKind \in Locked => ((list_rewrite_rules[i] = "user") <=> ensure_rule_is_user_editable(i))
  /\ \A i \in RuleIds : owner[i] = "agent" => ruleRows[i] = OldRow
  /\ \A s \in TracedSessions : ShownTrace(s) = {[rule |-> i, told |-> TRUE] : i \in due[s]}
  /\ ruleKind = "throttle" => load_throttled_session_ids = {s \in TracedSessions : due[s] # {}}

TablesSpec == TablesInit /\ [][NextTables]_tableVars
=============================================================================
