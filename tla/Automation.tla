----------------------------- MODULE Automation -----------------------------
(***************************************************************************)
(* Agent automation: plans that create, update or delete rewrite and map   *)
(* rules, committed to the database, published to the rule managers the    *)
(* proxy reads, rolled back, expired, cleared, promoted to the user, and   *)
(* recovered after a crash.  automation_mutation_lock serialises them, but *)
(* commit, publication and the final status are three steps, and the       *)
(* registry of temporary agent rules works under a lock of its own.        *)
(***************************************************************************)
EXTENDS Naturals, FiniteSets

CONSTANTS
  Rules,     \* ids of rewrite and map rules
  UserRules, \* the ones the user has at first, with content 1
  Contents,  \* contents of a rule; its version is the hash of its content
  Keys,      \* idempotency keys; a key names the change made under it
  Allowances \* bounds: how many disturbances of each kind, and items of a plan

ASSUME AutomationAssumption == UserRules \subseteq Rules /\ Contents \subseteq Nat \ {0}

Absent == [v |-> 0, lock |-> FALSE]
NoMeta == [owner |-> "none", change |-> {}]
Unused == [status |-> "unused"]
Idle == [kind |-> "idle"]

VARIABLES
  rules,     \* rule tables
  meta,      \* automation_resources: owner and owning change
  changes,   \* automation_change_sets with their items and experiment
  live,      \* the managers: version and host lock of the rules the proxy runs
  temp,      \* the registry of temporary agent rules, which plans may name like any other
  job,       \* what holds automation_mutation_lock
  purge,     \* a registry removal between its read and its write of the managers
  ticket,    \* the last plan an agent validated
  evidence,  \* a verification that runs without the lock
  up,        \* "down", "loaded", "recovered", "failed" (the phases of a start) or "up"
  stale,     \* ghost: the last publication failed
  spare,     \* bound: the disturbances left
  raced,     \* ghost: two unsynchronised writers of the managers overlapped
  shed       \* ghost: stored rules the registry took from the managers since the last publication

automationVars == <<rules, meta, changes, live, temp, job, purge, ticket, evidence, up, stale, spare, raced, shed>>

AutomationInit ==
  /\ rules = [r \in Rules |-> IF r \in UserRules THEN 1 ELSE 0]
  /\ meta = [r \in Rules |-> NoMeta] /\ changes = [k \in Keys |-> Unused]
  /\ live = [r \in Rules |-> [v |-> rules[r], lock |-> FALSE]]
  /\ temp = {} /\ job = Idle /\ purge = {} /\ ticket = {} /\ evidence = {} /\ up = "up"
  /\ stale = FALSE /\ raced = FALSE /\ shed = {} /\ spare \in Allowances

\* One disturbance of the kind d is used up.
Spend(d) == spare[d] > 0 /\ spare' = [spare EXCEPT ![d] = @ - 1]

Free == up = "up" /\ job = Idle
Used(k) == changes[k] # Unused
Touched(k) == DOMAIN changes[k].items
SetStatus(f, ks, s) == [k \in Keys |-> IF k \in ks THEN [f[k] EXCEPT !.status = s] ELSE f[k]]
\* update_automation_experiment_state changes the experiment a change has, if any.
SetExperiment(f, ks, s) ==
  [k \in Keys |-> IF k \in ks /\ f[k].experiment # "none" THEN [f[k] EXCEPT !.experiment = s] ELSE f[k]]

-----------------------------------------------------------------------------
(* Publication.                                                            *)

\* Ephemeral changes that run: the active ones and the one being published.
Running(f, pending) ==
  {k \in Keys : /\ f[k] # Unused /\ f[k].lifecycle = "ephemeral"
                /\ \/ f[k].status = "active"
                   \/ k \in pending /\ f[k].status \in {"committed", "publish_failed"}}

\* publish_current_runtime: the tables, over them the items of the running ephemeral
\* changes that still own their resource; agent-owned rules are locked to their host.
FromDatabase(f, t, m, pending) ==
  [r \in Rules |->
     LET over == {k \in Running(f, pending) : m[r].change = {k} /\ r \in DOMAIN f[k].items} IN
     IF over # {} THEN [v |-> f[CHOOSE k \in over : TRUE].items[r].after, lock |-> TRUE]
     ELSE [v |-> t[r], lock |-> t[r] # 0 /\ m[r].owner = "agent"]]

\* A temporary rule without a row lives only in the managers and survives a publication.
WithTemporary(db) == [r \in Rules |-> IF db[r].v = 0 /\ r \in temp THEN live[r] ELSE db[r]]

-----------------------------------------------------------------------------
(* Plans.                                                                  *)

\* scope_hash: the running rules of the plan's hosts; here all rules share a host.
ScopeHash == [r \in Rules |-> live[r].v]
ScopeHashAfter(items) == [r \in Rules |-> IF r \in DOMAIN items THEN items[r].after ELSE live[r].v]

\* validate_plan_shape: at least one item, one per resource; ephemeral plans only create.
ValidPlan(lifecycle, plan) ==
  DOMAIN plan # {} /\ (lifecycle = "ephemeral" => \A r \in DOMAIN plan : plan[r] = "create")

\* A create gets a fresh id.
Fresh(r) ==
  /\ rules[r] = 0 /\ live[r].v = 0 /\ r \notin temp /\ meta[r] = NoMeta
  /\ \A p \in purge : p.rule # r
  /\ \A k \in Keys : Used(k) => r \notin Touched(k)

\* ensure_persistent_update_allowed.
NotEphemeral(r) == \A k \in meta[r].change : changes[k].lifecycle # "ephemeral"

\* An update: the rule runs, belongs to no ephemeral change, and is the agent's unless
\* manageUserAutomation is given; a temporary rule has no owner on record.
MayUpdate(r, manageUser) ==
  live[r].v # 0 /\ NotEphemeral(r) /\ (meta[r].owner = "agent" \/ manageUser)
\* A delete asks the same.
MayDelete(r, manageUser) ==
  live[r].v # 0 /\ NotEphemeral(r) /\ (meta[r].owner = "agent" \/ manageUser)

\* The items of a plan with what they replace.
UpsertItem(r, op, content) == [op |-> op, before |-> live[r].v, metaBefore |-> meta[r], after |-> content]
DeleteItem(r) == [op |-> "delete", before |-> live[r].v, metaBefore |-> meta[r], after |-> 0]
Prepared(plan, content) ==
  [r \in DOMAIN plan |-> IF plan[r] = "delete" THEN DeleteItem(r) ELSE UpsertItem(r, plan[r], content)]

\* prepare_automation_plan succeeds.
Preparable(lifecycle, plan, manageUser) ==
  ValidPlan(lifecycle, plan) /\ \A r \in DOMAIN plan : CASE plan[r] = "create" -> Fresh(r) [] plan[r] = "update" -> MayUpdate(r, manageUser) [] OTHER -> MayDelete(r, manageUser)

\* validate_automation_plan hands out the scope hash that apply checks again.
Validate(lifecycle, plan, content, manageUser) ==
  /\ Free /\ ticket = {} /\ Cardinality(DOMAIN plan) <= spare.items /\ Preparable(lifecycle, plan, manageUser)
  /\ ticket' = {[lifecycle |-> lifecycle, plan |-> plan, content |-> content, hash |-> ScopeHash]}
  /\ UNCHANGED <<rules, meta, changes, live, temp, job, purge, evidence, up, stale, raced, shed, spare>>

M_TakeOver(items, k) ==
  [r \in Rules |-> IF r \in DOMAIN items THEN [owner |-> "agent", change |-> {k}] ELSE meta[r]]
\* commit_prepared_change: a new rule and an agent's rule pass to the change; updating a
\* user's rule does not transfer its ownership.
MetaAfter(items, k) ==
  [r \in Rules |-> IF r \notin DOMAIN items THEN meta[r]
                   ELSE IF items[r].op = "delete" THEN NoMeta
                   ELSE IF items[r].op = "create" \/ items[r].metaBefore.owner = "agent"
                   THEN [owner |-> "agent", change |-> {k}] ELSE meta[r]]

TablesAfter(items, lifecycle) ==
  IF lifecycle = "ephemeral" THEN rules
  ELSE [r \in Rules |-> IF r \in DOMAIN items THEN items[r].after ELSE rules[r]]

\* insert_automation_change_set and its items.
CommittedChange(lifecycle, items) ==
  [status |-> "committed", lifecycle |-> lifecycle, items |-> items, past |-> FALSE,
   hash |-> ScopeHashAfter(items), experiment |-> "none", torn |-> FALSE, resaved |-> {}]

\* apply_automation_plan_locked up to its commit: the plan is prepared again, and the
\* scope must be the validated one.  Staging assets or the transaction may fail.
ApplyCommit(k, manageUser) ==
  /\ Free /\ ~Used(k)
  /\ \E t \in ticket :
       /\ Preparable(t.lifecycle, t.plan, manageUser) /\ t.hash = ScopeHash
       /\ LET items == Prepared(t.plan, t.content) IN
          /\ rules' = TablesAfter(items, t.lifecycle) /\ meta' = MetaAfter(items, k)
          /\ changes' = [changes EXCEPT ![k] = CommittedChange(t.lifecycle, items)]
  /\ job' = [kind |-> "apply", of |-> {k}, step |-> "committed", user |-> manageUser] /\ ticket' = {}
  /\ UNCHANGED <<live, temp, purge, evidence, up, stale, raced, shed, spare>>

\* The scope has moved on or the plan no longer applies: the agent must validate again.
ApplyRefused ==
  /\ Free /\ \E t \in ticket : ~Preparable(t.lifecycle, t.plan, TRUE) \/ t.hash # ScopeHash
  /\ ticket' = {}
  /\ UNCHANGED <<rules, meta, changes, live, temp, job, purge, evidence, up, stale, raced, shed, spare>>

\* The same plan sent again after its publication or its last record failed.
ApplyRetry(k) ==
  /\ Free /\ Used(k) /\ changes[k].status \in {"committed", "publish_failed"}
  /\ job' = [kind |-> "retry", of |-> {k}, step |-> "committed", user |-> FALSE]
  /\ UNCHANGED <<rules, meta, changes, live, temp, purge, ticket, evidence, up, stale, raced, shed, spare>>

-----------------------------------------------------------------------------
(* Rollback, clear, promotion.                                             *)

\* change_requires_user_automation.
NeedsUser(k) == \E r \in Touched(k) : changes[k].items[r].op # "create" /\ changes[k].items[r].metaBefore.owner # "agent"

\* The rules of the change run as it left them.
Unchanged(k) == \A r \in Touched(k) : live[r].v = changes[k].items[r].after

\* restore_rule_json and restore_metadata put back what the items replaced; an ephemeral
\* change never wrote a table.
RestoredRules(k) ==
  [r \in Rules |-> IF r \in Touched(k) /\ changes[k].lifecycle # "ephemeral" THEN changes[k].items[r].before ELSE rules[r]]
RestoredMeta(k) == [r \in Rules |-> IF r \in Touched(k) THEN changes[k].items[r].metaBefore ELSE meta[r]]

\* rollback_automation_change_locked up to its commit.
RollbackChange(k, reason, manageUser) ==
  /\ changes[k].status \notin {"reverted", "aborted", "promoted"} /\ Unchanged(k)
  /\ rules' = RestoredRules(k) /\ meta' = RestoredMeta(k)
  /\ changes' = SetStatus(changes, {k}, "reverting")
  /\ job' = [kind |-> reason, of |-> {k}, step |-> "committed", user |-> manageUser]
  /\ UNCHANGED <<live, temp, purge, ticket, evidence, up, stale, raced, shed, spare>>

\* By the user or an agent: the scope must still be what the change made of it.
RollbackCommit(k, manageUser) ==
  /\ Free /\ Used(k) /\ (NeedsUser(k) => manageUser) /\ changes[k].hash = ScopeHashAfter(changes[k].items)
  /\ RollbackChange(k, "manual", manageUser)

\* list_expired_ephemeral_changes and cleanup_expired_automation.
Overdue(k) ==
  changes[k].lifecycle = "ephemeral" /\ changes[k].past /\ changes[k].status \in {"committed", "active", "publish_failed"}
CleanupExpired(k) == Free /\ Used(k) /\ Overdue(k) /\ RollbackChange(k, "expired", FALSE)

\* clear_agent_automation: every rule the agent owns through a change of the chosen
\* lifecycle, and every change that ever touched one of them.
Cleared(lifecycles) == {r \in Rules : meta[r].owner = "agent" /\ \E k \in meta[r].change : changes[k].lifecycle \in lifecycles}
ChangesOf(S) == {k \in Keys : Used(k) /\ \E r \in S : r \in Touched(k) \/ meta[r].change = {k}}
ClearCommit(lifecycles) ==
  LET gone == Cleared(lifecycles) IN
  /\ Free /\ (gone # {} \/ stale \/ raced \/ shed # {})  \* otherwise it only publishes what runs already
  /\ \A k \in ChangesOf(gone) : ~NeedsUser(k)
  /\ rules' = [r \in Rules |-> IF r \in gone THEN 0 ELSE rules[r]]
  /\ meta' = [r \in Rules |-> IF r \in gone THEN NoMeta ELSE meta[r]]
  /\ changes' = SetStatus(changes, ChangesOf(gone), "reverting")
  /\ job' = [kind |-> "clear", of |-> ChangesOf(gone), step |-> "committed", user |-> FALSE]
  /\ UNCHANGED <<live, temp, purge, ticket, evidence, up, stale, raced, shed, spare>>

\* promote_automation_change: the rules pass to the user; nothing is published.
Promote(k) ==
  /\ Free /\ Used(k) /\ changes[k].lifecycle = "persistent" /\ changes[k].status = "active"
  /\ ~NeedsUser(k) /\ \E r \in Rules : meta[r].change = {k}
  /\ meta' = [r \in Rules |-> IF meta[r].change = {k} THEN [meta[r] EXCEPT !.owner = "user"] ELSE meta[r]]
  /\ changes' = SetExperiment(SetStatus(changes, {k}, "promoted"), {k}, "promoted")
  /\ UNCHANGED <<rules, live, temp, job, purge, ticket, evidence, up, stale, raced, shed, spare>>

-----------------------------------------------------------------------------
(* The steps after a commit.                                               *)

Outcome == [apply |-> "active", retry |-> "active", manual |-> "reverted", expired |-> "reverted", clear |-> "aborted"]
ExperimentOutcome == [manual |-> "completed", expired |-> "expired", clear |-> "aborted"]

\* Publication takes the registry's lock; it fails when the database cannot be read.
Publish ==
  /\ up = "up" /\ job.kind \in DOMAIN Outcome /\ job.step = "committed" /\ purge = {}
  /\ LET pending == IF job.kind \in {"apply", "retry"} THEN job.of ELSE {} IN
     \/ /\ live' = WithTemporary(FromDatabase(changes, rules, meta, pending))
        /\ job' = [job EXCEPT !.step = "published"] /\ stale' = FALSE /\ raced' = FALSE /\ shed' = {}
        /\ UNCHANGED <<changes, spare>>
     \/ /\ Spend("fault")
        /\ changes' = IF job.kind = "apply" THEN SetStatus(changes, job.of, "publish_failed") ELSE changes
        /\ job' = Idle /\ stale' = TRUE /\ UNCHANGED <<live, raced, shed>>
  /\ UNCHANGED <<rules, meta, temp, purge, ticket, evidence, up>>

\* The last record, change by change: the status, then the experiment, each a statement of
\* its own.  One that fails ends it: `done` are recorded, `cut` has its status only.
Recorded(done, cut, kind) ==
  LET set == SetStatus(changes, done \cup cut, Outcome[kind])
      experiments == IF kind \in DOMAIN ExperimentOutcome THEN SetExperiment(set, done, ExperimentOutcome[kind]) ELSE set
  IN  [k \in Keys |-> IF k \in cut THEN [experiments[k] EXCEPT !.torn = TRUE] ELSE experiments[k]]
Record ==
  /\ up = "up" /\ job # Idle /\ job.kind \in DOMAIN Outcome /\ job.step = "published"
  /\ \/ changes' = Recorded(job.of, {}, job.kind) /\ UNCHANGED <<spare, stale>>
     \/ \E done \in SUBSET job.of, cut \in SUBSET job.of :
          /\ done \cap cut = {} /\ Cardinality(cut) <= 1 /\ done # job.of
          /\ job.kind \notin DOMAIN ExperimentOutcome => cut = {}
          /\ Spend("fault") /\ changes' = Recorded(done, cut, job.kind)
          /\ stale' = (stale \/ job.kind \in {"apply", "retry"})
  /\ job' = Idle
  /\ UNCHANGED <<rules, meta, live, temp, purge, ticket, evidence, up, raced, shed>>

\* The time to live of an ephemeral change runs out.
Lapse(k) ==
  /\ Used(k) /\ changes[k].lifecycle = "ephemeral" /\ ~changes[k].past
  /\ changes' = [changes EXCEPT ![k].past = TRUE]
  /\ UNCHANGED <<rules, meta, live, temp, job, purge, ticket, evidence, up, stale, raced, shed, spare>>

-----------------------------------------------------------------------------
(* Verification runs without the lock and records under it.                *)

VerifyStart(k) ==
  /\ up = "up" /\ evidence = {} /\ Used(k) /\ changes[k].status = "active" /\ ~changes[k].past /\ Unchanged(k)
  /\ evidence' = {k} /\ Spend("verify")
  /\ UNCHANGED <<rules, meta, changes, live, temp, job, purge, ticket, up, stale, raced, shed>>

\* ensure_change_still_active and ensure_verification_targets_current.
StillActive(k) == changes[k].status = "active" /\ Unchanged(k)

\* persist_verification opens the change's experiment.
VerifyRecord(k) ==
  /\ Free /\ evidence = {k} /\ evidence' = {}
  /\ changes' = IF StillActive(k) /\ changes[k].experiment = "none"
                THEN [changes EXCEPT ![k].experiment = "running"] ELSE changes
  /\ UNCHANGED <<rules, meta, live, temp, job, purge, ticket, up, stale, raced, shed, spare>>

-----------------------------------------------------------------------------
(* The user's rules and the temporary agent rules.                         *)

\* ensure_rule_is_user_editable.
Editable(r) == r \notin temp /\ meta[r].owner # "agent"

\* ghost: the changes remember which of their rules the user saved since.
Resaved(r) ==
  [k \in Keys |-> IF Used(k) /\ r \in Touched(k) THEN [changes[k] EXCEPT !.resaved = @ \cup {r}] ELSE changes[k]]

\* save_rewrite_rule and save_map_rule hold the mutation lock: the table first, then the
\* managers, read and replaced as a whole.
UserSave(r, v) ==
  /\ Free /\ Editable(r) /\ v # rules[r] /\ Spend("save")
  /\ rules' = [rules EXCEPT ![r] = v] /\ changes' = Resaved(r)
  /\ job' = [kind |-> "save", rule |-> r, v |-> v, copy |-> live]
  /\ UNCHANGED <<meta, live, temp, purge, ticket, evidence, up, stale, raced, shed>>

\* delete_rule of a user's rule or of a temporary one.
UserDelete(r) ==
  /\ Free /\ Spend("save") /\ meta[r].owner # "agent" /\ (rules[r] # 0 \/ r \in temp)
  /\ rules' = [rules EXCEPT ![r] = 0]
  /\ job' = [kind |-> "save", rule |-> r, v |-> 0, copy |-> live]
  /\ UNCHANGED <<meta, changes, live, temp, purge, ticket, evidence, up, stale, raced, shed>>

\* store_rule preserves the host lock; delete_rule drops the entry.
Stored(copy, r, v) == [copy EXCEPT ![r] = [v |-> v, lock |-> v # 0 /\ @.lock]]

UserSaveLive ==
  /\ up = "up" /\ job.kind = "save"
  /\ live' = Stored(job.copy, job.rule, job.v)
  /\ raced' = (raced \/ live # job.copy \/ purge # {}) /\ shed' = shed \ {job.rule}
  /\ job' = IF job.rule \in temp THEN [kind |-> "forget", rule |-> job.rule] ELSE Idle
  /\ UNCHANGED <<rules, meta, changes, temp, purge, ticket, evidence, up, stale, spare>>

\* forget_deleted_rule.
UserForget ==
  /\ up = "up" /\ job.kind = "forget" /\ purge = {}
  /\ temp' = temp \ {job.rule} /\ job' = Idle
  /\ UNCHANGED <<rules, meta, changes, live, purge, ticket, evidence, up, stale, raced, shed, spare>>

\* createAgentRule holds both locks.
TempCreate(r) ==
  /\ Free /\ purge = {} /\ Fresh(r) /\ Spend("temp")
  /\ temp' = temp \cup {r} /\ live' = [live EXCEPT ![r] = [v |-> 1, lock |-> TRUE]]
  /\ UNCHANGED <<rules, meta, changes, job, purge, ticket, evidence, up, stale, raced, shed>>

\* A list, a clear or the expiry removes a temporary rule under the registry's lock only:
\* delete_rule reads the managers, then replaces them, whatever row a plan gave the rule.
TempRemove(r) ==
  /\ up = "up" /\ purge = {} /\ r \in temp
  /\ purge' = {[rule |-> r, copy |-> live]} /\ temp' = temp \ {r}
  /\ UNCHANGED <<rules, meta, changes, live, job, ticket, evidence, up, stale, raced, shed, spare>>

TempRemoveLive ==
  /\ \E p \in purge : /\ live' = [p.copy EXCEPT ![p.rule] = Absent]
                      /\ raced' = (raced \/ live # p.copy)
                      /\ shed' = IF rules[p.rule] # 0 THEN shed \cup {p.rule} ELSE shed
  /\ purge' = {}
  /\ UNCHANGED <<rules, meta, changes, temp, job, ticket, evidence, up, stale, spare>>

-----------------------------------------------------------------------------
(* Crash and recovery.                                                     *)

AppCrash ==
  /\ up # "down" /\ Spend("crash") /\ up' = "down" /\ job' = Idle /\ purge' = {} /\ temp' = {} /\ ticket' = {} /\ evidence' = {}
  /\ live' = [r \in Rules |-> Absent] /\ stale' = TRUE /\ raced' = FALSE /\ shed' = {}
  /\ UNCHANGED <<rules, meta, changes>>

\* bootstrap: set_rules fills the managers from the tables, without any lock.
Boot ==
  /\ up = "down" /\ up' = "loaded" /\ live' = [r \in Rules |-> [v |-> rules[r], lock |-> FALSE]]
  /\ UNCHANGED <<rules, meta, changes, temp, job, purge, ticket, evidence, stale, raced, shed, spare>>

\* list_ephemeral_changes_for_restart_cleanup and the rules' metadata of a change.
Abandoned ==
  {k \in Keys : /\ Used(k) /\ changes[k].lifecycle = "ephemeral"
                /\ changes[k].status \in {"committed", "active", "publish_failed", "reverting"}}
MetaWithout(S) == [r \in Rules |-> IF \E k \in S : meta[r].change = {k} THEN NoMeta ELSE meta[r]]

\* abandon_ephemeral_changes_after_restart: one transaction for each change.
AbandonEphemeral(k) ==
  /\ up = "loaded" /\ k \in Abandoned
  /\ meta' = MetaWithout({k})
  /\ changes' = SetExperiment(SetStatus(changes, {k}, "aborted"), {k}, "expired")
  /\ UNCHANGED <<rules, live, temp, job, purge, ticket, evidence, up, stale, raced, shed, spare>>

M_AssumeAfter(k) == "after"
\* classify_persisted_change_state: what the tables say of an unfinished change.
Persisted(k) ==
  IF \A r \in Touched(k) : rules[r] = changes[k].items[r].after THEN "after"
  ELSE IF \A r \in Touched(k) : rules[r] = changes[k].items[r].before THEN "before" ELSE "mixed"

Unfinished ==
  {k \in Keys : /\ Used(k) /\ changes[k].lifecycle = "persistent"
                /\ changes[k].status \in {"committed", "publish_failed", "reverting"}}

\* recover_automation_changes: every unfinished change is classified; a mixed one, or a
\* statement that fails, ends the recovery.  Otherwise the tables are published.
RecoverPublish ==
  /\ up = "loaded"
  /\ \/ /\ Abandoned = {} /\ \A k \in Unfinished : Persisted(k) # "mixed"
        /\ live' = WithTemporary(FromDatabase(changes, rules, meta, {}))
        /\ stale' = FALSE /\ up' = "recovered" /\ UNCHANGED spare
     \/ Abandoned = {} /\ (\E k \in Unfinished : Persisted(k) = "mixed") /\ up' = "failed" /\ UNCHANGED <<live, stale, spare>>
     \/ Spend("fault") /\ up' = "failed" /\ UNCHANGED <<live, stale>>
  /\ UNCHANGED <<rules, meta, changes, temp, job, purge, ticket, evidence, raced, shed>>

\* Then each is finished the way the tables said, status and experiment in two statements.
RecoverRecord(k) ==
  /\ up = "recovered" /\ k \in Unfinished
  /\ LET set == SetStatus(changes, {k}, IF Persisted(k) = "after" THEN "active" ELSE "reverted") IN
     \/ /\ changes' = IF Persisted(k) = "after" THEN set ELSE SetExperiment(set, {k}, "completed")
        /\ UNCHANGED <<up, spare>>
     \/ /\ Spend("fault") /\ up' = "failed"
        /\ \/ UNCHANGED changes
           \/ Persisted(k) # "after" /\ changes' = [set EXCEPT ![k].torn = TRUE]
  /\ UNCHANGED <<rules, meta, live, temp, job, purge, ticket, evidence, stale, raced, shed>>

RecoverDone ==
  /\ up = "recovered" /\ Unfinished = {} /\ up' = "up"
  /\ UNCHANGED <<rules, meta, changes, live, temp, job, purge, ticket, evidence, stale, raced, shed, spare>>

\* republish_automation_runtime after a recovery that failed; when that fails too, the
\* managers keep what set_rules gave them.
Republish ==
  /\ up = "failed" /\ up' = "up"
  /\ \/ live' = WithTemporary(FromDatabase(changes, rules, meta, {})) /\ stale' = FALSE /\ UNCHANGED spare
     \/ Spend("fault") /\ UNCHANGED live /\ stale' = TRUE
  /\ UNCHANGED <<rules, meta, changes, temp, job, purge, ticket, evidence, raced, shed>>

-----------------------------------------------------------------------------
Plans == UNION {[S -> {"create", "update", "delete"}] : S \in SUBSET Rules}

AutomationNext ==
  \/ \E lifecycle \in {"persistent", "ephemeral"}, plan \in Plans, content \in Contents, user \in BOOLEAN :
       Validate(lifecycle, plan, content, user)
  \/ \E k \in Keys :
       \/ \E user \in BOOLEAN : ApplyCommit(k, user) \/ RollbackCommit(k, user)
       \/ CleanupExpired(k) \/ ApplyRetry(k) \/ Promote(k) \/ Lapse(k) \/ VerifyStart(k) \/ VerifyRecord(k)
  \/ ApplyRefused \/ Publish \/ Record
  \/ \E l \in {{"persistent"}, {"ephemeral"}, {"persistent", "ephemeral"}} : ClearCommit(l)
  \/ \E r \in Rules, v \in Contents : UserSave(r, v)
  \/ \E r \in Rules : UserDelete(r) \/ TempCreate(r) \/ TempRemove(r)
  \/ UserSaveLive \/ UserForget \/ TempRemoveLive
  \/ AppCrash \/ Boot \/ RecoverPublish \/ RecoverDone \/ Republish
  \/ \E k \in Keys : AbandonEphemeral(k) \/ RecoverRecord(k)

AutomationSpec == AutomationInit /\ [][AutomationNext]_automationVars

-----------------------------------------------------------------------------
\* A rule as the database has it: the active ephemeral change that owns it, or its row.
ActiveOwner(r) == {k \in meta[r].change : changes[k].lifecycle = "ephemeral" /\ changes[k].status = "active"}
InDatabase(r) ==
  IF ActiveOwner(r) = {} THEN rules[r] ELSE CHOOSE v \in {changes[k].items[r].after : k \in ActiveOwner(r)} : TRUE

\* When nothing is under way the proxy runs exactly what the database says: a rule an
\* active ephemeral change owns as that change wrote it, every other as its table has it,
\* each rule of an agent locked to its host, and of the rules without a row the temporary
\* ones; unless a publication or a record failed, or the registry and a save overlapped.
\* (A promotion leaves the host lock of its rules until the next publication.)  One case is
\* left out because the code does get it wrong: a plan may update a temporary rule, which
\* gives it a row, and when the registry then removes the rule from the managers the row
\* stays, until the next publication brings the rule back.
RuntimeMatchesDatabase ==
  up = "up" /\ job = Idle /\ purge = {} /\ ~stale /\ ~raced =>
    \A r \in Rules \ shed :
      /\ IF InDatabase(r) # 0 THEN live[r].v = InDatabase(r) ELSE live[r].v # 0 <=> r \in temp
      /\ InDatabase(r) # 0 /\ meta[r].owner = "agent" => live[r].lock

\* A change took what it replaces from managers that a failed publication, or a save that
\* raced with the registry, had left behind the database: its rollback puts that back.
TakenStale(r) ==
  \E k \in Keys : /\ Used(k) /\ r \in Touched(k) /\ changes[k].items[r].metaBefore.owner = "agent"
                   /\ \E j \in changes[k].items[r].metaBefore.change : changes[k].items[r].before # changes[j].items[r].after

\* The rule an agent owns is the one its change wrote, unless a change of it was prepared
\* on stale managers; and an active change still has the rules it created, unless another
\* change took one over or the user saved it since, whatever was updated, rolled back,
\* cleared or recovered after a crash in between.  (Recovery takes a change that was rolled
\* back, and whose rules the user then saved content for content, for an active one.)
OwnedRuleIsTheChanges ==
  /\ \A r \in Rules : meta[r].owner = "agent" =>
       \A k \in meta[r].change :
         /\ Used(k) /\ r \in Touched(k)
         /\ rules[r] = (IF changes[k].lifecycle = "ephemeral" THEN 0 ELSE changes[k].items[r].after) \/ TakenStale(r)
  /\ \A k \in Keys : Used(k) /\ changes[k].status = "active" =>
       \A r \in Touched(k) \ changes[k].resaved :
         changes[k].items[r].op = "create" => meta[r].change = {k} \/ \E j \in Keys \ {k} : Used(j) /\ r \in Touched(j)

\* The rule is the user's own: no change ever created it.
Native(r) == \A k \in Keys : Used(k) /\ r \in Touched(k) => changes[k].items[r].op # "create"

\* An apply, rollback, expiry or clear without manageUserAutomation leaves every stored rule
\* that no change created as it is, whatever changes, rollbacks and promotions the rule
\* has been through, and never makes it the agent's.  A rule that a change did create and
\* that is now the user's (promoted, or saved again) is touched only by the rollback of a
\* change that wrote the very content it has now: versions are hashes of the content, so
\* such a rollback cannot tell that the rule changed hands.
UserRulesKept ==
  [][\A r \in Rules :
       job' # job /\ job'.kind \in {"apply", "manual", "expired", "clear"} /\ ~job'.user /\ rules[r] # 0 /\
       (rules'[r] # rules[r] \/ meta'[r].owner # meta[r].owner) =>
         /\ ~Native(r)
         /\ meta[r].owner # "agent" =>
              job'.kind = "manual" /\ \E k \in job'.of : r \in Touched(k) /\ changes[k].items[r].after = live[r].v]_automationVars

\* Evidence gathered without the lock never opens an experiment of a change that is over:
\* the experiment follows its change, unless the two records were torn apart.
ExperimentFollowsChange ==
  \A k \in Keys : Used(k) /\ changes[k].experiment = "running" /\ ~changes[k].torn =>
    changes[k].status \in {"active", "reverting"}

\* Rules, changes and experiments agree whatever was applied, rolled back, cleared or
\* recovered (automation.rs): the running rules are the stored ones, an agent's rule is
\* its change's, and an experiment runs only while its change does.
AutomationAgrees == RuntimeMatchesDatabase /\ OwnedRuleIsTheChanges /\ ExperimentFollowsChange

=============================================================================
