---------------------------- MODULE AgentControl ----------------------------
(***************************************************************************)
(* The control socket an agent drives the application through, and the     *)
(* temporary grants the user gives it: one thread per connection, a global *)
(* write lock, a preflight before and after waiting for it, and a store of *)
(* grants behind one mutex (every grant operation is one step).            *)
(***************************************************************************)
EXTENDS Naturals, Sequences, FiniteSets

CONSTANTS
  Conns,            \* connection threads
  Caps,             \* AgentCapability
  Repeatable,       \* capabilities that allow the fifteen-minute option
  ControlOps,              \* control operations; the fingerprint of an action is its operation
  Needs,            \* permissions of an operation, conditional ones included
  Reads,            \* operations that are not writes
  NonIdempotent,    \* what a client may say of its action (nonIdempotent)
  MaxUses,          \* FIFTEEN_MINUTE_MAX_USES
  MaxGrants,        \* MAX_GRANTS kept
  MaxConnections,   \* MAX_CONCURRENT_CONTROL_CONNECTIONS
  MaxIds,           \* bound on the grants ever requested
  MaxSettings,      \* bound on changes of the settings
  Starts            \* bounds already used up: ids given out and settings changed

ASSUME ControlAssumption ==
  /\ Repeatable \subseteq Caps /\ Needs \in [ControlOps -> SUBSET Caps] /\ Reads \subseteq ControlOps /\ NonIdempotent \subseteq BOOLEAN
  /\ {MaxUses, MaxGrants, MaxConnections, MaxIds} \subseteq Nat \ {0} /\ MaxSettings \in Nat
  /\ Starts \subseteq Nat \X Nat

VARIABLES
  config,    \* agent-access.json: enabled, permissions, capabilities that may be asked for
  grants,    \* the store, oldest first
  nextId,    \* ids given out
  conn,      \* what each connection thread is doing
  writer,    \* connections holding write_lock
  edits      \* settings changed so far

controlVars == <<config, grants, nextId, conn, writer, edits>>

Ids == 1..MaxIds
Live == {"pending", "approved", "executing"}
Terminal == {"denied", "revoked", "expired", "cancelled", "unknown"}
Options == {"once", "fifteen"}
OptionUses(option) == IF option = "once" THEN 1 ELSE MaxUses
IdleConn == [pc |-> "idle", op |-> CHOOSE o \in ControlOps : TRUE, ids |-> {}, use |-> {}, copy |-> "pending", woken |-> FALSE, barred |-> {}, cut |-> FALSE]

ControlInit ==
  /\ config = [enabled |-> TRUE, perms |-> {}, ask |-> Caps]
  /\ grants = <<>> /\ writer = {} /\ \E s \in Starts : nextId = s[1] /\ edits = s[2]
  /\ conn = [c \in Conns |-> IdleConn]

-----------------------------------------------------------------------------
(* The grant store.                                                        *)

Index(id) == CHOOSE i \in DOMAIN grants : grants[i].id = id
Known(id) == \E i \in DOMAIN grants : grants[i].id = id
Grant(id) == grants[Index(id)]
Expired(g) == [g EXCEPT !.status = "expired", !.uses = 0]

\* refresh_expired.
Refreshed(gs) == [i \in DOMAIN gs |-> IF gs[i].status \in Live /\ gs[i].past THEN Expired(gs[i]) ELSE gs[i]]

\* trim_grants makes room for one more.
Trimmed(gs) == IF Len(gs) < MaxGrants THEN gs ELSE SubSeq(gs, Len(gs) - MaxGrants + 2, Len(gs))

\* allowed_approval_options: only repeatable capabilities get the quota, and only for
\* idempotent actions.
allowed_approval_options(cap, nonIdempotent) ==
  IF ~nonIdempotent /\ cap \in Repeatable THEN Options ELSE {"once"}

\* validate_request and validate_approval_options.
ValidRequest(cap, nonIdempotent, options) ==
  options # {} /\ options \subseteq allowed_approval_options(cap, nonIdempotent)

\* Threads that wait on the condition variable are woken; they look when they run.
NotifyAll(f) == [c \in Conns |-> IF f[c].pc = "waiting" THEN [f[c] EXCEPT !.woken = TRUE] ELSE f[c]]

\* The newest grant of a key that has one of the statuses and has not run out.
Newest(gs, op, cap, statuses) ==
  LET S == {i \in DOMAIN gs : gs[i].op = op /\ gs[i].cap = cap /\ gs[i].status \in statuses /\ ~gs[i].past} IN
  IF S = {} THEN 0 ELSE CHOOSE i \in S : \A j \in S : j <= i

\* The listener: a connection over the limit is dropped.
Permit(c) == conn[c].pc = "idle" /\ Cardinality({d \in Conns : conn[d].pc # "idle"}) < MaxConnections

\* requestAgentGrant: preflight of the request policy, then the store; the thread waits
\* for the user unless a recent denial or a usable grant answers it, or the store could
\* not be written.
RequestGrant(c, op, cap, nonIdempotent, options) ==
  /\ Permit(c) /\ cap \in Needs[op]
  /\ config.enabled /\ cap \in config.ask
  /\ ValidRequest(cap, nonIdempotent, options)
  /\ LET gs      == Refreshed(grants)
         denied  == Newest(gs, op, cap, {"denied"})
         usable  == Newest(gs, op, cap, Live)
         waiting(id) == [IdleConn EXCEPT !.pc = "waiting", !.op = op, !.ids = {id}]
     IN  \/ /\ denied # 0 \/ usable # 0
            /\ grants' = gs /\ UNCHANGED nextId
            /\ conn' = [conn EXCEPT ![c] =
                 IF denied = 0 /\ gs[usable].status = "pending" THEN waiting(gs[usable].id) ELSE IdleConn]
         \/ /\ denied = 0 /\ usable = 0 /\ nextId < MaxIds
            /\ nextId' = nextId + 1
            /\ grants' = Append(Trimmed(gs), [id |-> nextId + 1, op |-> op, cap |-> cap, status |-> "pending",
                                              uses |-> 0, max |-> 0, ran |-> 0,
                                              past |-> FALSE, options |-> options,
                                              nonIdempotent |-> nonIdempotent])
            /\ conn' \in {[conn EXCEPT ![c] = waiting(nextId + 1)], [conn EXCEPT ![c] = IdleConn]}
  /\ UNCHANGED <<config, writer, edits>>

\* wait_for_grant wakes up and copies the grant; it was trimmed or cleared if it is gone.
WaitWake(c) ==
  /\ conn[c].pc = "waiting" /\ conn[c].woken
  /\ LET gone == \A id \in conn[c].ids : ~Known(id)
         now  == IF gone THEN "cancelled" ELSE Grant(CHOOSE id \in conn[c].ids : TRUE).status
     IN  conn' = [conn EXCEPT ![c] = IF now = "pending" THEN [@ EXCEPT !.woken = FALSE, !.copy = now] ELSE IdleConn]
  /\ UNCHANGED <<config, grants, nextId, writer, edits>>

\* wait_timeout gives up; the thread has yet to take the mutex again.
WaitTimeout(c) ==
  /\ conn[c].pc = "waiting" /\ ~conn[c].woken
  /\ conn' = [conn EXCEPT ![c].pc = "timedOut"]
  /\ UNCHANGED <<config, grants, nextId, writer, edits>>

\* replace_grant stores the thread's own copy of the grant, marked expired: never
\* approved, so without uses, whatever happened to the grant meanwhile.
TimedOutGrant(g) == [g EXCEPT !.status = "expired", !.uses = 0]

WaitExpire(c) ==
  /\ conn[c].pc = "timedOut"
  /\ grants' = [i \in DOMAIN grants |-> IF grants[i].id \in conn[c].ids THEN TimedOutGrant(grants[i]) ELSE grants[i]]
  /\ conn' = NotifyAll([conn EXCEPT ![c] = IdleConn])
  /\ UNCHANGED <<config, nextId, writer, edits>>

\* The store is written before the waiters are told: they are not when that fails.
Told == {conn, NotifyAll(conn)}

\* approve: a pending grant, with an option the capability allows; one that has run out
\* is marked so instead.
Approve(i, option) ==
  /\ i \in DOMAIN grants /\ grants[i].status = "pending"
  /\ IF grants[i].past THEN grants' = [grants EXCEPT ![i].status = "expired"]
     ELSE /\ option \in grants[i].options
          /\ option \in allowed_approval_options(grants[i].cap, grants[i].nonIdempotent)
          /\ grants' = [grants EXCEPT ![i].status = "approved", ![i].uses = OptionUses(option), ![i].max = OptionUses(option)]
  /\ conn' \in Told
  /\ UNCHANGED <<config, nextId, writer, edits>>

\* deny: starts the cooldown.  A grant that is no longer pending stays as it is.
Deny(i) ==
  /\ i \in DOMAIN grants
  /\ grants' = IF grants[i].status = "pending" THEN [grants EXCEPT ![i].status = "denied", ![i].past = FALSE] ELSE grants
  /\ conn' \in Told
  /\ UNCHANGED <<config, nextId, writer, edits>>

\* Connections that may no longer use these grants, wherever they are.
Bar(f, ids) == [c \in Conns |-> IF f[c].pc \in {"queued", "holding", "authorized"} THEN [f[c] EXCEPT !.barred = @ \cup (ids \cap f[c].ids)] ELSE f[c]]

\* revoke: a grant that has ended stays as it is.
Revoke(i) ==
  /\ i \in DOMAIN grants
  /\ IF grants[i].status \in Live
     THEN /\ grants' = [grants EXCEPT ![i].status = "revoked", ![i].uses = 0]
          /\ \E f \in Told : conn' = Bar(f, {grants[i].id})
     ELSE UNCHANGED grants /\ conn' \in Told
  /\ UNCHANGED <<config, nextId, writer, edits>>

\* Time passes for a grant: the approval window, the execution window or the cooldown.
GrantLapses(i) ==
  /\ i \in DOMAIN grants /\ grants[i].status \in Live \cup {"denied"} /\ ~grants[i].past
  /\ grants' = [grants EXCEPT ![i].past = TRUE]
  /\ UNCHANGED <<config, nextId, conn, writer, edits>>

\* has_grant_for_capability.
HasGrant(ids, cap) ==
  \E id \in ids : Known(id) /\ LET g == Grant(id) IN
    g.cap = cap /\ g.uses > 0 /\ g.status \in {"approved", "executing"} /\ ~g.past

\* authorized_grant_id: the grant of the capability among the ones presented.
Authorized(ids, op, cap) ==
  {id \in ids : Known(id) /\ LET g == Grant(id) IN
     g.cap = cap /\ g.op = op /\ g.uses > 0 /\ g.status \in {"approved", "executing"}}

\* consume: one use of a grant for a read of the sidecar.
Consume(c, id) ==
  /\ Permit(c) /\ config.enabled
  /\ Known(id)
  /\ LET gs == Refreshed(grants)
         i  == Index(id)
         g  == gs[i]
     IN  /\ g.cap \in config.ask /\ g.status = "approved" /\ g.uses > 0
         /\ grants' = [gs EXCEPT ![i].uses = @ - 1, ![i].ran = @ + 1,
                               ![i].status = IF g.uses = 1 THEN "expired" ELSE @]
  /\ conn' = NotifyAll([conn EXCEPT ![c] = IdleConn])
  /\ UNCHANGED <<config, nextId, writer, edits>>

\* reserve_grants: all or none; one use each.
Reserved(ids) ==
  [i \in DOMAIN grants |-> IF grants[i].id \in ids
                           THEN [grants[i] EXCEPT !.status = "executing", !.uses = @ - 1] ELSE grants[i]]
Ran(gs, ids) == [i \in DOMAIN gs |-> IF gs[i].id \in ids THEN [gs[i] EXCEPT !.ran = @ + 1] ELSE gs[i]]
Reservable(ids) == \A id \in ids : Known(id) /\ Grant(id).status \in {"approved", "executing"} /\ Grant(id).uses > 0

M_ReviveOnFinish(g, outcome) == [g EXCEPT !.status = IF outcome = "unknown" THEN "unknown" ELSE "approved"]
\* finish and completed_grant_status: only a grant that is still executing is changed.
Completed(g, outcome) ==
  IF g.status # "executing" THEN g
  ELSE [g EXCEPT !.status = IF outcome = "unknown" THEN "unknown" ELSE IF g.uses > 0 THEN "approved" ELSE "expired"]

-----------------------------------------------------------------------------
(* A connection.                                                           *)

\* required_permissions_for without what the settings allow.
Missing(op) == Needs[op] \ config.perms

\* ensure_permission and ensure_approved_grants.
Preflight(op, ids) ==
  /\ config.enabled /\ Missing(op) \subseteq config.ask
  /\ \A cap \in Missing(op) : HasGrant(ids, cap) /\ Authorized(ids, op, cap) # {}

\* authorize refreshes the store when it is consulted.
Consulted(op, ids) == IF \E cap \in Missing(op) : HasGrant(ids, cap) THEN Refreshed(grants) ELSE grants

\* The grants the action will use: one per missing capability.
GrantsFor(op, ids) ==
  {CHOOSE id \in Authorized(ids, op, cap) : TRUE : cap \in {k \in Missing(op) : Authorized(ids, op, k) # {}}}

\* preflight_request_with_extra also refuses on its own account: before it looks at the
\* grants (protocol, request id, token, settings it cannot read) or after (the operation's
\* arguments, an audit log it cannot write).
StoreAfter(op, ids, passed) == IF passed THEN {Consulted(op, ids)} ELSE {grants, Consulted(op, ids)}

\* The first preflight of execute_request: a read goes on with the grants it found, a
\* write queues for write_lock.  A refused request finishes the grants it presented.
Submit(c, op, ids) ==
  /\ Permit(c) /\ (ids # {} \/ Preflight(op, ids))
  /\ \E passed \in {FALSE, Preflight(op, ids)} :
       LET started == [IdleConn EXCEPT !.op = op, !.ids = ids] IN
       /\ conn' = [conn EXCEPT ![c] =
            IF ~passed THEN [started EXCEPT !.pc = "answer", !.copy = "settled"]
            ELSE IF op \in Reads THEN [started EXCEPT !.pc = "authorized", !.use = GrantsFor(op, ids)]
            ELSE [started EXCEPT !.pc = "queued"]]
       /\ grants' \in StoreAfter(op, ids, passed)
  /\ UNCHANGED <<config, nextId, writer, edits>>

\* The guard of write_lock is dropped when execute_request returns.
Unlocked(c) == writer \ {c}

TakeLock(c) ==
  /\ conn[c].pc = "queued" /\ writer = {}
  /\ writer' = {c} /\ conn' = [conn EXCEPT ![c].pc = "holding"]
  /\ UNCHANGED <<config, grants, nextId, edits>>

M_LockOnly(c) == TRUE
\* The second preflight: a revocation that happened while the request was queued stops it.
StillAllowed(c) == Preflight(conn[c].op, conn[c].ids)

Recheck(c) ==
  /\ conn[c].pc = "holding"
  /\ \E passed \in {FALSE, StillAllowed(c)} :
       /\ IF passed
          THEN /\ conn' = [conn EXCEPT ![c].pc = "authorized", ![c].use = GrantsFor(conn[c].op, conn[c].ids)]
               /\ UNCHANGED writer
          ELSE /\ conn' = [conn EXCEPT ![c].pc = "answer", ![c].copy = "settled"]
               /\ writer' = Unlocked(c)
       /\ grants' \in StoreAfter(conn[c].op, conn[c].ids, passed)
  /\ UNCHANGED <<config, nextId, edits>>

\* mark_executing, then dispatch.  A failed write of the store refuses the action
\* although the uses are spent.
Execute(c) ==
  /\ conn[c].pc = "authorized"
  /\ LET use == conn[c].use IN
     \/ /\ Reservable(use)
        /\ grants' = Ran(Reserved(use), use)
        /\ conn' = [conn EXCEPT ![c].pc = "running"]
        /\ UNCHANGED writer
     \/ /\ use # {}
        /\ grants' = IF Reservable(use) THEN Reserved(use) ELSE grants
        /\ conn' = [conn EXCEPT ![c].pc = "answer", ![c].copy = "settled"]
        /\ writer' = Unlocked(c)
  /\ UNCHANGED <<config, nextId, edits>>

\* dispatch returns; the audit entry and the answer may fail to be written.
ReturnResult(c, outcome) ==
  /\ conn[c].pc = "running"
  /\ conn' = [conn EXCEPT ![c].pc = "answer", ![c].copy = outcome]
  /\ writer' = Unlocked(c)
  /\ UNCHANGED <<config, grants, nextId, edits>>

\* finish with the grants the request presented.
Answer(c) ==
  /\ conn[c].pc = "answer"
  /\ grants' = [i \in DOMAIN grants |-> IF grants[i].id \in conn[c].ids THEN Completed(grants[i], conn[c].copy) ELSE grants[i]]
  /\ conn' = NotifyAll([conn EXCEPT ![c] = IdleConn])
  /\ UNCHANGED <<config, nextId, writer, edits>>

-----------------------------------------------------------------------------
(* The settings.                                                           *)

\* update_agent_access_settings.
UpdateSettings(enabled, perms, ask) ==
  /\ edits < MaxSettings /\ edits' = edits + 1
  /\ config' = [enabled |-> enabled, perms |-> perms, ask |-> ask]
  /\ conn' = [c \in Conns |-> IF conn[c].pc \in {"queued", "holding"} THEN [conn[c] EXCEPT !.cut = FALSE] ELSE conn[c]]
  /\ UNCHANGED <<grants, nextId, writer>>

\* revoke_agent_control_permissions writes the configuration, then clears the grants.
RevokeAll ==
  /\ config.perms \cup config.ask # {}
  /\ config' = [config EXCEPT !.perms = {}, !.ask = {}]
  /\ conn' = [c \in Conns |-> IF conn[c].pc \in {"queued", "holding"} THEN [conn[c] EXCEPT !.cut = TRUE] ELSE conn[c]]
  /\ UNCHANGED <<grants, nextId, writer, edits>>

ClearGrants ==
  /\ config.perms \cup config.ask = {} /\ grants # <<>>
  /\ grants' = <<>> /\ conn' = NotifyAll(conn)
  /\ UNCHANGED <<config, nextId, writer, edits>>

ConnStep(c) ==
  \/ WaitWake(c) \/ WaitTimeout(c) \/ WaitExpire(c) \/ TakeLock(c) \/ Recheck(c) \/ Execute(c) \/ Answer(c)
  \/ \E outcome \in {"settled", "unknown"} : ReturnResult(c, outcome)

ControlNext ==
  \/ \E c \in Conns :
       \/ ConnStep(c) \/ \E id \in Ids : Consume(c, id)
       \/ \E op \in ControlOps, cap \in Caps, once \in NonIdempotent : RequestGrant(c, op, cap, once, allowed_approval_options(cap, once))
       \/ \E op \in ControlOps, ids \in SUBSET {grants[i].id : i \in DOMAIN grants} : Submit(c, op, ids)
  \/ \E i \in DOMAIN grants : Deny(i) \/ Revoke(i) \/ GrantLapses(i) \/ \E option \in Options : Approve(i, option)
  \/ \E perms \in {{}, Caps} : UpdateSettings(TRUE, perms, Caps)
  \/ UpdateSettings(FALSE, Caps, {}) \/ RevokeAll \/ ClearGrants

ControlSpec == ControlInit /\ [][ControlNext]_controlVars

-----------------------------------------------------------------------------
\* No grant pays for more actions than the user approved, and every use that is not
\* left was spent by an action or lost to a failure: neither a consume, a retry, a late
\* finish, nor a second connection that presents the same grant adds one
\* (mark_executing, consume, finish).
UsesWithinApproval == \A i \in DOMAIN grants : grants[i].uses + grants[i].ran <= grants[i].max

\* A grant that was denied, revoked or has expired never becomes usable again, whatever
\* finishes or times out late (finish: "instead of reviving the grant with a late success").
TerminalIsFinal ==
  [][\A i \in DOMAIN grants, j \in DOMAIN grants' :
       grants[i].id = grants'[j].id /\ grants[i].status \in Terminal => grants'[j].status \in Terminal]_controlVars

\* A request that was still queued or about to be checked when its grant or all control
\* was revoked does not run, unless new settings allowed it since (execute_request
\* repeats the preflight under the lock); and writes run one at a time.
RevocationStopsQueued ==
  /\ \A c \in Conns : conn[c].pc = "running" =>
       conn[c].use \cap conn[c].barred = {} /\ (conn[c].cut => Needs[conn[c].op] = {})
  /\ Cardinality({c \in Conns : conn[c].pc = "running" /\ conn[c].op \notin Reads}) <= 1

\* What the user approved bounds what runs (agent_grants.rs and execute_request): the two
\* parts above.
ApprovalBoundsWork == UsesWithinApproval /\ RevocationStopsQueued

=============================================================================
