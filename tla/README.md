# AIProxy: TLA+ models, model checking and proofs

AIProxy is a desktop HTTP(S) debugging proxy: a Rust proxy core, a Tauri desktop
process that runs it, keeps what it captured and takes over the operating
system's proxy setting, a React front end, and an MCP side car through which
agents read captured traffic and, with the user's approval, control the
application. This directory holds TLA+ models of the parts of it whose
correctness depends on the order in which concurrent steps happen or on what
fails half way, the TLC configurations that check them on small instances, and
TLAPS proofs of the main safety results for every value of the constants.

## 1. Inventory

### Proxy core (`crates/proxy-core`, `crates/rule-engine`, `crates/tls-manager`)

| Component | State | Operations | Interacts with | What is hard | What makes it correct |
|---|---|---|---|---|---|
| Upstream pool (`upstream_pool.rs`) | connections per key, pending first dials, growth reservations, one `Notify`, per-connection lease mutex, driver tasks | `get_or_connect`, evict connection / key / expired, shutdown, drop guards | every request task; driver tasks; eviction timer | check and act under different locks, cancellation at every await, guards that clean up after a successor registered, lost wake-ups | exclusive leases, one first dial per key, exact reservations, nobody waits for ever |
| Forwarding (`upstream.rs`) | the checked-out connection, retry flag | send, read, retry once, evict, release | pool | cancelled futures, drop order of locals | connections are given back or closed |
| Exchange pipeline (`http_proxy.rs`) | stage, cancellation guard, session records | parse, rules, breakpoints, throttle, forward, record | pool, breakpoints, session collector | the client leaves at any await | exactly one final record, every exchange ends |
| Breakpoints (`breakpoints.rs` + front end) | rules, pending map, oneshot channels, event stream, shown hits | match, register, wait, resolve, cancel, set_rules | exchange tasks, front end | timeout against late decision, two stages under one id, two locks in `set_rules` | a paused task can always be released, no stale entries, a decision reaches its own hit |
| Server and tunnels (`server.rs`, `connect.rs`, `ssl_proxying.rs`, `upstream_proxy.rs`, `timing_connector.rs`) | permits, the bytes read ahead, relay buffers | accept, probe, intercept or tunnel, dial direct or through HTTP, HTTPS, SOCKS5 proxies, relay | exchange, TLS manager | bytes read with a handshake, silence against slow writes, a proxy that fails late | transparent tunnels, no bypass of a proxy, credentials only over verified TLS |
| WebSocket (`ws.rs`, `ws_upgrade.rs`) | two reading arms, grace deadline, assembly buffers, registry | upgrade, relay, inject, close | exchange, session store | one arm cancels the other inside a frame, the handler dies with its client | every frame forwarded and captured once, the relay ends unless a peer stops reading |
| Rules (`rules/*`, `http_io`) | rule snapshots, message being rewritten | rewrite, map, script, throttle | exchange, script engine | order of rules, failures after partial writes, declared against real encoding | what is declared is what is carried |
| Script engine (`rule-engine`) | permits, threads, calls | compile, run a hook, time out, cancel | rule pipeline | a thread outlives its caller and keeps the permit | permits and threads add up, callers are told the truth |
| Certificates (`tls-manager`, `commands/certificates.rs`) | root files, trust stores, manager, leaf cache and slots | generate, rotate, remove, install, sign | server, lifecycle, workspaces | commands that overlap without a lock, crash between files, a proxy that still signs with the old root, single-flight signing against eviction | a reported success is complete, a host is signed once |

### Desktop process (`apps/desktop/src-tauri`, `crates/db`)

| Component | State | Operations | Interacts with | What is hard | What makes it correct |
|---|---|---|---|---|---|
| Proxy lifecycle (`commands/proxy.rs`, `main.rs`) | runtime, status, two operation locks | start, restart, stop, quit, launch | server, system proxy | concurrent commands, failures half way, lock order | the status is true, commands return |
| System proxy (`system_proxy/*`, `system_proxy_recovery.rs`) | OS setting, snapshot, recovery file | capture, persist, apply, restore | lifecycle | crash between two steps, failing writes | the user's setting is never lost, the OS points at a live port |
| Session store (`bootstrap/*`, `db/sessions.rs`) | summaries, detail cache, SQLite, body files, generation counter | upsert, read, clear, delete, drain | collector, front end, MCP | writes that race with clear and delete | deleted sessions stay deleted, cache, rows, files and front end agree |
| Agent grants and control socket (`agent_grants.rs`, `agent_control.rs`) | grants, their file, connections, writer lock, audit | request, approve, wait, execute, consume, revoke, expire | automation, MCP | revocation during execution, persistence failures, two preflights | what ran was approved, no use is spent twice, an ended grant stays ended |
| Automation (`automation.rs`) | plans, changes, rules, experiments, leases | check, commit, publish, roll back, promote, clear, recover, verify | rule tables, grants | commit, publication and status are three steps, crash in between, plans over temporary rules | running rules are the stored ones, the user's own rules are kept, verified means seen |
| Rule tables (`commands/rules.rs`, `db/rules.rs`) | rows, managers, run history | save, delete, toggle, bulk update, load | rule pipeline, automation | two writes per command, rules that go while their traces are on the way | rows and managers agree outside the window |
| Migrations (`schema.rs`) | columns, indexes, rows | open | every start; MCP side car | statements that fail, death in between | a start that finishes has the whole schema, no key is lost |
| Collections, workspaces, file export | trees, settings, files | edit, move, send; save, load; export | front end | batches beside edits, failed writes that put a snapshot back, two exports in one folder | trees stay trees, saved settings survive, foreign files stay |

### MCP side car (`crates/mcp-server`)

| Component | State | Operations | Interacts with | What is hard | What makes it correct |
|---|---|---|---|---|---|
| Control channel (`control_client.rs`, `tools/control.rs`, `audit.rs`) | one call, its connection, audit rows | route, launch, ask, send, time out | control socket | the desktop dies between execution and answer | an answer is true, a write has its audit row |
| Read tools (`tools/body.rs`, `text_search.rs`, `body_stream.rs`, `sessions.rs`, `redaction.rs`) | redaction key, cursors, buffers | page, search, extract, wait, list | SQLite written by another process | tokens across buffers, rewrites between two queries, races for the key file | what an agent is shown is what was captured |

`PROJECT.json` lists every component with its status, and every hazard met while
reading the code with the line where it bites and the property that covers it.

## 2. Modules

Each component is a module of its own; a behaviour of an MC module runs one of
the components it extends.

| Module | Models | Size of a step |
|---|---|---|
| `SingleFlight` | abstract: at most one first dial per key | one begin or end |
| `UpstreamPool`, `UpstreamForward` | `get_or_connect`, eviction, driver tasks, `Notify`; `forward_request`, which closes the system | one critical section, or one stretch between two await points |
| `Breakpoints`, `Exchange` | `BreakpointManager` and the panel; `handle_http_request` and its cancellation guard, which closes the system | one critical section; one await of a stage |
| `SystemProxy`, `ProxyLifecycle` | enable and disable of the takeover; start, restart, stop, quit, crash, launch, which closes the system | one lock operation, one blocking call |
| `SessionStore` | collector, upserts, frames, reads, clear, delete, body files, front end | one lock, one database call, one file call |
| `AgentControl` | grants, settings, control connections, writer lock | one operation of the grant store, one stage of a connection |
| `ControlChannel` | a tool call, the desktop's handler, audit rows | one message, one write, one crash |
| `Automation`, `PlanChecks`, `Verification` | changes and their recovery; the checks on a plan; the evidence for a change | one transaction, one publication; one check; one request or session |
| `WebSocket` | upgrade, relay, injection, registry | one read or write, one await |
| `Tunnel` | accept to end of a connection, proxies, relay | one read or write |
| `RulePipeline`, `RuleAlgorithms` | the rules on one exchange; the pure algorithms beside reference definitions | one rule action; one evaluation |
| `ScriptEngine` | gate, calls, threads | one critical section, one end of a wait |
| `Certificates`, `CertResolver` | root certificate commands; leaf cache and slots | one file, store or lock |
| `RuleTables`, `Migrations`, `Collections`, `Workspaces`, `FileExport` | the stored settings of the desktop | one transaction, statement or file call |
| `RedactionKey`, `BodyPages`, `BodyQueries`, `SessionWatch` | what an agent reads | one query, one file call, one buffer turn |
| `MCUpstream`, `MCExchange`, `MCLifecycle` | one system each | |
| `MCLive`, `MCFair`, `MCDesktop`, `MCTraffic`, `MCRules` | several systems, as a disjoint union | |
| `UpstreamProofs` (pool, forwarding, `WebSocket`), `ExchangeProofs` (breakpoints, exchange, `RulePipeline`), `LifecycleProofs`, `ResolverProofs` (`CertResolver`, `RuleTables`), `StoreProofs` (`SessionStore`, `Tunnel`, `SessionWatch`), `ControlProofs` (agents, `Automation`, `PlanChecks`, `Verification`), `ComponentProofs`, `DesktopProofs` (`Collections`, `FileExport`) | TLAPS proofs | |

The five union modules have a variable `part`, chosen in the initial state: the
chosen component takes its steps and the others keep a fixed initial state, so
the state space is the sum of theirs and an invariant of one is checked in every
state of it. Components that interact in the code are composed where the
interaction matters to a property (pool with forwarding, breakpoints with
exchange, takeover with lifecycle, pages with the redaction key), and otherwise
meet through free choices: what rules match, what an upstream answers, when a
command is issued.

**Upstream pool.** `entries`, `pending` and `connecting` are the three maps of
`UpstreamConnectionPool`; `waiting`, `baton` and `permit` are the state of its
single `tokio::sync::Notify`, which serves all keys; `chan` is the watch channel
of a first dial, `closed`/`driver`/`age`/`holder` a pooled connection (its flag,
its task, its `last_used` and the owner of its sender mutex). A caller's `pc`
names the stretch of `get_or_connect` or of the exchange it is in, and `guard`
the drop guard it owns. A cancelled future runs its drop code as steps of its
own, in Rust's drop order. Dials are external: they yield `h1`, `h2` or an
error. Identities of connections and channels are reclaimed by `Reclaim` when
nothing refers to them, so that a finite set of identities gives unbounded
behaviours. `H2Evict` allows the retry after any failure of the first attempt,
which over-approximates the code (a send error of an idempotent request).

**Breakpoints and exchange.** `pending` is keyed by the session alone, as in the
code; an entry carries the stage of the task that registered it, which
identifies its channel. A decision carries the stage of the hit the user saw,
which the real message does not: it is used by the property only. `set_rules`
is two steps because the rules lock is released before the pending lock is
taken; one rule save runs at a time. The timeout is three steps: the wait
elapses, the receiver is dropped (a decision sent in between is lost), the entry
is removed and the front end told. The branch for a sender dropped without a
value is unreachable, which is what `WaiterReachable` implies, and has no
action. `ClientGone` drops the whole future at an await.

**Lifecycle.** A command is an element of `Ops`; its `pc` walks through the lock
acquisitions and blocking calls of the handler. `os` is what the OS is set to:
the user's own setting, a port of the proxy, or `Mixed` after a half-finished
write. Every write can succeed, be rolled back or be left half done, as the
platform code allows. A crash forgets everything but `os` and the recovery
`file`. `told` and `excuse` are history variables. Not modelled: the port
fallback used when an agent starts the capture, and changes the user makes to
the OS setting while it is taken over.

**Session store.** A record is version 1 while its exchange is in flight and 2
when it is complete. The collector's batch, the upsert in flight, the pending
body files and the frame inserts are separate pieces of state, because a clear
or a delete can run between any two of them; the generation counter is what
makes late writes notice. `left` bounds how often each kind of disturbance
happens. Connections keep their clones of the senders after a stop: the collector
ends by itself when the last of them is gone, and is aborted at an await when the
grace period ends first, or at once at a quit; a blocking call it had begun then
goes on without the lock. One life of the collector is modelled, not the next
start's.

**Certificates.** No lock orders the certificate commands, so any number of them
is under way at once, each a sequence of single files, stores and lock
operations. The files are their root's number; a key and a certificate of
different roots are loaded like any other pair, because nothing checks that they
fit (`generator.rs:75-103`).

**Agents.** A grant is its capability, its uses and its status; a connection
walks through request, preflight, writer lock, second preflight, execution,
consumption and audit. Time is left out: a pending or active grant may expire at
any moment. `ControlChannel` follows one call over two attempts; the desktop may
crash, quit or be relaunched at every step. In `Automation` the rule rows, the
managers and the change records are three variables that three steps bring
together; a crash can come between them, and the next start recovers in as many
steps as the code takes. A plan may name any rule, temporary ones included.

**Data.** Bytes of a tunnel are tokens, payloads of WebSocket frames are the
places of their pieces, bodies are a few characters of the classes redaction
tells apart, JSON documents are small trees, rules are their action kinds, and
paths are sequences of names. Nothing is formatted unless a property is about
the format.

## 3. Runs

| Run | Instance | Shows |
|---|---|---|
| `upstream_contention` | 3 callers, 1 key, limit 2, 3 connections, HTTP/1.1 | `LeaseExclusive`, `WaitersHaveDialer`, `ReservationsMatchDials` |
| `upstream_full` | 2 callers, both protocols, ageing, eviction timer, shutdown | `IdleEvictionSparesLeases`, refinement of `SingleFlight` |
| `live` | 2 callers, limit 1, both protocols; a WebSocket connection with streams of two or three frames and every kind of answer | `EveryCallReturns`, `RelayEnds`, `UpgradeIsFaithful` |
| `fair` | 1 exchange, 2 request rules, 1 response rule; 2 commands, 1 port | `WaiterReachable`, `EntryHasOwner`, `AnnouncedIsRecorded`, `EveryExchangeEnds`, `EveryCommandReturns` |
| `desktop` | 2 commands at a time in every part but the migrations, 2 ports, 2 roots, 3 handshakes, 2 rules, 3 collections, a crash or a failing write each | `StatusIsTrue`, `OriginalOnDisk`, `RouteIsLive`, `CertificateCommandsComplete`, `HostSignedOnce`, `RulesStayConsistent`, `MigrationsConverge`, `CollectionsStayATree`, `SettingsSurvive`, `ExportsKeepFiles` |
| `traffic` | 2 sessions, a list and a cache of one, batches of two; tunnels through every kind of proxy; bodies of a few characters; 3 followed sessions | `StoreAgrees`, `NoResurrection`, `TunnelIsTransparent`, `ReadsAreFaithful`, `KeyStays`, `TrafficIsFollowed`, `StopDrains` |
| `rules` | 2 connections, grants of 2 uses, changes of one or two rules, 4 hook calls on 2 permits, patterns of 4 and texts of 5 letters | `DeclaredAsCarried`, `AlgorithmsMeetTheirMeaning`, `HooksShareTheGate`, `ApprovalBoundsWork`, `AutomationAgrees`, `ChecksAreSound`, `VerifiedOnEvidence`, `AnswersAreTrue`, `TerminalIsFinal`, `UserRulesKept` |
| `upstream_limit` | as contention | violation of `WithinH1Limit` |
| `upstream_stranded` | 2 callers, limit 1 | violation of `NotStranded` |
| `exchange_stage` | 1 exchange, 1 rule per stage | violation of `DecisionForItsStage` |
| `lifecycle_stop` | 2 concurrent commands, 1 port | violation of `StoppedNotRouted` |
| `store_backfill` | as traffic | violation of `NoStaleDetail` |

**Bounds.** Three callers are the fewest for a holder, a growth dial and a
waiter on the same key at once; the limit of 2 lets the set grow and fill. One
key suffices: keys share only the `Notify`, whose spurious wake-ups a caller
already has from its own key. `MaxAge` bounds the ageing of a connection at the
eviction threshold, above which nothing changes. Exchanges share only the rules
and the single call of the front end, so one exchange is checked by TLC and any
number by the proofs. Two commands at once cover every pair of interleaved
handlers; a third would wait for the same locks. Two ports let a restart change
the port, two roots let a rotation replace one, three handshakes let one host be
signed, evicted by another and asked for again. A list and a cache of one entry
make every second session an eviction. A grant of two uses is the smallest that
is used up by more than one call. Four hook calls on two permits let two sleep
while two run. Buffers of a body query are a few bytes above the longest token,
so that tokens fall into them in every way. The constants named `Max...`
(commands, restarts, crashes, faults, edits, requests, rounds) bound counters
that the code lets grow; each allows the disturbance to come at every point and,
where two could meet, twice. `left`, `spare` and `budget` spread such allowances
over the behaviours, one or two kinds of disturbance each, and the CONSTRAINTs
of the `desktop`, `rules` and `traffic` runs do the same between variables: they
are the sets of initial profiles a reader finds in the MC modules. There is no
bound on crashes, launches, retries or commands of the lifecycle, nor on the
requests through the pool. Symmetry is used on callers, connections, channels
and commands, which the models treat alike, and in no run that checks a liveness
property.

**Fairness.** Pool callers: tokio runs every task that is ready, dials and
exchanges end or time out (weak fairness of a caller's own steps), and an
expired head-phase deadline is checked whenever the task is polled (strong
fairness of `HeadPhaseTimeout`, because the caller keeps moving between awaits).
Exchange: weak fairness of the task; `BreakpointWait` makes the timeout one of
its steps, and that forwarding ends is what `EveryCallReturns` shows. Lifecycle:
tokio's mutexes are fair queues, so strong fairness of a command whose lock is
free again and again; OS calls and the drain of the collector return. WebSocket:
weak fairness of the end of the relay and of the two steps of its clean-up, all
in one task; nothing of the peers, and none of a write or a shutdown towards a
peer that does not read, which leaves the relay `stuck`. Session store: weak
fairness of the collector, of a command that has begun, of the frame inserts,
which run on the blocking pool, and of the end of the grace period. A read of a
body is bounded chunk by chunk only (`upstream.rs:923-927`,
`http_proxy.rs:877-881`): that a body ends is assumed. Nothing is assumed of the user, the client, the eviction timer or crashes.

**Deadlock** is checked in every run but `rules` and `traffic`, whose parts come
to rest at their bounds or at the end of their one connection, call or check. In
`desktop` and `live` the parts that may rest have a stuttering step of their
own, so that a deadlock of the lifecycle or of the pool is found.

### What the violated runs show

- `upstream_limit`: the first dial of a key is not in `h1_connecting`, so growth
  dials that start beside it fill the limit and the key ends one connection
  above `MAX_H1_CONNECTIONS_PER_KEY`. `PoolIsBounded` proves that it is never
  more than one.
- `upstream_stranded`: `Drop for H1Lease` notifies before the mutex guard (a
  field) is released. The woken task can find the connection locked and sleep
  again with nobody left to wake it. `EveryCallReturns` still holds because the
  lease wait times out: the request fails instead of hanging.
- `exchange_stage`: a decision for the request stage that arrives after its wait
  timed out is applied to the response stage of the same exchange.
- `lifecycle_stop`: stop, and the rollback of a failed start, look at
  `system_proxy_enabled` without the lock of the command that sets it; an enable
  under way then routes the OS to a proxy that has stopped, unreported.
- `store_backfill`: `read_session_detail` fills the cache from a row it read
  before the session was updated; the update found nothing cached to refresh, so
  the old snapshot stays in the cache.

### What the passing properties excuse

- `AnnouncedIsRecorded`: a client that leaves while the record of an upstream
  error is being sent; the guard is disarmed before that send.
- `EntryHasOwner`: the entry of an exchange whose client left during the pause;
  it stays until it is resolved, cancelled or its rule removed.
- `OriginalOnDisk`: a first takeover whose write and rollback both failed (the
  next enable would capture the half-written setting), an unreadable recovery
  file, and a quit while a command is running, since quitting takes no lock.
- `StoreAgrees`: sessions whose write failed, a stale snapshot as in
  `store_backfill`, and an entry the front end was shown although its own upsert
  evicted it.
- `HostSignedOnce`: hosts whose certificate or slot was flushed or evicted
  (`lost`).
- `SettingsSurvive`: fields that crossing commands may have left different
  (`apart`): a failed row write puts its snapshot back over another command's
  edit, and a removed certificate whose switch could not be saved as off leaves the
  row behind, with a warning (`certificates.rs:662-678`).
  A failed create that nobody else touched is not excused.
- `RulesStayConsistent`: kinds without the lock whose commands crossed, and a
  load that failed (`diverged`).
- `RelayEnds`: a relay whose write or shutdown waits for a peer that does not
  read. The write is awaited inside an arm of the `select!` (`ws.rs:951-964,
  1016-1027, 1073-1076`), so the grace timer is not polled meanwhile.
- `CertificateCommandsComplete`: what a command reports is promised if no other
  was under way with it (`crossed`): two generations that interleave as key, key,
  certificate, certificate leave a pair that does not match and both report
  success. Files are one root's unless a step over them failed, died or met
  another command's (`torn`); a generation or removal replaces them whole. A start
  of the proxy may pass a command that looks for a running one (`raced`). A store
  that could not be cleaned is reported, but on Windows a certificate without a
  thumbprint is reported for one of the two stores (`trust.rs:293-307`), and a
  crash loses the report.
- `StopDrains`: what was queued when the collector was aborted.
- `KeyStays`: loads that race for a file not yet written (a key counts once it
  was whole with no load under way), and one loss: `read_hash_key` turns every
  error into "no key", so a load whose first read and all re-reads fail removes a
  whole key and writes its own (`redaction.rs:679-685, 713-716`).
- `ReadsAreFaithful`: pages across a rewrite do not join; and one loss without a
  mark: a container too large to extract, inside one that is not, shows as null
  and its mark is dropped (`visit_map` and `visit_seq` of `body_stream.rs`), where
  `docs/MCP_AGENT_SKILL_PLAN.md:158` wants every loss marked.
- `TrafficIsFollowed`: a wait loses what was in flight when its watermark passed,
  what `minCount` cut off, and, after a clear, rows whose ids are used again.
- `DeclaredAsCarried`: headers a rule or a script wrote itself, a request with a
  failure in its trace, and a body that could not be decoded: a script that leaves
  it alone returns it as base64 only, which counts as an edit, and the encoding is
  stripped from bytes that still have it (`script.rs:185-190`; the comment at
  91-99 says an untouched body keeps both).
- `AutomationAgrees`: a temporary rule that a plan updated has a row; when the
  registry then removes it from the managers (`agent_rules.rs:359-365`) the row
  stays and runs again after the next publication (`shed`). See also section 4.
- `UserRulesKept`: a rule that a change created and the user then promoted or
  saved is touched by the rollback of a change that wrote the very content it
  has, because versions are hashes of contents (`automation.rs:2361-2398`).
- `ChecksAreSound`: the scope of a plan has only rules of its own kind
  (`automation.rs:1965-1978`), although Rewrite and Map rules compete for requests
  (`docs/MCP_AGENT_AUTOMATION_CONTROL_PLAN.md:231`), and host conflicts compare the
  host a user's pattern reads as, although the pattern is searched for in the
  whole URL (`patterns.rs:3-12`).
- `VerifiedOnEvidence`: outside offline mode a rule that matched and failed counts
  as evidence (`automation.rs:2871-2885, 5051-5065`), where `docs/API_SPEC.md:3039`
  and `docs/MCP_AGENT_AUTOMATION_CONTROL_PLAN.md:300, 385` want `rule_failed`.
- `AnswersAreTrue`: a write whose result is too large to send is an uncertain
  answer, though the code's advice is to narrow it and retry
  (`agent_control.rs:457-468`).

### Other behaviours met while modelling

These agree with no statement of the repository or with one too vague to refute;
the models contain them.

- A panicking script thread is reported as timed out (`execute.rs:262`); native
  code that does not return keeps its permit (`execute.rs:199`); an export inside
  a comment counts as an entry point (`compile.rs:60`).
- A rewrite with an illegal header leaves the body
  edited and the headers as they were (`rules/rewrite.rs:575`).
- A tunnel's failure session is sent before the 502 (`connect.rs:252`); a handler cancelled after
  it registered leaves the connection listed as active (`ws_upgrade.rs:702`).
- A waiter that times out can overwrite an approval just made
  (`agent_grants.rs:201`); the access file is read, changed and written without
  a lock (`agent_access.rs:287`).
- A rollback can delete a rule that was promoted and saved again meanwhile
  (`automation.rs:2361`); the evidence for a request may be another client's
  (`automation.rs:3238`); refused requests use up their slots (3711).
- An error of a grant request is marked as audited by the desktop and has no row
  (`control_client.rs:745`).
- States of `hdc` devices are recognised in any case, but only `Connected` is chosen
  (`certificates.rs:1602`); a Map Local path that cannot be canonicalized is compared
  with its root as written (`map.rs:156`).
- A bulk update that fails half way keeps what it wrote (`rules.rs:1092`); a
  foreign key of one deleted rule rolls back all traces of a session
  (`db/rules.rs:1169`).
- A foreign-key violation already in the file fails the rebuild at every start
  (`schema.rs:740`); a quote in a variable drops the headers of an item
  (`commands/collections.rs:115`); a text export picks a name and writes later
  (`files.rs:224`).
- Two side cars that recover a partial key file can replace each other's key
  (`redaction.rs:675`); a failed read settles for the path-derived key.

## 4. Proofs

All constants are arbitrary subject to the ASSUMEs, which TLC evaluates in the
runs: finite sets of callers and connections, positive limits, `None` and the
like outside the other sets, script bodies that are sequences of the statements
the model knows, streams that are sequences of frames or tokens. Every theorem is about the component's own specification; none
bounds a set or a sequence. An invariant that a run checks is seldom inductive,
so each component has one that is.

- `UpstreamProofs`. `TypeCorrect` needs `ConnInv` (a caller past its dial has a
  connection). `LeasesExclusive` rests on `LInv`: the holder of a connection is
  the caller that is between check-out and release, and only HTTP/1.1
  connections are leased; exclusivity itself is not inductive, as it does not
  say that the mutex is held. `LeasesOutliveIdleChecks` is a step property from
  the same invariant. `RegistrationsOwned` and `NoDeadChannel` rest on
  `PInv`: a caller owns a guard exactly in its dialing states, the channel of a
  first dial is registered and not dropped, no two first dials share a channel,
  and a waiter on an open channel has its dialer. `PoolRefinesSingleFlight` uses
  `PInv`: `RegisterFirst` is `Begin`, the end of the guard is `End`, and every
  other step stutters. `ReservationsExact` by counting: each step changes
  the set of growth dialers by at most the caller that takes it. `PoolIsBounded`
  from `BoundInv`: stored connections plus dials that may still be stored stay
  within the limit plus the one first dial; the steps that only shrink both sets
  are one lemma (`Shrinks`). `UpgradesAreFaithful` rests on `WebSocketInv`. For
  each side there is a number of frames taken: what is staged are the pieces
  after them, one by one (so that an arm that loses its turn loses nothing);
  what the other side was sent from it are frames taken, in order and with none
  left out, and all of them as long as the side is relayed; and the assembler
  has gathered the message under way since its first fragment, in a stream whose
  data frames are messages. `PhaseInv` says what each phase of the handler has
  answered, recorded and registered. That a refusal's body is what was sent
  joins the chunks with a recursive function, whose existence is proved first.
- `ExchangeProofs`. `BInv` joins the two halves of the manager: a channel that
  holds a value has no entry left (`ValueInv`), an entry belongs to a live wait
  of its own stage, and a waiter has one or the other; none of the three is
  inductive alone. `RInv` adds that the guard is disarmed only in the last
  states, and that no guard exists during the request-stage breakpoint.
  `AlwaysDeclaredAsCarried` rests on `PipelineInv`: the request is as it was
  rebuilt last, and what a message declares is the encoding of its body since the
  stage that made it, unless a fault was traced, a rule or a script named the header
  or a script left alone a body that could not be decoded. A
  rewrite rule applies its actions in a recursive function over them, so the
  step is an induction over the actions applied.
- `LifecycleProofs`. `LifeInv` says where each lock is held (`LockInv`) and, for
  every program counter of a command, what it has established: `FlagInv` for the
  flag and the snapshot (only the holder of `system_proxy_op_lock` changes
  them), `ServerInv` for the server and its status (only the holder of
  `proxy_op_lock`), `OriginalInv` for the places of the user's setting, and
  `RouteInv` for the port in the OS setting. `RouteInv` is where the two locks
  meet: an enable works with the port it read at its start, and is right as long
  as no start is waiting to reapply. `OriginalInv` needs that a quit that is not
  excused finds every command idle.
- `ResolverProofs`. `ResolverInv` is the types, `SlotsExclusive` (no two
  handshakes are past the lock of one slot), `SlotShared` (as long as a host is
  neither cached nor lost, everyone resolving it shares the slot in the table)
  and `CachedNotSigned`. What makes signing single-flight is the slot together
  with the second look at the cache, so both are in the invariant. `TablesInv`:
  a command that is between its write to the rows and its write to the manager
  is alone there (`SoloInv`), and what it still owes the manager is exactly the
  difference (`AgreeInv`); outside such a window row and rule agree, unless a
  failure was reported. The proof found that two arms of the model's `RowOf` and
  `RuleOf` overlapped, which TLC resolves by taking the first; they are disjoint
  now.
- `StoreProofs`. `StoreInv` is `WorkInv` (types, one holder of
  `session_lifecycle_lock`, commands do what they were called for),
  `GenerationsInOrder`, `NoResurrection` and `AgreeInv`, which says what a
  command in flight still owes each place. `StoreAgrees` holds whenever nobody
  holds `session_lifecycle_lock`. `TunnelInv`: the bytes of each direction are
  those delivered, then those under way, then those still to be read, with the
  prefix a handshake left over at their head; where the connection is in its
  course decides what of the policy was applied. The assumption that the tokens
  of a handshake precede the payload is what makes a handshake readable at all.
  `WatchInv`: a session a chain of waits has passed over is accounted for by its
  cursor, and what a search by start has listed lies at or after its cursor while
  everything that was there throughout is listed or lies before it; that a page
  makes progress is a lemma on the ranks of a finite set (`FewerAbove`).
- `ControlProofs`. `ControlInv` has the types, `GrantInv` (ids of their own, uses
  left plus uses spent within the uses approved, a pending grant has paid
  nothing), `ConnInv` (what a connection that is executing has checked and
  reserved, and that a stopped one runs nothing) and `Exclusive` (one holder of
  `write_lock`). Only one action, `Renews`, brings a grant forward, and
  `EndedStaysEnded` is the step property that it never starts from an ended one.
  `UserRulesAlwaysKept` covers applies, rollbacks, expiries and clears: a plan is
  prepared again from the rules as they are in the step that commits it, and that a
  rollback without the capability meets no rule of the user's own is read off
  `AutomationInv`. `ChannelInv` says, for every
  place a call can be at, what the desktop's handler has done and what the
  sidecar was told; a write whose handler is still alive when the call is over
  was answered as unavailable or timed out, and the handler is the remote one.
  `AutomationInv` is the invariant of the automation engine: `MetaInv` (a rule has
  at most one owning change, which touched it; no change replaced a rule of an
  ephemeral one, and a create replaced nothing), `WrittenInv`, `StandsInv` (a
  change that stands has what it created; of one that is over nothing is left in
  the tables, which is why recovery cannot take it for an active one), `HoldInv` (nobody takes a
  rule from an ephemeral change that stands), `OwnInv` (no change owns a rule of the
  registry, whatever plans did to it), `JobInv`
  (the statuses the job under the lock still has to settle), `MatchInv` (managers
  and database agree at rest, and between a publication and its record with the
  pending change counted as active) and `TempInv` (the registry, and every copy of
  the managers that is still to be written back). `AcceptedPlansAreSound` is
  about one evaluation: `PlanInv` gives a question its fields, and the work is in
  lemmas on host patterns (which hosts two patterns share, for labels in any
  number, whatever text a pattern finds in a URL). `VerificationInv` keeps the evidence beside each status it justifies;
  the queue of the rate limit is the end of the list of all reservations, what
  left it is a window old, and reservations `RateLimit` apart are a window apart.
- `ComponentProofs`. `WorkspacesInv`: for each field, memory is the saved value,
  or one command in flight has put its own value there and holds the saved one
  in its snapshot, or the pair is `apart`. `KeyInv`: once a key is settled its
  file is whole and a load that has not read it has failed to as often as its place
  says, until one failed every time. `EngineInv`: available
  permits plus live threads are `MaxThreads`, the sleepers are the calls asleep,
  and while an untold sleeper is left no more permits are free than there are
  sleepers already told (a permit is never free beside a sleeper nobody will
  wake); per call, what its thread came to is what it will be told. What a script
  body comes to is a recursive function over the body, and is proved by
  induction over an interval of naturals stated with a set (`CountUp`, from the
  least element of a well-founded set), because the library's induction theorems
  take an operator. `MigrationInv`: the progress of a start is written in the
  schema (what the steps before have added is there), no index stands over
  duplicates, the first row of every key is live, and what the sidecar read of
  the schema stays true; for any rows and any number of faults. `CertInv`: of
  two commands that are under way together both know it (`SoloInv`); while the
  files are not torn at most one command is among them, and they have the shape its
  step says (`UntornInv`); and per uncrossed command what each step has done to the
  files, what is left of the trust in the old root, and who can still sign: the
  manager in memory, the proxy that runs and the one that starts (`Achieved`).
- `DesktopProofs`. `CollectionsInv`: that folders form a tree is stated as "no set
  of folders holds the parents of all its members", which every move keeps
  because it looks for a cycle first; ranks in a list are 0, 1, ... as many as it
  has members; and what a batch has sent is a prefix of what it loaded.
  `ExportInv`: each export's plan, its counts and the directories it has walked
  fit together; whatever is not as it was found was written by an export, under a
  path that is safe and through real directories; a file saved was saved by an
  export that is past it; and a token that was answered and has not expired is in
  memory and in its file. Here too the proof found overlapping arms
  (`write_response_file`, `create_export_directories`), and it sharpened
  `ExportsKeepFiles`: a file may only be replaced by an export meant for that very
  path.

The proof of `AutomationAgrees` corrected the property. Two things the code does
lie beyond the bounds of the run, and the property names them as exceptions.
A plan prepared after a failed publication takes what it replaces from the stale
managers and its owner from the database (`prepare_automation_plan`), so its
rollback puts the older content back under the newer owner (`TakenStale`). And when
a rollback is committed but not published, and the user saves the rule again with
the same content, a restart finds the tables as the change left them
(`classify_persisted_change_state`) and marks the change active, though the rule is
the user's (`resaved`).

**Only model-checked.**

- Liveness, which needs fairness and ENABLED and is out of the prover's reach:
  `EveryCallReturns`, `RelayEnds`, `EveryExchangeEnds`, `EveryCommandReturns`,
  `StopDrains`.
- `ReadsAreFaithful` and `AlgorithmsMeetTheirMeaning`: what recursive
  definitions compute, in modules with RECURSIVE operators.

Every other property of a passing run is stated by a theorem.

## 5. Plan

The models cover what the inventory calls hard, and every safety property that
can be proved about them is. What is left is breadth: the parts listed in the
next section.

## 6. Not modelled

`PROJECT.json` names the components left out (agent replay, AI commands, the
shell, the front end but for its breakpoint panel) and, for those modelled in
part, what is missing: the setup of agent clients, the reading operations of the
control socket, the limit on the number of exported files and the second look at
the real path after the walk of an export (`files.rs:1012, 1178-1182`), the assembly of automation reports, the preview of rules, form
parameters, comparisons, curl export and insights of the read tools. They are
computed from one snapshot, keep no state or call a service once. External to
the models are the operating system's settings and trust stores, SQLite
(transactions are atomic, a call may fail), tokio, hyper, rustls and the
JavaScript interpreter.

## 7. Running

`tlc -config MCUpstream_contention.cfg MCUpstream` and so on for each run;
`tlapm UpstreamProofs.tla` for the proofs. Definitions named `M_...` are mutants:
deliberately wrong versions of the definition that follows them, used to confirm
that the property named in `PROJECT.json` notices the difference. No
specification uses them. `PROJECT.json` maps each definition that models code to
its lines; a helper whose lines lie inside those of a mapped definition has no
entry of its own.
