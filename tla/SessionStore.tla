---------------------------- MODULE SessionStore ----------------------------
(***************************************************************************)
(* The captured sessions of the desktop process: the bounded list of       *)
(* summaries, the LRU of details, SQLite and the body files, the collector *)
(* that persists what the proxy captured, and the commands that read,      *)
(* clear and delete.  A record of a session has version 1 while the        *)
(* exchange is in flight and 2 when it is complete; 0 means absent.        *)
(***************************************************************************)
EXTENDS Naturals, Sequences, FiniteSets

CONSTANTS
  Sessions,        \* session ids; every session has its own host
  Commands,        \* concurrent IPC and agent commands on the store
  SummaryMax,      \* SESSION_SUMMARY_MAX
  DetailCapacity,  \* SESSION_DETAIL_CACHE_CAPACITY
  BatchSize,       \* SESSION_BATCH_SIZE
  MaxInflight,     \* MAX_INFLIGHT_WS_INSERTS
  Profiles,        \* bounds on what the environment does, see `left`
  NoOne            \* holder of a free session_lifecycle_lock

Bounds == [records : Nat, faults : Nat, destroys : Nat, frames : Nat, reads : Nat, focus : Nat, upserts : Nat, stops : Nat, old : BOOLEAN]

ASSUME StoreAssumption ==
  /\ {SummaryMax, DetailCapacity, BatchSize} \subseteq Nat \ {0} /\ MaxInflight \in Nat
  /\ Profiles \subseteq Bounds
  /\ NoOne \notin Commands \cup {"collector"} /\ "collector" \notin Commands

VARIABLES
  \* storage
  row,        \* version of the rows of a session
  rowGen,     \* generation the stored record was received at (history)
  rowFile,    \* sessions whose row points at a body file
  files,      \* sessions with a body file
  frames,     \* rows of ws_messages per session
  \* memory
  summaries,  \* ids of the summary cache, oldest first
  version,    \* version of each cached summary
  detail,     \* version of each cached detail
  order,      \* LRU order of the cached details
  focused,    \* focused_hosts
  generation, \* session_generation
  holder,     \* session_lifecycle_lock
  \* the proxy and its two channels
  sent, sessionChan, wsChan,
  listening,  \* the accept loop runs and holds its senders
  open,       \* the accept loop or a connection holds a sender
  \* the collector task
  colPc, colGen, batch, evicted, inserts,
  polled,     \* channels whose end the collector has not seen: session_open, ws_open
  orphan,     \* the blocking call an aborted collector had begun: it goes on without the lock
  \* commands and the reader of details
  cmd, reader,
  shown,      \* sessions the front end lists
  left,       \* records, storage faults, destructive commands, frames, reads, focus changes, upserts and stops still to come
  \* histories
  rescan,     \* the body rescan of the last startup is still to come
  killGen,    \* generation of the last command that deleted a session
  faulty,     \* sessions a storage fault, a late rescan, a repeated eviction or an aborted collector touched
  ghost,      \* sessions announced after their own eviction
  stale       \* details backfilled from a row that had changed meanwhile

storage == <<row, rowGen, rowFile, files, frames>>
memory  == <<summaries, version, detail, order>>
channels == <<sent, sessionChan, wsChan, listening, open>>
collector == <<colPc, colGen, batch, evicted, inserts, polled, orphan>>
history == <<rescan, killGen, faulty, ghost, stale>>
storeVars == <<storage, memory, focused, generation, holder, channels, collector, cmd, reader, shown, left, history>>

Versions == 0..2
InList(s) == \E i \in DOMAIN summaries : summaries[i] = s
\* A list without some sessions, in its order: Vec::retain.
Without(q, S) ==
  LET Kept[i \in 0..Len(q)] ==
        IF i = 0 THEN << >> ELSE IF q[i] \in S THEN Kept[i - 1] ELSE Append(Kept[i - 1], q[i])
  IN  Kept[Len(q)]
Elems(q) == {q[i] : i \in DOMAIN q}
Ids(recs) == {recs[i].id : i \in DOMAIN recs}
Record(s, v) == [id |-> s, v |-> v]
IdleCommand == [pc |-> "idle", kind |-> "clear", ids |-> {}, gen |-> 0]
NoOrphan == [recs |-> <<>>, gen |-> 0, out |-> {}]
IdleReader == [pc |-> "idle", id |-> CHOOSE s \in Sessions : TRUE, v |-> 0]
Spend(field) == left[field] > 0 /\ left' = [left EXCEPT ![field] = @ - 1]

\* Startup: clear_all_sessions removes what the last run left behind, rows first.
\* When the rows cannot be deleted the bodies are kept with them; when only the
\* bodies resist, a rescan retries once.
StartupClear(old) ==
  /\ \/ row = [s \in Sessions |-> IF s \in old THEN 2 ELSE 0] /\ rowFile = old /\ files = old
        /\ faulty = old /\ rescan = FALSE
     \/ row = [s \in Sessions |-> 0] /\ rowFile = {} /\ files = old
        /\ faulty = {} /\ rescan = (old # {})
  /\ sent = [s \in Sessions |-> IF s \in old THEN 2 ELSE 0]

StoreInit ==
  /\ left \in Profiles
  /\ \E old \in {{}, {IdleReader.id}} : (old # {} => left.old) /\ StartupClear(old)
  /\ rowGen = [s \in Sessions |-> 0] /\ frames = [s \in Sessions |-> 0]
  /\ summaries = <<>> /\ version = [s \in Sessions |-> 0]
  /\ detail = [s \in Sessions |-> 0] /\ order = <<>>
  /\ focused = {} /\ generation = 0 /\ holder = NoOne
  /\ sessionChan = <<>> /\ wsChan = <<>> /\ listening = TRUE /\ open = TRUE
  /\ colPc = "top" /\ colGen = 0 /\ batch = <<>> /\ evicted = {} /\ inserts = <<>> /\ polled = {"session", "ws"} /\ orphan = NoOrphan
  /\ cmd = [c \in Commands |-> IdleCommand] /\ reader = IdleReader
  /\ shown = {} /\ killGen = [s \in Sessions |-> 0]
  /\ ghost = {} /\ stale = {}

-----------------------------------------------------------------------------
(* Storage: rows cascade to their ws_messages; every call is one           *)
(* transaction that commits or changes nothing.                            *)

\* upsert_session for the records of a batch, last one of a session wins; the writes
\* of `lost` failed.
PersistRows(recs, lost, gen) ==
  LET saved == Ids(recs) \ lost
      last(s) == recs[CHOOSE i \in DOMAIN recs : recs[i].id = s /\ \A j \in DOMAIN recs : recs[j].id = s => j <= i].v
  IN  /\ row' = [s \in Sessions |-> IF s \in saved THEN last(s) ELSE row[s]]
      /\ rowGen' = [s \in Sessions |-> IF s \in saved THEN gen ELSE rowGen[s]]

\* write_body replaces the file of a session atomically; remove_bodies and clear_all
\* delete what is there.
WriteBody(S) == files' = files \cup S
RemoveBodies(S) == files' = files \ S
ClearBodies == files' = {}

\* spill_session_bodies_to_disk: complete records spill; on an error the body stays inline.
Spill(recs, inline, lost) ==
  LET complete == {recs[i].id : i \in {j \in DOMAIN recs : recs[j].v = 2}} IN
  /\ WriteBody(complete \ inline)
  /\ rowFile' = (rowFile \ (complete \ lost)) \cup (complete \ (lost \cup inline))

\* persist_session_batch_full and persist_session_full: spill the bodies, then write the
\* rows, each of which may fail alone.
Persist(recs, gen) ==
  \E lost, inline \in SUBSET Ids(recs) :
    /\ IF lost \cup inline = {} THEN UNCHANGED left ELSE Spend("faults")
    /\ PersistRows(recs, lost, gen) /\ Spill(recs, inline, lost)
    /\ faulty' = faulty \cup lost

\* delete_sessions_by_ids and clear_all_sessions.
DeleteRows(S) ==
  /\ row' = [s \in Sessions |-> IF s \in S THEN 0 ELSE row[s]]
  /\ frames' = [s \in Sessions |-> IF s \in S THEN 0 ELSE frames[s]]
  /\ rowFile' = rowFile \ S
  /\ rowGen' = [s \in Sessions |-> IF s \in S THEN 0 ELSE rowGen[s]]

-----------------------------------------------------------------------------
(* The cache.                                                              *)

\* select_eviction_index: the oldest summary whose host is not focused, else the oldest.
select_eviction_index(list) ==
  LET unfocused == {i \in DOMAIN list : list[i] \notin focused} IN
  IF focused = {} \/ unfocused = {} THEN 1 ELSE CHOOSE i \in unfocused : \A j \in unfocused : i <= j

\* The summaries after upsert_summary, before the cap.
Upserted(id) == IF InList(id) THEN summaries ELSE Append(summaries, id)
\* What the cap evicts.
CapEvicts(id) ==
  IF Len(Upserted(id)) > SummaryMax THEN {Upserted(id)[select_eviction_index(Upserted(id))]} ELSE {}

\* The front end's list after the events, in their order: removed, then upserted.
Announced(id, out) == (shown \ out) \cup {id}

\* refresh_detail_if_present.
Refreshed(rec, s) == IF s = rec.id /\ detail[s] # 0 THEN rec.v ELSE detail[s]

\* update_session_cache_and_emit: upsert the summary, refresh a cached detail in
\* place, drop what the cap evicted, then tell the front end.
update_session_cache_and_emit(rec) ==
  LET out == CapEvicts(rec.id)
  IN  /\ summaries' = Without(Upserted(rec.id), out)
      /\ version' = [s \in Sessions |-> IF s \in out THEN 0 ELSE IF s = rec.id THEN rec.v ELSE version[s]]
      /\ detail' = [s \in Sessions |-> IF s \in out THEN 0 ELSE Refreshed(rec, s)]
      /\ order' = Without(order, out)
      /\ evicted' = evicted \cup out
      /\ shown' = Announced(rec.id, out)
      /\ ghost' = (ghost \ {rec.id}) \cup (out \cap {rec.id})
      /\ stale' = (stale \ out) \ {rec.id}

\* remove_summaries, retain_summaries or clear_summaries with remove_details; `over` are
\* details of sessions without rows that the caller does not cover.
RemoveCached(S, over) ==
  /\ summaries' = Without(summaries, S)
  /\ detail' = [s \in Sessions |-> IF s \in S THEN 0 ELSE detail[s]]
  /\ order' = Without(order, S)
  /\ stale' = (stale \ S) \cup over
  /\ version' = [s \in Sessions |-> IF s \in S THEN 0 ELSE version[s]]

-----------------------------------------------------------------------------
(* The proxy: announces a session, sends its frames, completes it.         *)

\* A session is reported when it starts and once more when it ends.
Reportable(s) == sent[s] < 2

\* A send on a channel; the receivers of an aborted collector are gone and the value is dropped.
Queued(chan, x) == IF colPc = "aborted" THEN chan ELSE Append(chan, x)

SendRecord(s) ==
  /\ open /\ Reportable(s) /\ Spend("records")
  /\ sent' = [sent EXCEPT ![s] = @ + 1]
  /\ sessionChan' = Queued(sessionChan, Record(s, sent[s] + 1))
  /\ UNCHANGED <<storage, memory, focused, generation, holder, wsChan, listening, open, collector, cmd, reader, shown, history>>

SendFrame(s) ==
  /\ open /\ sent[s] = 1 /\ Spend("frames")
  /\ wsChan' = Queued(wsChan, s)
  /\ UNCHANGED <<storage, memory, focused, generation, holder, sent, sessionChan, listening, open, collector, cmd, reader, shown, history>>

\* shutdown_proxy_runtime_with_grace: the accept loop ends and drops its senders; the
\* connections it accepted hold their own and may go on for ever.
StopListener ==
  /\ listening /\ listening' = FALSE /\ Spend("stops")
  /\ UNCHANGED <<storage, memory, focused, generation, holder, sent, sessionChan, wsChan, open, collector, cmd, reader, shown, history>>

\* The last connection ends: the channels are closed.
ConnectionsEnd ==
  /\ ~listening /\ open /\ open' = FALSE
  /\ UNCHANGED <<storage, memory, focused, generation, holder, sent, sessionChan, wsChan, listening, collector, cmd, reader, shown, left, history>>

-----------------------------------------------------------------------------
(* The collector task of start_proxy_impl.                                 *)

Closed(chan) == ~open /\ (IF chan = "session" THEN sessionChan ELSE wsChan) = <<>>

M_EitherEnded == polled # {"session", "ws"}
\* The loop ends when both channels have ended.
BothEnded == polled = {}

\* The head of the loop: stop when both channels ended, else read the generation.
CollectorTop ==
  /\ colPc = "top"
  /\ colPc' = IF BothEnded THEN "draining" ELSE "select"
  /\ colGen' = generation
  /\ UNCHANGED <<storage, memory, focused, generation, holder, channels, batch, evicted, inserts, polled, orphan, cmd, reader, shown, left, history>>

\* recv, then try_recv until the batch is full or the channel is empty.
CollectSessions ==
  /\ colPc = "select" /\ sessionChan # <<>>
  /\ LET n == IF Len(sessionChan) > BatchSize THEN BatchSize ELSE Len(sessionChan) IN
     /\ batch' = SubSeq(sessionChan, 1, n)
     /\ sessionChan' = SubSeq(sessionChan, n + 1, Len(sessionChan))
  /\ colPc' = "lock"
  /\ UNCHANGED <<storage, memory, focused, generation, holder, sent, wsChan, listening, open, colGen, evicted, inserts, polled, orphan, cmd, reader, shown, left, history>>

\* A frame: spawn its insert and go on, or wait for the oldest insert when too many run.
CollectFrame ==
  /\ colPc = "select" /\ wsChan # <<>>
  /\ wsChan' = Tail(wsChan)
  /\ inserts' = Append(inserts, [id |-> Head(wsChan), gen |-> colGen, done |-> FALSE])
  /\ colPc' = IF Len(inserts) + 1 > MaxInflight THEN "backpressure" ELSE "top"
  /\ UNCHANGED <<storage, memory, focused, generation, holder, sent, sessionChan, listening, open, colGen, batch, evicted, polled, orphan, cmd, reader, shown, left, history>>

\* recv returned None: that channel is no longer polled.
CollectorNone(chan) ==
  /\ colPc = "select" /\ chan \in polled /\ Closed(chan)
  /\ polled' = polled \ {chan} /\ colPc' = "top"
  /\ UNCHANGED <<storage, memory, focused, generation, holder, channels, colGen, batch, evicted, inserts, orphan, cmd, reader, shown, left, history>>

Backpressure ==
  /\ colPc = "backpressure" /\ Head(inserts).done
  /\ inserts' = Tail(inserts)
  /\ colPc' = "top"
  /\ UNCHANGED <<storage, memory, focused, generation, holder, channels, colGen, batch, evicted, polled, orphan, cmd, reader, shown, left, history>>

M_NoGenerationCheck(gen) == TRUE
\* The check after the lifecycle lock is taken.
SameGeneration(gen) == generation = gen

\* insert_ws_message; the foreign key refuses the frame of a session without a row.
FrameRow(s) == row[s] # 0 /\ frames' = [frames EXCEPT ![s] = @ + 1]

\* insert_ws_message_at_generation: skipped when the generation moved on; refused by
\* the foreign key when the session has no row.
InsertFrame(i) ==
  /\ i \in DOMAIN inserts /\ ~inserts[i].done /\ holder = NoOne
  /\ inserts' = [inserts EXCEPT ![i].done = TRUE]
  /\ LET s == inserts[i].id IN
     IF SameGeneration(inserts[i].gen) /\ row[s] # 0
     THEN \/ FrameRow(s) /\ UNCHANGED left
          \/ UNCHANGED frames /\ Spend("faults")
     ELSE UNCHANGED <<frames, left>>
  /\ UNCHANGED <<row, rowGen, rowFile, files, memory, focused, generation, holder, channels, colPc, colGen, batch, evicted, polled, orphan, cmd, reader, shown, history>>

\* The remaining inserts are awaited before the task ends.
CollectorExit ==
  /\ colPc = "draining" /\ \A i \in DOMAIN inserts : inserts[i].done
  /\ colPc' = "exited" /\ inserts' = <<>>
  /\ UNCHANGED <<storage, memory, focused, generation, holder, channels, colGen, batch, evicted, polled, orphan, cmd, reader, shown, left, history>>

\* upsert_session_batch_async_at_generation: lock, then check.
CollectorLock ==
  /\ colPc = "lock" /\ holder = NoOne
  /\ IF SameGeneration(colGen)
     THEN holder' = "collector" /\ colPc' = "persist" /\ UNCHANGED <<batch, colGen>>
     ELSE batch' = <<>> /\ colGen' = 0 /\ colPc' = "top" /\ UNCHANGED holder
  /\ UNCHANGED <<storage, memory, focused, generation, channels, evicted, inserts, polled, orphan, cmd, reader, shown, left, history>>

CollectorPersist ==
  /\ colPc = "persist" /\ Persist(batch, colGen)
  /\ colPc' = "cache"
  /\ UNCHANGED <<frames, memory, focused, generation, holder, channels, colGen, batch, evicted, inserts, polled, orphan, cmd, reader, shown, killGen, ghost, stale, rescan>>

CollectorCache ==
  /\ colPc = "cache" /\ batch # <<>>
  /\ update_session_cache_and_emit(Head(batch))
  /\ batch' = Tail(batch)
  /\ UNCHANGED <<storage, focused, generation, holder, channels, colPc, colGen, inserts, polled, orphan, cmd, reader, left, killGen, faulty, rescan>>

M_EvictKeepsRows(S) == UNCHANGED <<storage, left, faulty, stale>>

\* delete_sessions_impl, best effort: a failed delete leaves rows nobody lists, and
\* the body files are removed all the same.
DeleteBestEffort(S) ==
  \/ /\ DeleteRows(S) /\ RemoveBodies(S) /\ UNCHANGED left
     /\ faulty' = faulty \cup (S \cap Elems(summaries))
     /\ stale' = stale \cup {s \in S : detail[s] # 0}
  \/ /\ S # {} /\ Spend("faults")
     /\ UNCHANGED <<row, rowGen, rowFile, frames, stale>>
     /\ RemoveBodies(S) /\ faulty' = faulty \cup S

\* delete_evicted_sessions, still under the lifecycle lock.
CollectorEvict ==
  /\ colPc = "cache" /\ batch = <<>>
  /\ DeleteBestEffort(evicted)
  /\ evicted' = {} /\ holder' = NoOne /\ colPc' = "top" /\ colGen' = 0
  /\ UNCHANGED <<memory, focused, generation, channels, batch, inserts, polled, orphan, cmd, reader, shown, killGen, ghost, rescan>>

\* The awaits of the collector task at which an abort takes it: the receive, the lock, the
\* blocking persist, the blocking delete of what was evicted, and the waits for inserts.
AtAwait ==
  \/ colPc \in {"select", "lock", "backpressure", "draining", "persist"}
  \/ colPc = "cache" /\ batch = <<>> /\ evicted # {}

\* Once the listener is down the collector is aborted: after COLLECTOR_DRAIN_GRACE, or at
\* once when the application exits.  What is queued is lost, the lock is released, and a
\* blocking call under way is left to end by itself.
AbortCollector ==
  /\ ~listening /\ AtAwait
  /\ colPc' = "aborted" /\ sessionChan' = <<>> /\ wsChan' = <<>> /\ batch' = <<>> /\ colGen' = 0
  /\ evicted' = IF colPc = "cache" THEN {} ELSE evicted
  /\ holder' = IF colPc \in {"persist", "cache"} THEN NoOne ELSE holder
  /\ orphan' = CASE colPc = "persist" -> [recs |-> batch, gen |-> colGen, out |-> {}]
                 [] colPc = "cache" -> [recs |-> <<>>, gen |-> colGen, out |-> evicted]
                 [] OTHER -> NoOrphan
  /\ faulty' = faulty \cup Ids(orphan'.recs) \cup orphan'.out
  /\ UNCHANGED <<storage, memory, focused, generation, sent, listening, open, inserts, polled, cmd, reader, shown, left, rescan, killGen, ghost, stale>>

\* The blocking call ends: its rows and files change under no lock, and neither the
\* cache nor the front end hears of it.
OrphanEnds ==
  /\ orphan # NoOrphan /\ orphan' = NoOrphan
  /\ \/ orphan.recs # <<>> /\ Persist(orphan.recs, orphan.gen) /\ UNCHANGED <<frames, stale>>
     \/ orphan.recs = <<>> /\ DeleteBestEffort(orphan.out)
  /\ UNCHANGED <<memory, focused, generation, holder, channels, colPc, colGen, batch, evicted, inserts, polled, cmd, reader, shown, rescan, killGen, ghost>>

-----------------------------------------------------------------------------
(* Commands: clear_sessions, delete_sessions_except, delete_sessions, and   *)
(* upsert_session_async for the sessions of replay, compose and            *)
(* collections.  Each takes its generation before it waits for the lock.   *)

SetCmd(c, pc) == cmd' = [cmd EXCEPT ![c].pc = pc]

\* A destructive command announces itself by a new generation.
Destroy(c, kind, ids) ==
  /\ cmd[c].pc = "idle" /\ Spend("destroys")
  /\ generation' = generation + 1
  /\ cmd' = [cmd EXCEPT ![c] = [pc |-> "lock", kind |-> kind, ids |-> ids, gen |-> generation + 1]]
  /\ UNCHANGED <<storage, memory, focused, holder, channels, collector, reader, shown, history>>

\* A session made by the application itself, complete from the start.
UpsertCall(c, s) ==
  /\ cmd[c].pc = "idle" /\ sent[s] = 0 /\ Spend("upserts")
  /\ sent' = [sent EXCEPT ![s] = 2]
  /\ cmd' = [cmd EXCEPT ![c] = [pc |-> "lock", kind |-> "upsert", ids |-> {s}, gen |-> generation]]
  /\ UNCHANGED <<storage, memory, focused, generation, holder, sessionChan, wsChan, listening, open, collector, reader, shown, history>>

AfterLock(kind) ==
  CASE kind = "clear" -> "clearDb" [] kind = "delete" -> "deleteDb"
    [] kind = "except" -> "exceptCache" [] kind = "upsert" -> "upsertDb"

CommandLock(c) ==
  /\ cmd[c].pc = "lock" /\ holder = NoOne
  /\ IF cmd[c].kind # "upsert" \/ SameGeneration(cmd[c].gen)
     THEN holder' = c /\ SetCmd(c, AfterLock(cmd[c].kind))
     ELSE cmd' = [cmd EXCEPT ![c] = IdleCommand] /\ UNCHANGED holder
  /\ UNCHANGED <<storage, memory, focused, generation, channels, collector, reader, shown, left, history>>

Finish(c) == holder' = NoOne /\ cmd' = [cmd EXCEPT ![c] = IdleCommand]

\* The rows a strict delete or a clear covers.
Covered(c) == IF cmd[c].kind = "clear" THEN Sessions ELSE cmd[c].ids

\* clear_all_sessions_result and delete_sessions_and_bodies_result: the transaction
\* first; when it fails nothing else changes and the caller is told.  The body files
\* go after the commit, and their failure is only reported.
CommandDb(c) ==
  /\ cmd[c].pc \in {"clearDb", "deleteDb"}
  /\ \/ /\ DeleteRows(Covered(c))
        /\ \/ RemoveBodies(Covered(c)) /\ UNCHANGED left
           \/ files \cap Covered(c) # {} /\ UNCHANGED files /\ Spend("faults")
        /\ killGen' = [s \in Sessions |-> IF s \in Covered(c) THEN cmd[c].gen ELSE killGen[s]]
        /\ SetCmd(c, "drop") /\ UNCHANGED holder
     \/ /\ UNCHANGED <<row, rowGen, rowFile, frames, files, killGen>>
        /\ Finish(c) /\ Spend("faults")
  /\ UNCHANGED <<memory, focused, generation, channels, collector, reader, shown, rescan, faulty, ghost, stale>>

\* clear_sessions, after the commit: the details of the summaries it found go with them.
DropAll ==
  /\ RemoveCached(Elems(summaries), {s \in Sessions : detail[s] # 0} \ Elems(summaries))
  /\ shown' = {} /\ ghost' = {}

\* delete_sessions, after the commit: the requested ids leave the cache and the front end.
DropIds(S) == RemoveCached(S, {}) /\ shown' = shown \ S /\ ghost' = ghost \ S

CommandDrop(c) ==
  /\ cmd[c].pc = "drop"
  /\ IF cmd[c].kind = "clear" THEN DropAll ELSE DropIds(cmd[c].ids)
  /\ Finish(c)
  /\ UNCHANGED <<storage, focused, generation, channels, collector, reader, left, killGen, faulty, rescan>>

\* delete_sessions_except: cache and event first, then the best-effort delete.
ExceptCache(c) ==
  /\ cmd[c].pc = "exceptCache"
  /\ LET gone == Elems(summaries) \ cmd[c].ids IN
     /\ RemoveCached(gone, {}) /\ shown' = shown \ gone
     /\ cmd' = [cmd EXCEPT ![c].pc = "exceptDb", ![c].ids = gone]
  /\ UNCHANGED <<storage, focused, generation, holder, channels, collector, reader, left, killGen, faulty, ghost, rescan>>

ExceptDb(c) ==
  /\ cmd[c].pc = "exceptDb"
  /\ DeleteBestEffort(cmd[c].ids)
  /\ killGen' = [s \in Sessions |-> IF s \in cmd[c].ids THEN cmd[c].gen ELSE killGen[s]]
  /\ Finish(c)
  /\ UNCHANGED <<memory, focused, generation, channels, collector, reader, shown, ghost, rescan>>

Its(c) == Record(CHOOSE s \in Sessions : s \in cmd[c].ids, 2)

\* upsert_session_async_at_generation with persist_session_full.
UpsertDb(c) ==
  /\ cmd[c].pc = "upsertDb" /\ Persist(<<Its(c)>>, cmd[c].gen)
  /\ SetCmd(c, "upsertCache")
  /\ UNCHANGED <<frames, memory, focused, generation, holder, channels, collector, reader, shown, killGen, ghost, stale, rescan>>

UpsertCache(c) ==
  /\ cmd[c].pc = "upsertCache"
  /\ update_session_cache_and_emit(Its(c))
  /\ SetCmd(c, "upsertEvict")
  /\ UNCHANGED <<storage, focused, generation, holder, channels, colPc, colGen, batch, inserts, polled, orphan, reader, left, killGen, faulty, rescan>>

UpsertEvict(c) ==
  /\ cmd[c].pc = "upsertEvict"
  /\ DeleteBestEffort(evicted) /\ evicted' = {} /\ Finish(c)
  /\ UNCHANGED <<memory, focused, generation, channels, colPc, colGen, batch, inserts, polled, orphan, reader, shown, killGen, ghost, rescan>>

\* spawn_body_rescan: 500 ms after a startup whose body clear failed, everything is
\* cleared again, under no lock.
BodyRescan ==
  /\ rescan /\ rescan' = FALSE
  /\ ClearBodies /\ faulty' = faulty \cup rowFile
  /\ UNCHANGED <<row, rowGen, rowFile, frames, memory, focused, generation, holder, channels, collector, cmd, reader, shown, left, killGen, ghost, stale>>

\* set_focused_hosts.
SetFocusedHosts(H) ==
  /\ H # focused /\ focused' = H /\ Spend("focus")
  /\ UNCHANGED <<storage, memory, generation, holder, channels, collector, cmd, reader, shown, history>>

-----------------------------------------------------------------------------
(* read_session_detail: cache, then the detail row, then the summary, then  *)
(* the backfill; no lifecycle lock is held.                                *)

\* try_get_detail: a hit touches the LRU order.
ReadHit(s) ==
  /\ reader.pc = "idle" /\ detail[s] # 0 /\ Spend("reads")
  /\ order' = Append(Without(order, {s}), s)
  /\ UNCHANGED <<storage, summaries, version, detail, focused, generation, holder, channels, collector, cmd, reader, shown, history>>

\* load_session_detail: 0 when there is none.
DetailRow(s) == row[s]

\* A miss, and load_session_detail_for_ipc; a database error reads as no row.
ReadRow(s) ==
  /\ reader.pc = "idle" /\ detail[s] = 0 /\ DetailRow(s) # 0 /\ Spend("reads")
  /\ reader' = [pc |-> "summary", id |-> s, v |-> DetailRow(s)]
  /\ UNCHANGED <<storage, memory, focused, generation, holder, channels, collector, cmd, shown, history>>

\* find_summary, or else load_session_summary_for_ipc.
ReadSummary ==
  /\ reader.pc = "summary"
  /\ reader' = IF InList(reader.id) \/ row[reader.id] # 0 THEN [reader EXCEPT !.pc = "fill"] ELSE IdleReader
  /\ UNCHANGED <<storage, memory, focused, generation, holder, channels, collector, cmd, shown, left, history>>

\* The LRU order after insert_detail: the oldest entries beyond the capacity go.
AfterInsert(s) ==
  LET q == Append(Without(order, {s}), s) IN
  SubSeq(q, IF Len(q) > DetailCapacity THEN Len(q) - DetailCapacity + 1 ELSE 1, Len(q))

ReadFill ==
  /\ reader.pc = "fill"
  /\ order' = AfterInsert(reader.id)
  /\ detail' = [s \in Sessions |-> IF s \notin Elems(AfterInsert(reader.id)) THEN 0
                                   ELSE IF s = reader.id THEN reader.v ELSE detail[s]]
  /\ stale' = (stale \cap Elems(AfterInsert(reader.id))) \cup
              (IF reader.v # row[reader.id] THEN {reader.id} ELSE {})
  /\ reader' = IdleReader
  /\ UNCHANGED <<storage, summaries, version, focused, generation, holder, channels, collector, cmd, shown, left, killGen, faulty, ghost, rescan>>

-----------------------------------------------------------------------------

CollectorStep ==
  CollectorTop \/ CollectSessions \/ CollectFrame \/ (\E chan \in polled : CollectorNone(chan)) \/ Backpressure
  \/ CollectorLock \/ CollectorPersist \/ CollectorCache \/ CollectorEvict \/ CollectorExit
CommandStep(c) ==
  CommandLock(c) \/ CommandDb(c) \/ CommandDrop(c) \/ ExceptCache(c) \/ ExceptDb(c)
  \/ UpsertDb(c) \/ UpsertCache(c) \/ UpsertEvict(c)

StoreNext ==
  \/ \E s \in Sessions : SendRecord(s) \/ SendFrame(s) \/ ReadHit(s) \/ ReadRow(s)
  \/ StopListener \/ ConnectionsEnd \/ AbortCollector \/ OrphanEnds \/ CollectorStep \/ \E i \in DOMAIN inserts : InsertFrame(i)
  \/ \E c \in Commands :
       \/ Destroy(c, "clear", {})
       \/ \E s \in Sessions : Destroy(c, "delete", {s}) \/ Destroy(c, "except", {s}) \/ UpsertCall(c, s)
       \/ CommandStep(c)
  \/ \E s \in Sessions : SetFocusedHosts({s})
  \/ ReadSummary \/ ReadFill \/ BodyRescan

StoreSpec == StoreInit /\ [][StoreNext]_storeVars

\* tokio runs every ready task, SQLite calls return, and the grace period of a stop
\* ends in an abort; nothing is assumed of connections, nor of the
\* order in which the lifecycle lock is handed out.
StoreFairness ==
  /\ WF_storeVars(CollectorStep)
  /\ \A c \in Commands : WF_storeVars(CommandStep(c))
  /\ WF_storeVars(\E i \in DOMAIN inserts : InsertFrame(i))
  /\ WF_storeVars(AbortCollector)

-----------------------------------------------------------------------------
\* Whenever nobody changes the store, the summary list and the rows of SQLite are the
\* same sessions in the same version, except where storage failed (bootstrap/mod.rs:
\* upsert, clear, delete and eviction under session_lifecycle_lock).
ListMatchesRows ==
  holder = NoOne => \A s \in Sessions \ faulty : row[s] = version[s]

\* A record the collector had taken before a clear or a delete was issued is not
\* stored after it: what SQLite holds was received at or after the generation of the
\* last command that deleted the session.
NoResurrection ==
  \A s \in Sessions \ faulty : row[s] # 0 => rowGen[s] >= killGen[s]

\* A cached detail is the stored version of its session, unless the row changed
\* between the read and the backfill of read_session_detail.
CachedDetailFollowsRow ==
  holder = NoOne => \A s \in Sessions \ (stale \cup faulty) : detail[s] # 0 => detail[s] = row[s]

\* The comment of update_session_cache_and_emit: a session update refreshes the cached
\* detail "so viewers do not keep reading the old snapshot".
NoStaleDetail ==
  holder = NoOne => \A s \in Sessions \ faulty : InList(s) /\ detail[s] # 0 => detail[s] = version[s]

\* Applying the events in their order, the front end lists exactly the summaries,
\* except a session that its own upsert evicted: the removal is announced first.
ShownMatchesList == holder = NoOne => shown = Elems(summaries) \cup ghost

\* A row that points at a body file finds it, unless a best-effort delete failed half
\* way or the rescan of the last startup came late; and a body file without a row is
\* only what a failed removal left.
NoDanglingBody == holder = NoOne => rowFile \ faulty \subseteq files

\* A stop never hangs on a connection that stays, and an end that was not forced loses
\* nothing: the collector comes to its own end only after it has taken every record and
\* frame that was sent and every insert it spawned has ended, or else it is aborted
\* (shutdown_proxy_runtime_with_grace), and then what was queued is lost.
StopDrains ==
  ~listening ~> \/ colPc = "exited" /\ sessionChan = <<>> /\ wsChan = <<>> /\ inserts = <<>>
                \/ colPc = "aborted" /\ holder # "collector"

\* Whenever no command and no batch is under way, what the user sees, what memory caches
\* and what SQLite and the body files hold are the same sessions (bootstrap/mod.rs and
\* cache.rs, under session_lifecycle_lock): the four parts above.
StoreAgrees == ListMatchesRows /\ CachedDetailFollowsRow /\ ShownMatchesList /\ NoDanglingBody

=============================================================================
