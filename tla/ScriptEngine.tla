---------------------------- MODULE ScriptEngine ----------------------------
(***************************************************************************)
(* User scripts (crates/rule-engine): a source is compiled, and each hook  *)
(* call runs it in a thread of its own behind a gate of permits            *)
(* (execute.rs).  The caller waits a bounded time for the permit, then for *)
(* the result, then, after asking the thread to stop, a little longer; the *)
(* thread keeps the permit until it ends.  Time is left out: a wait may    *)
(* end at any moment, a thread may run for ever.                           *)
(***************************************************************************)
EXTENDS Naturals, Sequences, FiniteSets

CONSTANTS HookCalls,     \* calls of execute_hook
          MaxThreads,    \* MAX_CONCURRENT_SCRIPT_THREADS
          MaxEntries,    \* MAX_SCRIPT_ENTRIES
          Scripts        \* [exports, hook, body, named, fits, parses]: the scripts one of which all calls run

\* What a statement of a hook does: it logs, edits the message, throws, or answers
\* with no object, with one that is malformed or with one of two that are not.
Statements == {"log", "edit", "throw", "empty", "bad", "one", "two"}

ASSUME EngineAssumption ==
  {MaxThreads, MaxEntries} \subseteq Nat \ {0} /\ \A s \in Scripts : s.body \in Seq(Statements)

VARIABLES available,  \* ScriptConcurrencyGate.available
          asleep,     \* callers in the condition variable's wait
          woken,      \* callers notified and not yet back from the wait
          calls,      \* call |-> [pc, script, outcome, result]
          threads     \* call |-> [state, cancel, outcome, result]

engineVars == <<available, asleep, woken, calls, threads>>

---------------------------------------------------------------------------
(* Compiling.  A source is the set of the export forms in its text.  Forms  *)
(* that the pattern reads as a hook: on one line, async, over two lines, or *)
(* in a comment.                                                            *)

HookForms == {"plain", "async", "broken_line", "comment"}
Form(kind, hook) == [kind |-> kind, hook |-> hook]

validate_script_rule(script) == script.named /\ script.exports # {} /\ script.fits
detect_entrypoints(exports) ==
  [ok |-> (\A f \in exports : f.kind \in HookForms) /\ exports # {},
   hooks |-> {f.hook : f \in exports}]

\* Every form is rewritten; what stands in a comment stays one.
build_runtime_module(exports) == {f.hook : f \in {g \in exports : g.kind \in HookForms \ {"comment"}}}

\* TypeScript must parse; JavaScript is taken as it is.
transpile_source(script) == script.parses

compile_script_rule(script) ==
  [ok |-> validate_script_rule(script) /\ detect_entrypoints(script.exports).ok /\ transpile_source(script),
   entrypoints |-> detect_entrypoints(script.exports).hooks,
   defines |-> build_runtime_module(script.exports)]

---------------------------------------------------------------------------
(* The bridge: what a hook's statements come to. *)

Nothing == [skipped |-> FALSE, runtimeError |-> FALSE, edited |-> FALSE, override |-> "none", entries |-> 0]
pushEntry(r) == [r EXCEPT !.entries = IF @ < MaxEntries THEN @ + 1 ELSE @]

\* What is no object is an exception even after an answer; the first answer is
\* kept, and a bad one is an exception.
respond(r, init) ==
  CASE init = "empty" -> [r EXCEPT !.runtimeError = TRUE]
    [] init = "bad" -> IF r.override = "none" THEN [r EXCEPT !.runtimeError = TRUE] ELSE pushEntry(r)
    [] OTHER -> IF r.override # "none" THEN pushEntry(r) ELSE [r EXCEPT !.override = init]

Statement(r, op) ==
  IF r.runtimeError THEN r
  ELSE CASE op = "log" -> pushEntry(r)
         [] op = "edit" -> [r EXCEPT !.edited = TRUE]
         [] op = "throw" -> [r EXCEPT !.runtimeError = TRUE]
         [] OTHER -> respond(r, op)

\* A hook that threw returns its entries and the error, and no change.
captureHookError(r) == [pushEntry(r) EXCEPT !.edited = FALSE, !.override = "none"]

\* What the first k statements come to.
After(body) ==
  LET upto[k \in 0..Len(body)] == IF k = 0 THEN Nothing ELSE Statement(upto[k - 1], body[k]) IN upto

invoke(script) ==
  LET end == After(script.body)[Len(script.body)]
  IN IF script.hook \notin compile_script_rule(script).defines THEN [Nothing EXCEPT !.skipped = TRUE]
     ELSE IF end.runtimeError THEN captureHookError(end) ELSE end

sanitize_entries(r) == [r EXCEPT !.entries = IF @ < MaxEntries THEN @ ELSE MaxEntries]

---------------------------------------------------------------------------
(* The gate. *)

NoThread == [state |-> "none", cancel |-> FALSE, outcome |-> "none", result |-> Nothing]
HookAt(h, pc) == calls' = [calls EXCEPT ![h].pc = pc]
HookAnswer(h, outcome, result) == calls' = [calls EXCEPT ![h].pc = "done", ![h].outcome = outcome, ![h].result = result]
runtime_failure_trace(h, outcome) == HookAnswer(h, outcome, pushEntry(Nothing))

\* A rule that does not compile never gets here; one whose hook is not exported
\* is skipped before the gate, and one whose message cannot be serialised fails there.
execute_hook(h) ==
  LET compiled == compile_script_rule(calls[h].script) IN
  /\ calls[h].pc = "call" /\ compiled.ok
  /\ IF calls[h].script.hook \in compiled.entrypoints
     THEN HookAt(h, "acquire") \/ runtime_failure_trace(h, "InvalidResult")
     ELSE HookAnswer(h, "Skipped", [Nothing EXCEPT !.skipped = TRUE])
  /\ UNCHANGED <<available, asleep, woken, threads>>

\* A permit is taken and the thread spawned with it, or the caller sleeps.
Taken(h) ==
  /\ available' = available - 1
  /\ threads' = [threads EXCEPT ![h].state = "running"]
  /\ HookAt(h, "result")
acquire(h) ==
  /\ calls[h].pc = "acquire"
  /\ \/ available > 0 /\ Taken(h) /\ UNCHANGED <<asleep, woken>>
     \/ available = 0 /\ asleep' = asleep \cup {h} /\ HookAt(h, "sleep") /\ UNCHANGED <<available, woken, threads>>

\* Back from the wait, notified or on time-out: the count is looked at again.
Wake(h, timeout) ==
  /\ calls[h].pc = "sleep" /\ (h \in woken \/ timeout)
  /\ asleep' = asleep \ {h} /\ woken' = woken \ {h}
  /\ \/ available > 0 /\ Taken(h)
     \/ available = 0 /\ timeout /\ runtime_failure_trace(h, "RuntimeError") /\ UNCHANGED <<available, threads>>
     \/ available = 0 /\ ~timeout /\ HookAt(h, "acquire") /\ UNCHANGED <<available, threads>>

\* Notified only when the count leaves zero.
M_NotifyFromZero ==
  /\ available' = available + 1
  /\ IF asleep \ woken = {} \/ available > 0 THEN UNCHANGED woken
     ELSE \E h \in asleep \ woken : woken' = woken \cup {h}
\* ScriptPermitGuard::drop: one more, and one sleeper is notified.
drop ==
  /\ available' = available + 1
  /\ IF asleep \ woken = {} THEN UNCHANGED woken ELSE \E h \in asleep \ woken : woken' = woken \cup {h}

---------------------------------------------------------------------------
(* The thread. *)

\* A result, an error, an error of the interrupt handler (its own limit or the
\* caller's cancel), or a panic, which sends nothing.
run_script_in_thread(h, how) ==
  /\ threads[h].state = "running"
  /\ threads' = [threads EXCEPT ![h].state = IF how = "panic" THEN "ended" ELSE "sent", ![h].outcome = how,
                                 ![h].result = IF how = "result" THEN invoke(calls[h].script) ELSE Nothing]
  /\ UNCHANGED <<available, asleep, woken, calls>>

\* The permit is dropped after the send, or while unwinding.
ThreadEnds(h) ==
  /\ threads[h].state \in {"sent", "ended"}
  /\ drop
  /\ threads' = [threads EXCEPT ![h].state = "gone"]
  /\ UNCHANGED <<asleep, calls>>

---------------------------------------------------------------------------
(* The caller again. *)

ResultSent(h) == threads[h].state \in {"sent", "gone"} /\ threads[h].outcome \in {"result", "error", "interrupted"}

\* A hook that threw is a failure, whatever it changed before.
Applied(r) == IF r.runtimeError THEN [r EXCEPT !.edited = FALSE, !.override = "none"] ELSE r

Received(h) ==
  LET r == sanitize_entries(threads[h].result) IN
  CASE threads[h].outcome = "result" ->
         HookAnswer(h, IF r.runtimeError THEN "RuntimeError" ELSE IF r.skipped THEN "Skipped" ELSE "Success", Applied(r))
    [] threads[h].outcome = "interrupted" -> runtime_failure_trace(h, "TimedOut")
    [] OTHER -> runtime_failure_trace(h, "RuntimeError")

ReceiveResult(h) ==
  /\ calls[h].pc \in {"result", "grace"} /\ ResultSent(h)
  /\ Received(h)
  /\ UNCHANGED <<available, asleep, woken, threads>>

\* The first wait ends without a result, by time-out or because the sender is
\* gone: the thread is told to stop.
FirstTimeout(h) ==
  /\ calls[h].pc = "result"
  /\ HookAt(h, "grace")
  /\ threads' = [threads EXCEPT ![h].cancel = TRUE]
  /\ UNCHANGED <<available, asleep, woken>>

GraceTimeout(h) ==
  /\ calls[h].pc = "grace" /\ runtime_failure_trace(h, "TimedOut")
  /\ UNCHANGED <<available, asleep, woken, threads>>

---------------------------------------------------------------------------
EngineInit ==
  /\ available = MaxThreads /\ asleep = {} /\ woken = {}
  /\ \E s \in Scripts : calls = [h \in HookCalls |-> [pc |-> "call", script |-> s, outcome |-> "none", result |-> Nothing]]
  /\ threads = [h \in HookCalls |-> NoThread]

NextEngine ==
  \E h \in HookCalls :
    \/ execute_hook(h) \/ acquire(h)
    \/ \E timeout \in BOOLEAN : Wake(h, timeout)
    \/ \E how \in {"result", "error", "interrupted", "panic"} : run_script_in_thread(h, how)
    \/ ThreadEnds(h)
    \/ ReceiveResult(h) \/ FirstTimeout(h) \/ GraceTimeout(h)

LiveThreads == {h \in HookCalls : threads[h].state \in {"running", "sent", "ended"}}

\* HooksShareTheGate: permits and live threads always add up, timed-out and
\* panicking threads included; no slot stays free past the sleepers that were
\* told about one; every caller is answered once, in full or not at all: with
\* what its own thread returned, never with the changes of a hook that threw or
\* was given up; and a hook that the compiler lists is one the runtime defines,
\* unless its text is only a comment.
HooksShareTheGate ==
  /\ available + Cardinality(LiveThreads) = MaxThreads
  /\ asleep \ woken # {} => available <= Cardinality(woken)
  /\ \A h \in HookCalls :
       LET c == calls[h] IN
       /\ c.result.edited \/ c.result.override # "none" => c.outcome = "Success" /\ threads[h].outcome = "result"
       /\ c.outcome = "Success" => c.result = sanitize_entries(invoke(c.script)) /\ "throw" \notin {c.script.body[k] : k \in DOMAIN c.script.body}
       /\ c.outcome \in {"TimedOut", "RuntimeError", "InvalidResult"} => c.result.entries > 0
       /\ c.result.entries <= MaxEntries
       /\ c.outcome = "Skipped" /\ threads[h].state # "none" => \E f \in c.script.exports : f.kind = "comment"

EngineSpec == EngineInit /\ [][NextEngine]_engineVars
=============================================================================
