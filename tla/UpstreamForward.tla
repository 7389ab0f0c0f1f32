-------------------------- MODULE UpstreamForward --------------------------
(***************************************************************************)
(* forward_request and forward_h1_request (upstream.rs): what a request    *)
(* task does with the connection the pool gave it, and how it gives it     *)
(* back.  Composed with UpstreamPool this is a closed system.              *)
(***************************************************************************)
EXTENDS UpstreamPool

(* HTTP/1.1: the lease is held until the response body has been read.      *)

\* A reusable response was read to its end: the evict guard is disarmed.
H1Complete(c) ==
  /\ pc[c] = "h1send" /\ driver[conn[c]] = "run"
  /\ pc' = [pc EXCEPT ![c] = "release"]
  /\ UNCHANGED <<poolVars, notifyVars, chan, connVars, key, ch, guard, conn,
                 retry, stopped>>

\* Send error, head timeout, body error, or a response that forbids reuse.
H1Fail(c) ==
  /\ pc[c] = "h1send"
  /\ pc' = [pc EXCEPT ![c] = "h1evict"]
  /\ UNCHANGED <<poolVars, notifyVars, chan, connVars, key, ch, guard, conn,
                 retry, stopped>>

\* guard.evict().await, while the lease is still held.
H1Evict(c) ==
  /\ pc[c] = "h1evict"
  /\ EvictConn(conn[c])
  /\ pc' = [pc EXCEPT ![c] = "release"]
  /\ UNCHANGED <<pending, connecting, chan, kind, age, holder, key, ch, guard,
                 conn, retry, stopped>>

\* The request future is dropped while the lease is held.
H1Cancel(c) ==
  /\ pc[c] \in {"h1send", "h1evict"}
  /\ pc' = [pc EXCEPT ![c] = "cancelRelease"]
  /\ UNCHANGED <<poolVars, notifyVars, chan, connVars, key, ch, guard, conn,
                 retry, stopped>>

\* Drop for H1Lease: refresh last_used, notify_one; the mutex guard is a
\* field and is released only after this body.
ReleaseLease(c) ==
  /\ pc[c] \in {"release", "cancelRelease"}
  /\ age' = [age EXCEPT ![conn[c]] = IF closed[conn[c]] THEN @ ELSE 0]
  /\ NotifyOne
  /\ pc' = [pc EXCEPT ![c] = IF @ = "release" THEN "unlock" ELSE "cancelUnlock"]
  /\ UNCHANGED <<poolVars, chan, kind, closed, driver, holder, key, ch, guard,
                 conn, retry, stopped>>

UnlockLease(c) ==
  /\ pc[c] = "unlock"
  /\ holder' = [holder EXCEPT ![conn[c]] = None]
  /\ conn' = [conn EXCEPT ![c] = None]
  /\ Leave(c)
  /\ UNCHANGED <<poolVars, notifyVars, chan, kind, closed, driver, age, key, ch,
                 guard, stopped>>

\* Locals are dropped in reverse order: the lease before H1LeaseEvictOnDrop.
CancelUnlock(c) ==
  /\ pc[c] = "cancelUnlock"
  /\ holder' = [holder EXCEPT ![conn[c]] = None]
  /\ pc' = [pc EXCEPT ![c] = "cancelAbort"]
  /\ UNCHANGED <<poolVars, notifyVars, chan, kind, closed, driver, age, key, ch,
                 guard, conn, retry, stopped>>

\* Drop for H1LeaseEvictOnDrop: close_and_abort, the entry stays in the pool.
CancelAbort(c) ==
  /\ pc[c] = "cancelAbort"
  /\ CloseAndAbort({conn[c]})
  /\ conn' = [conn EXCEPT ![c] = None]
  /\ Leave(c)
  /\ UNCHANGED <<poolVars, notifyVars, chan, kind, age, holder, key, ch, guard,
                 stopped>>

-----------------------------------------------------------------------------
(* HTTP/2: the sender is cloned; failure evicts the whole key.             *)

H2Complete(c) ==
  /\ pc[c] = "h2send" /\ driver[conn[c]] = "run"
  /\ conn' = [conn EXCEPT ![c] = None]
  /\ Leave(c)
  /\ UNCHANGED <<poolVars, notifyVars, chan, connVars, key, ch, guard, stopped>>

\* Send error, head timeout or body error.
H2Fail(c) ==
  /\ pc[c] = "h2send"
  /\ pc' = [pc EXCEPT ![c] = "h2evict"]
  /\ UNCHANGED <<poolVars, notifyVars, chan, connVars, key, ch, guard, conn,
                 retry, stopped>>

\* evict_key, then either the error is returned or, for a send error of the
\* first attempt of an idempotent request, one more attempt is made.
H2Evict(c, again) ==
  /\ pc[c] = "h2evict"
  /\ again => ~retry[c]
  /\ entries' = [entries EXCEPT ![key[c]] = {}]
  /\ CloseAndAbort(entries[key[c]])
  /\ NotifyWaiters
  /\ conn' = [conn EXCEPT ![c] = None]
  /\ pc' = [pc EXCEPT ![c] = IF again THEN "select" ELSE "idle"]
  /\ retry' = [retry EXCEPT ![c] = again]
  /\ UNCHANGED <<pending, connecting, chan, kind, age, holder, key, ch, guard,
                 stopped>>

H2Cancel(c) ==
  /\ pc[c] \in {"h2send", "h2evict"}
  /\ conn' = [conn EXCEPT ![c] = None]
  /\ Leave(c)
  /\ UNCHANGED <<poolVars, notifyVars, chan, connVars, key, ch, guard, stopped>>

-----------------------------------------------------------------------------
\* The steps a caller takes by itself once it has started.
PoolStep(c) ==
  \/ Acquire(c) \/ DropEmpty(c) \/ ReserveGrowth(c) \/ DecideQueue(c)
  \/ RegisterFirst(c) \/ AwaitDial(c) \/ DialObserved(c)
  \/ EnterQueue(c) \/ Resume(c) \/ LeaseWaitTimeout(c)
  \/ DialOk(c, "h1") \/ DialOk(c, "h2") \/ DialErr(c)
  \/ Push(c) \/ Announce(c) \/ AcquireNew(c) \/ NewUnavailable(c) \/ EvictNew(c)
  \/ Unguard(c)

ExchangeStep(c) ==
  \/ H1Complete(c) \/ H1Fail(c) \/ H1Evict(c) \/ ReleaseLease(c)
  \/ UnlockLease(c) \/ CancelUnlock(c) \/ CancelAbort(c)
  \/ H2Complete(c) \/ H2Fail(c) \/ \E again \in BOOLEAN : H2Evict(c, again)

CancelStep(c) == HeadPhaseTimeout(c) \/ H1Cancel(c) \/ H2Cancel(c)

CallerStep(c) ==
  (\E k \in Keys : GetOrConnect(c, k)) \/ PoolStep(c) \/ ExchangeStep(c)
                                       \/ CancelStep(c)

\* Dropping the last reference belongs to the step that dropped it: nothing
\* else happens until it is done.
Next ==
  \/ Unreclaimed /\ Reclaim
  \/ /\ ~Unreclaimed
     /\ \/ \E c \in Callers : CallerStep(c)
        \/ \E x \in Conns : DriverEnds(x) \/ DriverTail(x) \/ Age(x)
        \/ EvictExpired \/ Shutdown

Spec == Init /\ [][Next]_vars

\* Every await of a caller is bounded: a task that can run is run, a dial and
\* an exchange end or time out, and an expired head-phase deadline is noticed
\* at the next await point (it is re-checked at each one, hence SF).
Fairness ==
  \A c \in Callers :
    /\ WF_vars(PoolStep(c)) /\ WF_vars(ExchangeStep(c))
    /\ SF_vars(HeadPhaseTimeout(c))

FairSpec == Spec /\ Fairness

-----------------------------------------------------------------------------
(* Properties.                                                             *)

\* Every variable stays within its type.
TypeOK ==
  /\ entries \in [Keys -> SUBSET Conns]
  /\ pending \in [Keys -> Channels \cup {None}]
  /\ connecting \in [Keys -> Nat]
  /\ waiting \subseteq Callers /\ baton \subseteq Callers /\ permit \in BOOLEAN
  /\ chan \in [Channels -> {"open", "sent", "dropped"}]
  /\ kind \in [Conns -> {"none", "h1", "h2"}]
  /\ closed \in [Conns -> BOOLEAN]
  /\ driver \in [Conns -> {"run", "ended", "done"}]
  /\ age \in [Conns -> 0..MaxAge]
  /\ holder \in [Conns -> Callers \cup {None}]
  /\ pc \in [Callers -> PCs]
  /\ key \in [Callers -> Keys]
  /\ ch \in [Callers -> Channels \cup {None}]
  /\ guard \in [Callers -> {"none", "first", "growth"}]
  /\ conn \in [Callers -> Conns \cup {None}]
  /\ retry \in [Callers -> BOOLEAN]
  /\ stopped \in BOOLEAN

LeasePCs == {"h1send", "h1evict", "release", "unlock", "cancelRelease",
             "cancelUnlock"}

\* Two callers are never between check-out and release of the same HTTP/1.1
\* connection: requests cannot interleave their bytes on it, whichever of
\* reuse, growth, first dial, eviction or cancellation brought them there.
LeaseExclusive ==
  \A c, d \in Callers :
    c # d /\ pc[c] \in LeasePCs /\ pc[d] \in LeasePCs => conn[c] # conn[d]

\* A first dial in flight is the one registered for its key, and a registered
\* channel belongs to a dial in flight: no cancelled dial leaks its entry, and
\* neither a guard nor a waiter removes the registration of a successor.
PendingOwned ==
  /\ \A c \in Callers : guard[c] = "first" => pending[key[c]] = ch[c]
  /\ \A k \in Keys : pending[k] # None =>
       \E c \in Callers : guard[c] = "first" /\ key[c] = k /\ ch[c] = pending[k]

\* A caller that waits for somebody's dial never waits for a dead one: either
\* the result is there, or the sender was dropped, or the dialer still runs.
WaitersHaveDialer ==
  \A c \in Callers : pc[c] = "wait" /\ chan[ch[c]] = "open" =>
    \E d \in Callers : guard[d] = "first" /\ ch[d] = ch[c]

GrowthDialers(k) == {c \in Callers : guard[c] = "growth" /\ key[c] = k}

\* h1_connecting counts exactly the growth dials whose guard is alive, so no
\* path (failure, cancellation, lost race) leaks or double-frees capacity.
ReservationsMatchDials ==
  \A k \in Keys : connecting[k] = Cardinality(GrowthDialers(k))

\* A key never holds more than one HTTP/1.1 connection above the limit: the
\* unregistered first dial is the only one that escapes the reservations.
PoolBounded ==
  \A k \in Keys : Cardinality(H1(entries[k])) <= MaxH1 + 1

\* Neither the idle check of get_or_connect nor the eviction timer closes a
\* connection that a caller is using, however old its last_used is.
IdleEvictionSparesLeases ==
  [][\A x \in Conns :
       /\ holder[x] # None /\ ~closed[x]
       /\ EvictExpired \/ \E c \in Callers : pc[c] = "select"
                                            /\ (pc'[c] # "select" \/ DropEmpty(c))
       => ~closed'[x]]_vars

FirstDialers(k) == {c \in Callers : guard[c] = "first" /\ key[c] = k}

Flight == INSTANCE SingleFlight WITH flight <- [k \in Keys |-> FirstDialers(k)]

\* The pending map implements the single-flight specification: however dials
\* fail, are cancelled or race with evictions, one first dial runs per key.
SingleFlightRefined == Flight!Spec

\* Whatever the interleaving of evictions, lost notifications, failed dials
\* and retries, every request leaves the pool and its exchange.
EveryCallReturns == \A c \in Callers : pc[c] # "idle" ~> pc[c] = "idle"

-----------------------------------------------------------------------------
(* Statements the repository makes that the code does not keep.            *)

\* MAX_H1_CONNECTIONS_PER_KEY bounds the connections of a key.
WithinH1Limit == \A k \in Keys : Cardinality(H1(entries[k])) <= MaxH1

\* A caller queued for a lease does not sleep while its key has a free
\* connection and nobody is left to wake it.
NotStranded ==
  \A c \in Callers :
    /\ pc[c] = "queued" /\ c \in waiting
    /\ \A d \in Callers \ {c} : pc[d] = "idle"
    => ~ \E x \in entries[key[c]] : Acquirable(x)

=============================================================================
