---------------------------- MODULE UpstreamPool ----------------------------
(***************************************************************************)
(* The upstream connection pool of proxy-core (upstream_pool.rs): one      *)
(* multiplexed HTTP/2 sender or a bounded set of exclusively leased        *)
(* HTTP/1.1 senders per (scheme, host, port) key, shared by every request  *)
(* task of the proxy.                                                      *)
(*                                                                         *)
(* A caller is a task inside get_or_connect; the exchange it performs on   *)
(* the connection it checked out is in UpstreamForward, which closes the   *)
(* system.  One step is one critical section, or one stretch of code       *)
(* between two points where another thread can be observed.                *)
(***************************************************************************)
EXTENDS Integers, FiniteSets

CONSTANTS
  Callers,      \* request tasks using the pool
  Keys,         \* UpstreamKey values
  Conns,        \* identities of pooled connections (Arc pointers)
  Channels,     \* identities of watch channels of first dials
  MaxH1,        \* MAX_H1_CONNECTIONS_PER_KEY
  IdleTimeout,  \* UpstreamPoolIdle, in ageing ticks
  MaxIdle,      \* UpstreamPoolEvictionMaxIdle, in ageing ticks
  Protocols,    \* what ALPN may negotiate: a subset of {"h1", "h2"}
  MaxAge,       \* bound: ageing of a connection stops here
  MayStop,      \* whether shutdown() happens
  None          \* "no caller", "no connection", "no channel"

ASSUME SetsAssumption ==
  /\ IsFiniteSet(Callers) /\ IsFiniteSet(Conns)
  /\ None \notin Callers \cup Conns \cup Channels

ASSUME LimitAssumption == MaxH1 \in Nat \ {0}

ASSUME IdleAssumption ==
  IdleTimeout \in Nat \ {0} /\ MaxIdle \in Nat /\ IdleTimeout <= MaxIdle

ASSUME EnvironmentAssumption ==
  Protocols \subseteq {"h1", "h2"} /\ MaxAge \in Nat /\ MayStop \in BOOLEAN

VARIABLES
  entries,     \* connections: key -> pooled connections; absent key = {}
  pending,     \* pending: key -> channel of the first dial in flight
  connecting,  \* h1_connecting: key -> growth dials that reserved capacity
  waiting,     \* h1_notify: callers registered and not notified
  baton,       \* h1_notify: callers woken by notify_one, not yet resumed
  permit,      \* h1_notify: the stored permit of notify_one
  chan,        \* watch channel: "open", "sent", or "dropped" without a value
  kind,        \* "h1", "h2", or "none" for an identity that is not in use
  closed,      \* H1PooledConnection.closed
  driver,      \* its task: "run", "ended" (I/O over, tail to run), "done"
  age,         \* ticks since last_used
  holder,      \* owner of the sender mutex of an h1 connection
  pc,          \* where a caller is
  key,         \* the key a caller asked for
  ch,          \* the channel a caller registered or waits on
  guard,       \* the drop guard a caller owns: "none", "first", "growth"
  conn,        \* the connection a caller dialed or checked out
  retry,       \* the caller is in the second attempt of an h2 request
  stopped      \* shutdown() ran

poolVars == <<entries, pending, connecting>>
notifyVars == <<waiting, baton, permit>>
connVars == <<kind, closed, driver, age, holder>>
callVars == <<pc, key, ch, guard, conn, retry>>
vars == <<entries, pending, connecting, waiting, baton, permit, chan, kind,
          closed, driver, age, holder, pc, key, ch, guard, conn, retry, stopped>>

PoolPCs == {"select", "queue", "queued", "wait", "dial", "dialed", "pushed",
            "announced", "unavailable", "unguard"}
ExchangePCs == {"h1send", "h1evict", "release", "unlock", "h2send", "h2evict",
                "cancelRelease", "cancelUnlock", "cancelAbort"}
PCs == {"idle"} \cup PoolPCs \cup ExchangePCs

Init ==
  /\ entries = [k \in Keys |-> {}]
  /\ pending = [k \in Keys |-> None]
  /\ connecting = [k \in Keys |-> 0]
  /\ waiting = {} /\ baton = {} /\ permit = FALSE
  /\ chan = [d \in Channels |-> "open"]
  /\ kind = [x \in Conns |-> "none"]
  /\ closed = [x \in Conns |-> FALSE]
  /\ driver = [x \in Conns |-> "done"]
  /\ age = [x \in Conns |-> 0]
  /\ holder = [x \in Conns |-> None]
  /\ pc = [c \in Callers |-> "idle"]
  /\ key \in [Callers -> Keys]
  /\ ch = [c \in Callers |-> None]
  /\ guard = [c \in Callers |-> "none"]
  /\ conn = [c \in Callers |-> None]
  /\ retry = [c \in Callers |-> FALSE]
  /\ stopped = FALSE

-----------------------------------------------------------------------------
(* tokio::sync::Notify, of which ONE instance serves every key.            *)

\* notify_one: hand the notification to a waiter, or store a single permit.
\* tokio wakes in FIFO order; any order is allowed here.
NotifyOne ==
  \/ /\ waiting = {}
     /\ permit' = TRUE
     /\ UNCHANGED <<waiting, baton>>
  \/ \E w \in waiting :
       /\ waiting' = waiting \ {w}
       /\ baton' = baton \cup {w}
       /\ UNCHANGED permit

\* notify_waiters: wake the callers registered now, store nothing.
NotifyWaiters == waiting' = {} /\ UNCHANGED <<baton, permit>>

-----------------------------------------------------------------------------
(* Connections.                                                            *)

H1(S) == {x \in S : kind[x] = "h1"}

M_AliveIgnoresBusy(x, maxIdle) ==
  ~closed[x] /\ driver[x] = "run" /\ age[x] < maxIdle

\* is_alive_and_not_idle: a busy h1 connection counts as alive whatever its
\* age; SendRequest::is_closed() is TRUE once the driver stopped.
Alive(x, maxIdle) ==
  /\ ~closed[x]
  /\ \/ kind[x] = "h1" /\ holder[x] # None
     \/ driver[x] = "run" /\ age[x] < maxIdle

M_AcquirableWhenBusy(x) == ~closed[x] /\ driver[x] = "run"

\* try_acquire succeeds: open, transport up, and for h1 the mutex is free.
Acquirable(x) ==
  /\ ~closed[x] /\ driver[x] = "run"
  /\ kind[x] = "h1" => holder[x] = None

\* Checking x out: take the mutex of an h1 sender, refresh last_used.
CheckOut(c, x) ==
  /\ holder' = [holder EXCEPT ![x] = IF kind[x] = "h1" THEN c ELSE @]
  /\ age' = [age EXCEPT ![x] = 0]
  /\ conn' = [conn EXCEPT ![c] = x]

\* mark_closed and abort_driver on every connection of S; both do nothing to
\* an h2 connection, and a driver whose I/O is over is not aborted.
CloseAndAbort(S) ==
  /\ closed' = [x \in Conns |-> closed[x] \/ x \in H1(S)]
  /\ driver' = [x \in Conns |->
                  IF x \in H1(S) /\ driver[x] = "run" THEN "done" ELSE driver[x]]

\* Where a caller goes once it owns a connection: an h1 lease obtained by the
\* retry of an h2 request is an error, so it is given back at once.
AfterCheckOut(c, x) ==
  IF kind[x] = "h2" THEN "h2send" ELSE IF retry[c] THEN "release" ELSE "h1send"

-----------------------------------------------------------------------------
(* get_or_connect.  The actions Acquire .. AwaitDial are the branches of   *)
(* the critical section under connections.write().                         *)

GetOrConnect(c, k) ==
  /\ pc[c] = "idle"
  /\ pc' = [pc EXCEPT ![c] = "select"]
  /\ key' = [key EXCEPT ![c] = k]
  /\ UNCHANGED <<poolVars, notifyVars, chan, connVars, ch, guard, conn, retry,
                 stopped>>

\* The request is over, with a response or an error.
Leave(c) ==
  /\ pc' = [pc EXCEPT ![c] = "idle"]
  /\ retry' = [retry EXCEPT ![c] = FALSE]

Kept(k) == {x \in entries[k] : Alive(x, IdleTimeout)}

\* entries.retain(...): drop, close and abort what is dead or idle.
Retain(k) ==
  /\ entries' = [entries EXCEPT ![k] = Kept(k)]
  /\ CloseAndAbort(entries[k] \ Kept(k))

Acquire(c) ==
  /\ pc[c] = "select"
  /\ Retain(key[c])
  /\ \E x \in Kept(key[c]) :
       /\ Acquirable(x)
       /\ CheckOut(c, x)
       /\ pc' = [pc EXCEPT ![c] = AfterCheckOut(c, x)]
  /\ UNCHANGED <<pending, connecting, notifyVars, chan, kind, key, ch, guard,
                 retry, stopped>>

\* Nothing alive is left: remove the key and start over.
DropEmpty(c) ==
  /\ pc[c] = "select"
  /\ entries[key[c]] # {} /\ Kept(key[c]) = {}
  /\ Retain(key[c])
  /\ UNCHANGED <<pending, connecting, notifyVars, chan, kind, age, holder,
                 callVars, stopped>>

AllBusy(k) == Kept(k) # {} /\ \A x \in Kept(k) : ~Acquirable(x)

HasCapacity(k) == Cardinality(H1(Kept(k))) + connecting[k] < MaxH1

\* Busy, but below the limit: reserve capacity and dial one more.
ReserveGrowth(c) ==
  /\ pc[c] = "select"
  /\ AllBusy(key[c]) /\ HasCapacity(key[c])
  /\ Retain(key[c])
  /\ connecting' = [connecting EXCEPT ![key[c]] = @ + 1]
  /\ guard' = [guard EXCEPT ![c] = "growth"]
  /\ pc' = [pc EXCEPT ![c] = "dial"]
  /\ UNCHANGED <<pending, notifyVars, chan, kind, age, holder, key, ch, conn,
                 retry, stopped>>

\* Busy and at the limit: the lock is released, then the caller queues.
DecideQueue(c) ==
  /\ pc[c] = "select"
  /\ AllBusy(key[c]) /\ ~HasCapacity(key[c])
  /\ Retain(key[c])
  /\ pc' = [pc EXCEPT ![c] = "queue"]
  /\ UNCHANGED <<pending, connecting, notifyVars, chan, kind, age, holder, key,
                 ch, guard, conn, retry, stopped>>

\* A channel nobody refers to any more is as good as a new one.
FreshChannels == {d \in Channels : /\ \A k \in Keys : pending[k] # d
                                   /\ \A c \in Callers : ch[c] # d}

M_RegisterAlways(c) ==
  /\ pc[c] = "select"
  /\ entries[key[c]] = {}
  /\ \E d \in FreshChannels :
       /\ pending' = [pending EXCEPT ![key[c]] = d]
       /\ ch' = [ch EXCEPT ![c] = d]
       /\ chan' = [chan EXCEPT ![d] = "open"]
  /\ guard' = [guard EXCEPT ![c] = "first"]
  /\ pc' = [pc EXCEPT ![c] = "dial"]
  /\ UNCHANGED <<entries, connecting, notifyVars, connVars, key, conn, retry,
                 stopped>>

\* No entry and nobody dialing: register the channel and dial.
RegisterFirst(c) ==
  /\ pc[c] = "select"
  /\ entries[key[c]] = {} /\ pending[key[c]] = None
  /\ \E d \in FreshChannels :
       /\ pending' = [pending EXCEPT ![key[c]] = d]
       /\ ch' = [ch EXCEPT ![c] = d]
       /\ chan' = [chan EXCEPT ![d] = "open"]
  /\ guard' = [guard EXCEPT ![c] = "first"]
  /\ pc' = [pc EXCEPT ![c] = "dial"]
  /\ UNCHANGED <<entries, connecting, notifyVars, connVars, key, conn, retry,
                 stopped>>

\* No entry, another caller dials: wait for its channel.
AwaitDial(c) ==
  /\ pc[c] = "select"
  /\ entries[key[c]] = {} /\ pending[key[c]] # None
  /\ ch' = [ch EXCEPT ![c] = pending[key[c]]]
  /\ pc' = [pc EXCEPT ![c] = "wait"]
  /\ UNCHANGED <<poolVars, notifyVars, chan, connVars, key, guard, conn, retry,
                 stopped>>

\* remove_pending_entry_if_current: only the caller's own channel is removed.
RemoveIfCurrent(k, d) == [pending EXCEPT ![k] = IF @ = d THEN None ELSE @]

\* rx.changed(): the dialer sent a result (Ok) or dropped its sender (Err).
DialObserved(c) ==
  /\ pc[c] = "wait" /\ chan[ch[c]] # "open"
  /\ pending' = IF chan[ch[c]] = "dropped" THEN RemoveIfCurrent(key[c], ch[c])
                                           ELSE pending
  /\ ch' = [ch EXCEPT ![c] = None]
  /\ pc' = [pc EXCEPT ![c] = "select"]
  /\ UNCHANGED <<entries, connecting, notifyVars, chan, connVars, key, guard,
                 conn, retry, stopped>>

\* The first poll of h1_notify.notified(): consume the permit or register.
EnterQueue(c) ==
  /\ pc[c] = "queue"
  /\ \/ /\ permit /\ permit' = FALSE
        /\ pc' = [pc EXCEPT ![c] = "select"]
        /\ UNCHANGED waiting
     \/ /\ ~permit /\ waiting' = waiting \cup {c}
        /\ pc' = [pc EXCEPT ![c] = "queued"]
        /\ UNCHANGED permit
  /\ UNCHANGED <<poolVars, baton, chan, connVars, key, ch, guard, conn, retry,
                 stopped>>

\* A notified caller goes round the loop.
Resume(c) ==
  /\ pc[c] = "queued" /\ c \notin waiting
  /\ baton' = baton \ {c}
  /\ pc' = [pc EXCEPT ![c] = "select"]
  /\ UNCHANGED <<poolVars, waiting, permit, chan, connVars, key, ch, guard,
                 conn, retry, stopped>>

\* UpstreamPoolH1LeaseWait elapsed before any notification.
LeaseWaitTimeout(c) ==
  /\ pc[c] = "queued" /\ c \in waiting
  /\ waiting' = waiting \ {c}
  /\ Leave(c)
  /\ UNCHANGED <<poolVars, baton, permit, chan, connVars, key, ch, guard, conn,
                 stopped>>

-----------------------------------------------------------------------------
(* Action::Connect: do_connect, then publication of the result.            *)

DialOk(c, proto) ==
  /\ pc[c] = "dial" /\ proto \in Protocols
  /\ \E x \in Conns :
       /\ kind[x] = "none"
       /\ kind' = [kind EXCEPT ![x] = proto]
       /\ closed' = [closed EXCEPT ![x] = FALSE]
       /\ driver' = [driver EXCEPT ![x] = "run"]
       /\ age' = [age EXCEPT ![x] = 0]
       /\ conn' = [conn EXCEPT ![c] = x]
  /\ pc' = [pc EXCEPT ![c] = "dialed"]
  /\ UNCHANGED <<poolVars, notifyVars, chan, holder, key, ch, guard, retry,
                 stopped>>

\* tx.send(..): only a first dial has a channel.
Announced(c) == IF guard[c] = "first" THEN [chan EXCEPT ![ch[c]] = "sent"]
                                      ELSE chan

DialErr(c) ==
  /\ pc[c] = "dial"
  /\ chan' = Announced(c)
  /\ pc' = [pc EXCEPT ![c] = "unguard"]
  /\ UNCHANGED <<poolVars, notifyVars, connVars, key, ch, guard, conn, retry,
                 stopped>>

Push(c) ==
  /\ pc[c] = "dialed"
  /\ entries' = [entries EXCEPT ![key[c]] = @ \cup {conn[c]}]
  /\ pc' = [pc EXCEPT ![c] = "pushed"]
  /\ UNCHANGED <<pending, connecting, notifyVars, chan, connVars, key, ch,
                 guard, conn, retry, stopped>>

Announce(c) ==
  /\ pc[c] = "pushed"
  /\ chan' = Announced(c)
  /\ NotifyWaiters
  /\ pc' = [pc EXCEPT ![c] = "announced"]
  /\ UNCHANGED <<poolVars, connVars, key, ch, guard, conn, retry, stopped>>

AcquireNew(c) ==
  /\ pc[c] = "announced" /\ Acquirable(conn[c])
  /\ CheckOut(c, conn[c])
  /\ pc' = [pc EXCEPT ![c] = "unguard"]
  /\ UNCHANGED <<poolVars, notifyVars, chan, kind, closed, driver, key, ch,
                 guard, retry, stopped>>

\* Taken by somebody else, closed, or its driver is gone (then try_acquire
\* marks it closed when it gets the mutex).
NewUnavailable(c) ==
  /\ pc[c] = "announced" /\ ~Acquirable(conn[c])
  /\ closed' = [closed EXCEPT ![conn[c]] =
                  @ \/ (kind[conn[c]] = "h1" /\ holder[conn[c]] = None)]
  /\ pc' = [pc EXCEPT ![c] = "unavailable"]
  /\ UNCHANGED <<poolVars, notifyVars, chan, kind, driver, age, holder, key, ch,
                 guard, conn, retry, stopped>>

\* evict_if_same and evict_h1_connection: remove, close and abort x if the
\* pool still has it; the waiters are woken in any case.
EvictConn(x) ==
  /\ entries' = [k \in Keys |-> entries[k] \ {x}]
  /\ CloseAndAbort({x} \cap UNION {entries[k] : k \in Keys})
  /\ NotifyWaiters

EvictNew(c) ==
  /\ pc[c] = "unavailable"
  /\ EvictConn(conn[c])
  /\ conn' = [conn EXCEPT ![c] = None]
  /\ pc' = [pc EXCEPT ![c] = "unguard"]
  /\ UNCHANGED <<pending, connecting, chan, kind, age, holder, key, ch, guard,
                 retry, stopped>>

M_ReturnNothing(k) == NotifyWaiters /\ UNCHANGED connecting

\* Drop for H1ConnectingGuard: saturating_sub, then wake the waiters.
ReturnReservation(k) ==
  /\ connecting' = [connecting EXCEPT ![k] = IF @ = 0 THEN 0 ELSE @ - 1]
  /\ NotifyWaiters

M_LeakSender(d) == UNCHANGED chan

\* The only sender of channel d is dropped.
DropSender(d) == chan' = [chan EXCEPT ![d] = IF @ = "open" THEN "dropped" ELSE @]

\* Return from Action::Connect: H1ConnectingGuard or PendingConnectGuard is
\* dropped, then the sender of the channel.
Unguard(c) ==
  /\ pc[c] = "unguard"
  /\ \/ /\ guard[c] = "growth"
        /\ ReturnReservation(key[c])
        /\ UNCHANGED <<pending, chan>>
     \/ /\ guard[c] = "first"
        /\ pending' = RemoveIfCurrent(key[c], ch[c])
        /\ DropSender(ch[c])
        /\ UNCHANGED <<connecting, notifyVars>>
  /\ guard' = [guard EXCEPT ![c] = "none"]
  /\ ch' = [ch EXCEPT ![c] = None]
  /\ pc' = [pc EXCEPT ![c] =
              IF conn[c] = None THEN "idle" ELSE AfterCheckOut(c, conn[c])]
  /\ retry' = [retry EXCEPT ![c] = @ /\ conn[c] # None]
  /\ UNCHANGED <<entries, connVars, key, conn, stopped>>

-----------------------------------------------------------------------------
(* The caller's future is dropped inside get_or_connect: bound_head_phase  *)
(* ran out of time, or the client went away.  Only await points qualify.   *)

CancelWaiting(c) ==
  /\ pc[c] \in {"select", "wait"}
  /\ ch' = [ch EXCEPT ![c] = None]
  /\ Leave(c)
  /\ UNCHANGED <<poolVars, notifyVars, chan, connVars, key, guard, conn, stopped>>

\* Dropping a Notified that holds a notify_one passes the notification on.
CancelQueued(c) ==
  /\ pc[c] = "queued"
  /\ \/ /\ c \in waiting /\ waiting' = waiting \ {c}
        /\ UNCHANGED <<baton, permit>>
     \/ /\ c \notin waiting /\ c \notin baton
        /\ UNCHANGED notifyVars
     \/ /\ c \in baton /\ waiting = {}
        /\ permit' = TRUE /\ baton' = baton \ {c}
        /\ UNCHANGED waiting
     \/ /\ c \in baton
        /\ \E w \in waiting : /\ waiting' = waiting \ {w}
                              /\ baton' = (baton \ {c}) \cup {w}
        /\ UNCHANGED permit
  /\ Leave(c)
  /\ UNCHANGED <<poolVars, chan, connVars, key, ch, guard, conn, stopped>>

\* The guards run as on return; a connection that was dialed but not pushed
\* loses its only reference, which ends its driver.
CancelDial(c) ==
  /\ pc[c] \in {"dial", "dialed", "unavailable"}
  /\ driver' = IF pc[c] = "dialed" THEN [driver EXCEPT ![conn[c]] = "done"]
                                   ELSE driver
  /\ conn' = [conn EXCEPT ![c] = None]
  /\ pc' = [pc EXCEPT ![c] = "unguard"]
  /\ UNCHANGED <<poolVars, notifyVars, chan, kind, closed, age, holder, key, ch,
                 guard, retry, stopped>>

M_FirstAttemptBounded(c) ==
  ~retry[c] /\ (CancelWaiting(c) \/ CancelQueued(c) \/ CancelDial(c))

HeadPhaseTimeout(c) == CancelWaiting(c) \/ CancelQueued(c) \/ CancelDial(c)

-----------------------------------------------------------------------------
(* Connection drivers, the eviction timer, shutdown, time.                 *)

\* The connection future completes: the peer closed, or the transport failed.
DriverEnds(x) ==
  /\ kind[x] # "none" /\ driver[x] = "run"
  /\ driver' = [driver EXCEPT ![x] = "ended"]
  /\ UNCHANGED <<poolVars, notifyVars, chan, kind, closed, age, holder, callVars,
                 stopped>>

\* Some Arc<PooledConnection> exists, so the driver's weak reference upgrades.
Referenced(x) ==
  \/ \E k \in Keys : x \in entries[k]
  \/ \E c \in Callers :
       conn[c] = x /\ pc[c] \in {"dialed", "pushed", "announced", "unavailable"}

\* The tail of the driver task: mark_driver_finished, mark_closed and
\* evict_if_same, when the connection still exists.
DriverTail(x) ==
  /\ driver[x] = "ended"
  /\ driver' = [driver EXCEPT ![x] = "done"]
  /\ \/ /\ Referenced(x)
        /\ closed' = [closed EXCEPT ![x] = @ \/ kind[x] = "h1"]
        /\ entries' = [k \in Keys |-> entries[k] \ {x}]
        /\ NotifyWaiters
     \/ ~Referenced(x) /\ UNCHANGED <<closed, entries, notifyVars>>
  /\ UNCHANGED <<pending, connecting, chan, kind, age, holder, callVars, stopped>>

\* evict_expired_with_max_idle, run by the timer; it notifies nobody.
EvictExpired ==
  LET live(k) == {x \in entries[k] : Alive(x, MaxIdle)}
  IN  /\ ~stopped
      /\ \E k \in Keys : live(k) # entries[k]
      /\ entries' = [k \in Keys |-> live(k)]
      /\ CloseAndAbort(UNION {entries[k] \ live(k) : k \in Keys})
      /\ UNCHANGED <<pending, connecting, notifyVars, chan, kind, age, holder,
                     callVars, stopped>>

\* shutdown(): called once, when the server handle is stopped.
Shutdown ==
  /\ MayStop /\ ~stopped /\ stopped' = TRUE
  /\ entries' = [k \in Keys |-> {}]
  /\ CloseAndAbort(UNION {entries[k] : k \in Keys})
  /\ NotifyWaiters
  /\ UNCHANGED <<pending, connecting, chan, kind, age, holder, callVars>>

\* Time passes for one connection (ages past MaxIdle are all alike).
Age(x) ==
  /\ kind[x] # "none" /\ age[x] < MaxAge
  /\ age' = [age EXCEPT ![x] = @ + 1]
  /\ UNCHANGED <<poolVars, notifyVars, chan, kind, closed, driver, holder,
                 callVars, stopped>>

\* Connections whose last reference is gone.
Garbage == {x \in Conns : /\ kind[x] # "none"
                          /\ \A k \in Keys : x \notin entries[k]
                          /\ \A c \in Callers : conn[c] # x}

\* The last Arc of a connection is dropped, which ends its driver, or the last
\* end of a channel; the identities are free again.
Reclaim ==
  /\ kind' = [x \in Conns |-> IF x \in Garbage THEN "none" ELSE kind[x]]
  /\ closed' = [x \in Conns |-> x \notin Garbage /\ closed[x]]
  /\ driver' = [x \in Conns |-> IF x \in Garbage THEN "done" ELSE driver[x]]
  /\ age' = [x \in Conns |-> IF x \in Garbage THEN 0 ELSE age[x]]
  /\ chan' = [d \in Channels |-> IF d \in FreshChannels THEN "open" ELSE chan[d]]
  /\ UNCHANGED <<poolVars, notifyVars, holder, callVars, stopped>>

Unreclaimed == Garbage # {} \/ \E d \in FreshChannels : chan[d] # "open"

=============================================================================
