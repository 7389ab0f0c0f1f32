--------------------------- MODULE UpstreamProofs ---------------------------
(***************************************************************************)
(* Proofs about the upstream pool and its callers, for any number of       *)
(* callers, keys and connections and any limit MaxH1; and about an         *)
(* upgraded connection, for any streams of frames, caps and answers.       *)
(***************************************************************************)
EXTENDS UpstreamForward, WebSocket, SequenceTheorems, FiniteSetTheorems, WellFoundedInduction, TLAPS

USE SetsAssumption, LimitAssumption, IdleAssumption, EnvironmentAssumption

NoConnPCs == {"idle", "select", "queue", "queued", "wait", "dial"}

\* A caller refers to a connection exactly from its dial or check-out to the
\* end of its exchange ("unguard" is reached with and without one).
ConnInv ==
  \A c \in Callers :
    /\ pc[c] \in NoConnPCs => conn[c] = None
    /\ pc[c] \notin NoConnPCs \cup {"unguard"} => conn[c] \in Conns

Typed == TypeOK /\ ConnInv

\* The empty pool is well typed.
LEMMA TypedInit == Init => Typed
<1> SUFFICES ASSUME Init PROVE Typed  OBVIOUS
<1>1. closed \in [Conns -> BOOLEAN] /\ retry \in [Callers -> BOOLEAN]
      /\ permit \in BOOLEAN /\ stopped \in BOOLEAN
  BY Zenon DEF Init
<1>2. ConnInv  BY DEF Init, ConnInv, NoConnPCs
<1> QED BY <1>1, <1>2 DEF Init, Typed, TypeOK, PCs

\* Inside get_or_connect.
LEMMA TypedPool ==
  ASSUME Typed, NEW c \in Callers, PoolStep(c)
  PROVE  Typed'
<1> USE DEF Typed, TypeOK, ConnInv, poolVars, notifyVars, connVars, callVars,
            PCs, PoolPCs, ExchangePCs, NoConnPCs
<1>1. CASE Acquire(c)  BY <1>1 DEF Acquire, Retain, CloseAndAbort, Kept, H1, CheckOut, AfterCheckOut
<1>2. CASE DropEmpty(c)  BY <1>2 DEF DropEmpty, Retain, CloseAndAbort, Kept, H1
<1>3. CASE ReserveGrowth(c)  BY <1>3 DEF ReserveGrowth, Retain, CloseAndAbort, Kept, H1
<1>4. CASE DecideQueue(c)  BY <1>4 DEF DecideQueue, Retain, CloseAndAbort, Kept, H1
<1>5. CASE RegisterFirst(c)  BY <1>5 DEF RegisterFirst, FreshChannels
<1>6. CASE AwaitDial(c)  BY <1>6 DEF AwaitDial
<1>7. CASE DialObserved(c)  BY <1>7 DEF DialObserved, RemoveIfCurrent
<1>8. CASE EnterQueue(c)
  <2>1. permit' \in BOOLEAN  BY <1>8, Zenon DEF EnterQueue
  <2> QED BY <1>8, <2>1 DEF EnterQueue
<1>9. CASE Resume(c)  BY <1>9 DEF Resume
<1>10. CASE LeaseWaitTimeout(c)  BY <1>10 DEF LeaseWaitTimeout, Leave
<1>11. CASE DialOk(c, "h1")  BY <1>11 DEF DialOk
<1>12. CASE DialOk(c, "h2")  BY <1>12 DEF DialOk
<1>13. CASE DialErr(c)  BY <1>13, ZenonT(60) DEF DialErr, Announced
<1>14. CASE Push(c)  BY <1>14 DEF Push
<1>15. CASE Announce(c)  BY <1>15, ZenonT(60) DEF Announce, Announced, NotifyWaiters
<1>16. CASE AcquireNew(c)  BY <1>16 DEF AcquireNew, CheckOut
<1>17. CASE NewUnavailable(c)  BY <1>17 DEF NewUnavailable
<1>18. CASE EvictNew(c)  BY <1>18 DEF EvictNew, EvictConn, CloseAndAbort, NotifyWaiters, H1
<1>19. CASE Unguard(c)
  <2>1. retry' \in [Callers -> BOOLEAN]  BY <1>19 DEF Unguard
  <2>2. connecting' \in [Keys -> Nat]
    <3>1. CASE guard[c] = "growth"
      <4>1. connecting' = [connecting EXCEPT
                             ![key[c]] = IF @ = 0 THEN 0 ELSE @ - 1]
        BY <1>19, <3>1 DEF Unguard, ReturnReservation
      <4> QED BY <4>1
    <3>2. CASE guard[c] = "first"  BY <1>19, <3>2 DEF Unguard
    <3> QED BY <1>19, <3>1, <3>2 DEF Unguard
  <2>3. conn' = conn /\ pc' \in [Callers -> PCs]  BY <1>19 DEF Unguard, AfterCheckOut
  <2>4. ConnInv'  BY <1>19, <2>3 DEF Unguard, AfterCheckOut
  <2> QED BY <1>19, <2>1, <2>2, <2>3, <2>4, SMTT(30) DEF Unguard, ReturnReservation, NotifyWaiters, DropSender,
               RemoveIfCurrent, AfterCheckOut
<1> QED BY <1>1, <1>2, <1>3, <1>4, <1>5, <1>6, <1>7, <1>8, <1>9, <1>10, <1>11,
     <1>12, <1>13, <1>14, <1>15, <1>16, <1>17, <1>18, <1>19 DEF PoolStep

\* During the exchange.
LEMMA TypedExchange ==
  ASSUME Typed, NEW c \in Callers, ExchangeStep(c)
  PROVE  Typed'
<1> USE DEF Typed, TypeOK, ConnInv, poolVars, notifyVars, connVars, callVars,
            PCs, PoolPCs, ExchangePCs, NoConnPCs
<1>1. CASE H1Complete(c)  BY <1>1 DEF H1Complete
<1>2. CASE H1Fail(c)  BY <1>2 DEF H1Fail
<1>3. CASE H1Evict(c)  BY <1>3 DEF H1Evict, EvictConn, CloseAndAbort, NotifyWaiters, H1
<1>4. CASE ReleaseLease(c)
  <2>1. permit' \in BOOLEAN  BY <1>4, Zenon DEF ReleaseLease, NotifyOne
  <2>2. waiting' \subseteq Callers /\ baton' \subseteq Callers  BY <1>4 DEF ReleaseLease, NotifyOne
  <2> QED BY <1>4, <2>1, <2>2 DEF ReleaseLease
<1>5. CASE UnlockLease(c)  BY <1>5 DEF UnlockLease, Leave
<1>6. CASE CancelUnlock(c)  BY <1>6 DEF CancelUnlock
<1>7. CASE CancelAbort(c)  BY <1>7 DEF CancelAbort, CloseAndAbort, H1, Leave
<1>8. CASE H2Complete(c)  BY <1>8 DEF H2Complete, Leave
<1>9. CASE H2Fail(c)  BY <1>9 DEF H2Fail
<1>10. CASE \E again \in BOOLEAN : H2Evict(c, again)  BY <1>10 DEF H2Evict, CloseAndAbort, NotifyWaiters, H1
<1> QED BY <1>1, <1>2, <1>3, <1>4, <1>5, <1>6, <1>7, <1>8, <1>9, <1>10 DEF
     ExchangeStep

\* When the request future is dropped.
LEMMA TypedCancel ==
  ASSUME Typed, NEW c \in Callers, CancelStep(c)
  PROVE  Typed'
<1> USE DEF Typed, TypeOK, ConnInv, poolVars, notifyVars, connVars, callVars,
            PCs, PoolPCs, ExchangePCs, NoConnPCs
<1>1. CASE CancelWaiting(c)  BY <1>1 DEF CancelWaiting, Leave
<1>2. CASE CancelQueued(c)  BY <1>2, ZenonT(60) DEF CancelQueued, Leave
<1>3. CASE CancelDial(c)  BY <1>3 DEF CancelDial
<1>4. CASE H1Cancel(c)  BY <1>4 DEF H1Cancel
<1>5. CASE H2Cancel(c)  BY <1>5 DEF H2Cancel, Leave
<1> QED BY <1>1, <1>2, <1>3, <1>4, <1>5 DEF CancelStep, HeadPhaseTimeout

\* Every step keeps the types.
LEMMA TypedNext == Typed /\ [Next]_vars => Typed'
<1> SUFFICES ASSUME Typed, [Next]_vars PROVE Typed'  OBVIOUS
<1>1. ASSUME NEW c \in Callers, \E k \in Keys : GetOrConnect(c, k) PROVE Typed'
  BY <1>1 DEF GetOrConnect, Typed, TypeOK, ConnInv, poolVars, notifyVars, connVars, callVars,
            PCs, PoolPCs, ExchangePCs, NoConnPCs
<1>2. ASSUME NEW c \in Callers, CallerStep(c) PROVE Typed'  BY <1>1, <1>2, TypedPool, TypedExchange, TypedCancel DEF CallerStep
<1>3. CASE UNCHANGED vars
  BY <1>3 DEF vars, Typed, TypeOK, ConnInv, poolVars, notifyVars, connVars, callVars,
            PCs, PoolPCs, ExchangePCs, NoConnPCs
<1> USE DEF Typed, TypeOK, ConnInv, poolVars, notifyVars, connVars, callVars,
            PCs, PoolPCs, ExchangePCs, NoConnPCs
<1>5. CASE Reclaim  BY <1>5 DEF Reclaim, Garbage, FreshChannels
<1>6. CASE \E x \in Conns : DriverEnds(x)  BY <1>6 DEF DriverEnds
<1>7. CASE \E x \in Conns : DriverTail(x)
  <2> PICK x \in Conns : DriverTail(x)  BY <1>7
  <2>1. closed' \in [Conns -> BOOLEAN]
    <3>1. \/ closed' = [closed EXCEPT ![x] = closed[x] \/ kind[x] = "h1"]
          \/ closed' = closed
      BY DEF DriverTail
    <3> QED BY <3>1, ZenonT(60)
  <2>2. /\ waiting' \subseteq Callers /\ UNCHANGED <<baton, permit>>
        /\ entries' \in [Keys -> SUBSET Conns]
    BY DEF DriverTail, NotifyWaiters
  <2> QED BY <2>1, <2>2 DEF DriverTail
<1>8. CASE \E x \in Conns : Age(x)  BY <1>8 DEF Age
<1>9. CASE EvictExpired  BY <1>9 DEF EvictExpired, CloseAndAbort, H1
<1>10. CASE Shutdown  BY <1>10 DEF Shutdown, CloseAndAbort, NotifyWaiters, H1
<1> QED BY <1>2, <1>3, <1>5, <1>6, <1>7, <1>8, <1>9, <1>10 DEF Next

\* Every variable keeps its type in every behaviour.
THEOREM TypeCorrect == Spec => []TypeOK
<1>1. Spec => []Typed  BY TypedInit, TypedNext, PTL DEF Spec
<1>2. Typed => TypeOK  BY DEF Typed
<1> QED BY <1>1, <1>2, PTL

-----------------------------------------------------------------------------
(* Exclusive leases.                                                       *)

\* What the pool or a caller refers to is a connection in use.
KindInv ==
  /\ \A k \in Keys : \A x \in entries[k] : kind[x] # "none"
  /\ \A c \in Callers : conn[c] # None => kind[conn[c]] # "none"

\* The mutex of an h1 connection is owned exactly by the caller that has
\* checked it out and not yet given it back.
LeaseInv ==
  /\ \A x \in Conns : holder[x] # None =>
       /\ kind[x] = "h1" /\ conn[holder[x]] = x
       /\ pc[holder[x]] \in LeasePCs \cup {"unguard"}
  /\ \A c \in Callers : pc[c] \in LeasePCs => holder[conn[c]] = c
  /\ \A c \in Callers :
       pc[c] = "unguard" /\ conn[c] # None /\ kind[conn[c]] = "h1" =>
         holder[conn[c]] = c

LInv == Typed /\ KindInv /\ LeaseInv

\* Nobody leases anything at first.
LEMMA LeaseInit == Init => KindInv /\ LeaseInv
  BY DEF Init, KindInv, LeaseInv, LeasePCs

\* Inside get_or_connect.
LEMMA LeasePool ==
  ASSUME LInv, Typed', NEW c \in Callers, PoolStep(c)
  PROVE  KindInv' /\ LeaseInv'
<1> USE DEF Typed, TypeOK, ConnInv, LInv, KindInv, LeaseInv, LeasePCs, poolVars,
            notifyVars, connVars, callVars, NoConnPCs
<1>1. CASE Acquire(c)  BY <1>1 DEF Acquire, Retain, CloseAndAbort, Kept, H1, CheckOut, AfterCheckOut, Acquirable
<1>2. CASE DropEmpty(c)  BY <1>2 DEF DropEmpty, Retain, CloseAndAbort, Kept, H1
<1>3. CASE ReserveGrowth(c)  BY <1>3 DEF ReserveGrowth, Retain, CloseAndAbort, Kept, H1
<1>4. CASE DecideQueue(c)  BY <1>4 DEF DecideQueue, Retain, CloseAndAbort, Kept, H1
<1>5. CASE RegisterFirst(c)  BY <1>5 DEF RegisterFirst, FreshChannels
<1>6. CASE AwaitDial(c)  BY <1>6 DEF AwaitDial
<1>7. CASE DialObserved(c)  BY <1>7 DEF DialObserved, RemoveIfCurrent
<1>8. CASE EnterQueue(c)  BY <1>8 DEF EnterQueue
<1>9. CASE Resume(c)  BY <1>9 DEF Resume
<1>10. CASE LeaseWaitTimeout(c)  BY <1>10 DEF LeaseWaitTimeout, Leave
<1>11. CASE DialOk(c, "h1")  BY <1>11 DEF DialOk
<1>12. CASE DialOk(c, "h2")  BY <1>12 DEF DialOk
<1>13. CASE DialErr(c)  BY <1>13 DEF DialErr, Announced
<1>14. CASE Push(c)  BY <1>14 DEF Push
<1>15. CASE Announce(c)  BY <1>15 DEF Announce, Announced, NotifyWaiters
<1>16. CASE AcquireNew(c)  BY <1>16 DEF AcquireNew, CheckOut, Acquirable
<1>17. CASE NewUnavailable(c)  BY <1>17 DEF NewUnavailable
<1>18. CASE EvictNew(c)  BY <1>18 DEF EvictNew, EvictConn, CloseAndAbort, NotifyWaiters, H1
<1>19. CASE Unguard(c)
  BY <1>19 DEF Unguard, ReturnReservation, NotifyWaiters, DropSender,
               RemoveIfCurrent, AfterCheckOut
<1> QED BY <1>1, <1>2, <1>3, <1>4, <1>5, <1>6, <1>7, <1>8, <1>9, <1>10, <1>11,
     <1>12, <1>13, <1>14, <1>15, <1>16, <1>17, <1>18, <1>19 DEF PoolStep

\* During the exchange.
LEMMA LeaseExchange ==
  ASSUME LInv, Typed', NEW c \in Callers, ExchangeStep(c)
  PROVE  KindInv' /\ LeaseInv'
<1> USE DEF Typed, TypeOK, ConnInv, LInv, KindInv, LeaseInv, LeasePCs, poolVars,
            notifyVars, connVars, callVars, NoConnPCs
<1>1. CASE H1Complete(c)  BY <1>1 DEF H1Complete
<1>2. CASE H1Fail(c)  BY <1>2 DEF H1Fail
<1>3. CASE H1Evict(c)  BY <1>3 DEF H1Evict, EvictConn, CloseAndAbort, NotifyWaiters, H1
<1>4. CASE ReleaseLease(c)  BY <1>4 DEF ReleaseLease, NotifyOne
<1>5. CASE UnlockLease(c)  BY <1>5 DEF UnlockLease, Leave
<1>6. CASE CancelUnlock(c)  BY <1>6 DEF CancelUnlock
<1>7. CASE CancelAbort(c)  BY <1>7 DEF CancelAbort, CloseAndAbort, H1, Leave
<1>8. CASE H2Complete(c)  BY <1>8 DEF H2Complete, Leave
<1>9. CASE H2Fail(c)  BY <1>9 DEF H2Fail
<1>10. CASE \E again \in BOOLEAN : H2Evict(c, again)  BY <1>10 DEF H2Evict, CloseAndAbort, NotifyWaiters, H1
<1> QED BY <1>1, <1>2, <1>3, <1>4, <1>5, <1>6, <1>7, <1>8, <1>9, <1>10 DEF
     ExchangeStep

\* When the request future is dropped.
LEMMA LeaseCancel ==
  ASSUME LInv, Typed', NEW c \in Callers, CancelStep(c)
  PROVE  KindInv' /\ LeaseInv'
<1> USE DEF Typed, TypeOK, ConnInv, LInv, KindInv, LeaseInv, LeasePCs, poolVars,
            notifyVars, connVars, callVars, NoConnPCs
<1>1. CASE CancelWaiting(c)  BY <1>1 DEF CancelWaiting, Leave
<1>2. CASE CancelQueued(c)  BY <1>2 DEF CancelQueued, Leave
<1>3. CASE CancelDial(c)  BY <1>3 DEF CancelDial
<1>4. CASE H1Cancel(c)  BY <1>4 DEF H1Cancel
<1>5. CASE H2Cancel(c)  BY <1>5 DEF H2Cancel, Leave
<1> QED BY <1>1, <1>2, <1>3, <1>4, <1>5 DEF CancelStep, HeadPhaseTimeout

\* Every step keeps the lease of a sender exclusive.
LEMMA LeaseNext == LInv /\ Typed' /\ [Next]_vars => KindInv' /\ LeaseInv'
<1> SUFFICES ASSUME LInv, Typed', [Next]_vars PROVE KindInv' /\ LeaseInv'  OBVIOUS
<1>1. ASSUME NEW c \in Callers, \E k \in Keys : GetOrConnect(c, k) PROVE KindInv' /\ LeaseInv'
  BY <1>1 DEF GetOrConnect, Typed, TypeOK, ConnInv, LInv, KindInv, LeaseInv, LeasePCs, poolVars,
            notifyVars, connVars, callVars, NoConnPCs
<1>2. ASSUME NEW c \in Callers, CallerStep(c) PROVE KindInv' /\ LeaseInv'
  BY <1>1, <1>2, LeasePool, LeaseExchange, LeaseCancel DEF CallerStep
<1>3. CASE UNCHANGED vars
  BY <1>3 DEF vars, Typed, TypeOK, ConnInv, LInv, KindInv, LeaseInv, LeasePCs, poolVars,
            notifyVars, connVars, callVars, NoConnPCs
<1> USE DEF Typed, TypeOK, ConnInv, LInv, KindInv, LeaseInv, LeasePCs, poolVars,
            notifyVars, connVars, callVars, NoConnPCs
<1>5. CASE Reclaim  BY <1>5 DEF Reclaim, Garbage, FreshChannels
<1>6. CASE \E x \in Conns : DriverEnds(x)  BY <1>6 DEF DriverEnds
<1>7. CASE \E x \in Conns : DriverTail(x)  BY <1>7 DEF DriverTail, NotifyWaiters
<1>8. CASE \E x \in Conns : Age(x)  BY <1>8 DEF Age
<1>9. CASE EvictExpired  BY <1>9 DEF EvictExpired, CloseAndAbort, H1
<1>10. CASE Shutdown  BY <1>10 DEF Shutdown, CloseAndAbort, NotifyWaiters, H1
<1> QED BY <1>2, <1>3, <1>5, <1>6, <1>7, <1>8, <1>9, <1>10 DEF Next

\* Leases are exclusive throughout.
LEMMA LeaseInvariant == Spec => []LInv
<1>1. Init => LInv  BY TypedInit, LeaseInit DEF LInv
<1>2. LInv /\ [Next]_vars => LInv'  BY TypedNext, LeaseNext DEF LInv
<1> QED BY <1>1, <1>2, PTL DEF Spec

\* No two callers are ever between check-out and release of one HTTP/1.1
\* connection, for any number of callers, keys and connections.
THEOREM LeasesExclusive == Spec => []LeaseExclusive
<1>1. LInv => LeaseExclusive  BY DEF LInv, LeaseInv, LeaseExclusive
<1> QED BY <1>1, LeaseInvariant, PTL

-----------------------------------------------------------------------------
(* First dials and their registrations.                                    *)

DialPCs == {"dial", "dialed", "pushed", "announced", "unavailable", "unguard"}

\* A drop guard exists exactly while its caller is in Action::Connect.
GuardInv == \A c \in Callers : guard[c] # "none" <=> pc[c] \in DialPCs

\* Channels, registrations and first dials correspond one to one; a waiter's
\* channel has a dialer as long as nothing was sent or dropped.
PendInv ==
  /\ \A c \in Callers : guard[c] = "first" =>
       /\ ch[c] \in Channels /\ pending[key[c]] = ch[c]
       /\ chan[ch[c]] # "dropped"
  /\ \A c, d \in Callers :
       guard[c] = "first" /\ guard[d] = "first" /\ ch[c] = ch[d] => c = d
  /\ \A k \in Keys : pending[k] # None =>
       \E c \in Callers : guard[c] = "first" /\ key[c] = k /\ ch[c] = pending[k]
  /\ \A c \in Callers : pc[c] = "wait" =>
       /\ ch[c] \in Channels
       /\ chan[ch[c]] = "open" =>
            \E d \in Callers : guard[d] = "first" /\ ch[d] = ch[c]

PInv == Typed /\ GuardInv /\ PendInv

\* Nobody dials at first.
LEMMA PendInit == Init => GuardInv /\ PendInv
  BY DEF Init, GuardInv, PendInv, DialPCs

\* Inside get_or_connect.
LEMMA PendPool ==
  ASSUME PInv, Typed', NEW c \in Callers, PoolStep(c)
  PROVE  GuardInv' /\ PendInv'
<1> USE DEF Typed, TypeOK, PInv, GuardInv, PendInv, DialPCs, poolVars, notifyVars,
            connVars, callVars, PCs, PoolPCs, ExchangePCs
<1>1. CASE Acquire(c)  BY <1>1 DEF Acquire, Retain, CloseAndAbort, Kept, H1, CheckOut, AfterCheckOut
<1>2. CASE DropEmpty(c)  BY <1>2 DEF DropEmpty, Retain, CloseAndAbort, Kept, H1
<1>3. CASE ReserveGrowth(c)  BY <1>3, SMTT(30) DEF ReserveGrowth, Retain, CloseAndAbort, Kept, H1
<1>4. CASE DecideQueue(c)  BY <1>4 DEF DecideQueue, Retain, CloseAndAbort, Kept, H1
<1>5. CASE RegisterFirst(c)  BY <1>5 DEF RegisterFirst, FreshChannels
<1>6. CASE AwaitDial(c)  BY <1>6 DEF AwaitDial
<1>7. CASE DialObserved(c)  BY <1>7 DEF DialObserved, RemoveIfCurrent
<1>8. CASE EnterQueue(c)  BY <1>8 DEF EnterQueue
<1>9. CASE Resume(c)  BY <1>9 DEF Resume
<1>10. CASE LeaseWaitTimeout(c)  BY <1>10 DEF LeaseWaitTimeout, Leave
<1>11. CASE DialOk(c, "h1")  BY <1>11 DEF DialOk
<1>12. CASE DialOk(c, "h2")  BY <1>12 DEF DialOk
<1>13. CASE DialErr(c)  BY <1>13 DEF DialErr, Announced
<1>14. CASE Push(c)  BY <1>14 DEF Push
<1>15. CASE Announce(c)  BY <1>15 DEF Announce, Announced, NotifyWaiters
<1>16. CASE AcquireNew(c)  BY <1>16 DEF AcquireNew, CheckOut
<1>17. CASE NewUnavailable(c)  BY <1>17 DEF NewUnavailable
<1>18. CASE EvictNew(c)  BY <1>18 DEF EvictNew, EvictConn, CloseAndAbort, NotifyWaiters, H1
<1>19. CASE Unguard(c)
  <2>1. /\ pc' = [pc EXCEPT ![c] = pc'[c]] /\ pc'[c] \notin DialPCs \cup {"wait"}
        /\ guard' = [guard EXCEPT ![c] = "none"]
        /\ ch' = [ch EXCEPT ![c] = None] /\ key' = key
    BY <1>19 DEF Unguard, AfterCheckOut
  <2>2. GuardInv'  BY <2>1
  <2>3. CASE guard[c] = "growth"  BY <1>19, <2>1, <2>3, SMTT(30) DEF Unguard
  <2>4. CASE guard[c] = "first"
    <3>1. /\ pending' = [pending EXCEPT ![key[c]] = None]
          /\ chan' = [chan EXCEPT ![ch[c]] = IF @ = "open" THEN "dropped" ELSE @]
      BY <1>19, <2>4 DEF Unguard, RemoveIfCurrent, DropSender
    <3>2. \A d \in Callers : d # c /\ guard[d] = "first" =>
            key[d] # key[c] /\ ch[d] # ch[c]
      BY <2>4
    <3>3. \A d \in Callers : guard'[d] = "first" =>
            /\ ch'[d] \in Channels /\ pending'[key'[d]] = ch'[d]
            /\ chan'[ch'[d]] # "dropped"
      BY <2>1, <2>4, <3>1, <3>2
    <3>4. \A d, e \in Callers :
            guard'[d] = "first" /\ guard'[e] = "first" /\ ch'[d] = ch'[e] => d = e
      BY <2>1
    <3>5. ASSUME NEW k \in Keys, pending'[k] # None
          PROVE  \E d \in Callers :
                   guard'[d] = "first" /\ key'[d] = k /\ ch'[d] = pending'[k]
      <4>1. k # key[c] /\ pending'[k] = pending[k]  BY <3>1, <3>5
      <4>2. PICK d \in Callers :
                   guard[d] = "first" /\ key[d] = k /\ ch[d] = pending[k]
        BY <3>5, <4>1
      <4> QED BY <2>1, <4>1, <4>2
    <3>6. ASSUME NEW d \in Callers, pc'[d] = "wait"
          PROVE  /\ ch'[d] \in Channels
                 /\ chan'[ch'[d]] = "open" =>
                      \E e \in Callers : guard'[e] = "first" /\ ch'[e] = ch'[d]
      <4>1. d # c /\ pc[d] = "wait" /\ ch'[d] = ch[d] /\ ch[d] \in Channels  BY <2>1, <3>6
      <4>2. ASSUME chan'[ch[d]] = "open" PROVE \E e \in Callers : guard'[e] = "first" /\ ch'[e] = ch[d]
        <5>1. chan[ch[d]] = "open" /\ ch[d] # ch[c]  BY <3>1, <4>1, <4>2
        <5>2. PICK e \in Callers : guard[e] = "first" /\ ch[e] = ch[d]  BY <4>1, <5>1
        <5> QED BY <2>1, <5>1, <5>2
      <4> QED BY <4>1, <4>2
    <3> QED BY <2>2, <3>3, <3>4, <3>5, <3>6
  <2> QED BY <1>19, <2>2, <2>3, <2>4 DEF Unguard
<1> QED BY <1>1, <1>2, <1>3, <1>4, <1>5, <1>6, <1>7, <1>8, <1>9, <1>10, <1>11,
     <1>12, <1>13, <1>14, <1>15, <1>16, <1>17, <1>18, <1>19 DEF PoolStep

\* During the exchange.
LEMMA PendExchange ==
  ASSUME PInv, Typed', NEW c \in Callers, ExchangeStep(c)
  PROVE  GuardInv' /\ PendInv'
<1> USE DEF Typed, TypeOK, PInv, GuardInv, PendInv, DialPCs, poolVars, notifyVars,
            connVars, callVars, PCs, PoolPCs, ExchangePCs
<1>1. CASE H1Complete(c)  BY <1>1 DEF H1Complete
<1>2. CASE H1Fail(c)  BY <1>2 DEF H1Fail
<1>3. CASE H1Evict(c)  BY <1>3 DEF H1Evict, EvictConn, CloseAndAbort, NotifyWaiters, H1
<1>4. CASE ReleaseLease(c)  BY <1>4 DEF ReleaseLease, NotifyOne
<1>5. CASE UnlockLease(c)  BY <1>5 DEF UnlockLease, Leave
<1>6. CASE CancelUnlock(c)  BY <1>6 DEF CancelUnlock
<1>7. CASE CancelAbort(c)  BY <1>7 DEF CancelAbort, CloseAndAbort, H1, Leave
<1>8. CASE H2Complete(c)  BY <1>8 DEF H2Complete, Leave
<1>9. CASE H2Fail(c)  BY <1>9 DEF H2Fail
<1>10. CASE \E again \in BOOLEAN : H2Evict(c, again)  BY <1>10 DEF H2Evict, CloseAndAbort, NotifyWaiters, H1
<1> QED BY <1>1, <1>2, <1>3, <1>4, <1>5, <1>6, <1>7, <1>8, <1>9, <1>10 DEF
     ExchangeStep

\* When the request future is dropped.
LEMMA PendCancel ==
  ASSUME PInv, Typed', NEW c \in Callers, CancelStep(c)
  PROVE  GuardInv' /\ PendInv'
<1> USE DEF Typed, TypeOK, PInv, GuardInv, PendInv, DialPCs, poolVars, notifyVars,
            connVars, callVars, PCs, PoolPCs, ExchangePCs
<1>1. CASE CancelWaiting(c)  BY <1>1 DEF CancelWaiting, Leave
<1>2. CASE CancelQueued(c)  BY <1>2 DEF CancelQueued, Leave
<1>3. CASE CancelDial(c)  BY <1>3 DEF CancelDial
<1>4. CASE H1Cancel(c)  BY <1>4 DEF H1Cancel
<1>5. CASE H2Cancel(c)  BY <1>5 DEF H2Cancel, Leave
<1> QED BY <1>1, <1>2, <1>3, <1>4, <1>5 DEF CancelStep, HeadPhaseTimeout

\* Every step keeps the pending mark tied to its guard.
LEMMA PendNext == PInv /\ Typed' /\ [Next]_vars => GuardInv' /\ PendInv'
<1> SUFFICES ASSUME PInv, Typed', [Next]_vars PROVE GuardInv' /\ PendInv'  OBVIOUS
<1>1. ASSUME NEW c \in Callers, \E k \in Keys : GetOrConnect(c, k) PROVE GuardInv' /\ PendInv'
  BY <1>1, SMTT(30) DEF GetOrConnect, Typed, TypeOK, PInv, GuardInv, PendInv, DialPCs, poolVars, notifyVars,
            connVars, callVars, PCs, PoolPCs, ExchangePCs
<1>2. ASSUME NEW c \in Callers, CallerStep(c) PROVE GuardInv' /\ PendInv'
  BY <1>1, <1>2, PendPool, PendExchange, PendCancel DEF CallerStep
<1>3. CASE UNCHANGED vars
  BY <1>3 DEF vars, Typed, TypeOK, PInv, GuardInv, PendInv, DialPCs, poolVars, notifyVars,
            connVars, callVars, PCs, PoolPCs, ExchangePCs
<1> USE DEF Typed, TypeOK, PInv, GuardInv, PendInv, DialPCs, poolVars, notifyVars,
            connVars, callVars, PCs, PoolPCs, ExchangePCs
<1>5. CASE Reclaim  BY <1>5 DEF Reclaim, Garbage, FreshChannels
<1>6. CASE \E x \in Conns : DriverEnds(x)  BY <1>6 DEF DriverEnds
<1>7. CASE \E x \in Conns : DriverTail(x)  BY <1>7 DEF DriverTail, NotifyWaiters
<1>8. CASE \E x \in Conns : Age(x)  BY <1>8 DEF Age
<1>9. CASE EvictExpired  BY <1>9 DEF EvictExpired, CloseAndAbort, H1
<1>10. CASE Shutdown  BY <1>10 DEF Shutdown, CloseAndAbort, NotifyWaiters, H1
<1> QED BY <1>2, <1>3, <1>5, <1>6, <1>7, <1>8, <1>9, <1>10 DEF Next

\* Pending marks follow guards throughout.
LEMMA PendInvariant == Spec => []PInv
<1>1. Init => PInv  BY TypedInit, PendInit DEF PInv
<1>2. PInv /\ [Next]_vars => PInv'  BY TypedNext, PendNext DEF PInv
<1> QED BY <1>1, <1>2, PTL DEF Spec

\* A registration belongs to a dial in flight and a first dial in flight is
\* registered: nothing leaks and nobody removes a successor's registration.
THEOREM RegistrationsOwned == Spec => []PendingOwned
<1>1. PInv => PendingOwned  BY DEF PInv, PendInv, PendingOwned
<1> QED BY <1>1, PendInvariant, PTL

\* No caller waits on a channel nobody will ever answer or drop.
THEOREM NoDeadChannel == Spec => []WaitersHaveDialer
<1>1. PInv => WaitersHaveDialer  BY DEF PInv, PendInv, WaitersHaveDialer
<1> QED BY <1>1, PendInvariant, PTL

-----------------------------------------------------------------------------
(* The pending map implements SingleFlight.                                *)

SameFlights == \A k \in Keys : FirstDialers(k)' = FirstDialers(k)

\* Only registering and dropping the guard of a first dial change a flight.
LEMMA FlightStutter ==
  ASSUME PInv, NEW c \in Callers, CallerStep(c), ~RegisterFirst(c), ~Unguard(c)
  PROVE  SameFlights
<1> USE DEF SameFlights, Typed, TypeOK, PInv, GuardInv, DialPCs, FirstDialers, poolVars,
            notifyVars, connVars, callVars
<1>1. CASE \E k \in Keys : GetOrConnect(c, k)  BY <1>1 DEF GetOrConnect
<1>2. CASE Acquire(c)  BY <1>2 DEF Acquire, Retain, CloseAndAbort, Kept, H1, CheckOut, AfterCheckOut
<1>3. CASE DropEmpty(c)  BY <1>3 DEF DropEmpty, Retain, CloseAndAbort, Kept, H1
<1>4. CASE ReserveGrowth(c)  BY <1>4 DEF ReserveGrowth, Retain, CloseAndAbort, Kept, H1
<1>5. CASE DecideQueue(c)  BY <1>5 DEF DecideQueue, Retain, CloseAndAbort, Kept, H1
<1>6. CASE AwaitDial(c)  BY <1>6 DEF AwaitDial
<1>7. CASE DialObserved(c)  BY <1>7 DEF DialObserved, RemoveIfCurrent
<1>8. CASE EnterQueue(c)  BY <1>8 DEF EnterQueue
<1>9. CASE Resume(c)  BY <1>9 DEF Resume
<1>10. CASE LeaseWaitTimeout(c)  BY <1>10 DEF LeaseWaitTimeout, Leave
<1>11. CASE DialOk(c, "h1")  BY <1>11 DEF DialOk
<1>12. CASE DialOk(c, "h2")  BY <1>12 DEF DialOk
<1>13. CASE DialErr(c)  BY <1>13 DEF DialErr, Announced
<1>14. CASE Push(c)  BY <1>14 DEF Push
<1>15. CASE Announce(c)  BY <1>15 DEF Announce, Announced, NotifyWaiters
<1>16. CASE AcquireNew(c)  BY <1>16 DEF AcquireNew, CheckOut
<1>17. CASE NewUnavailable(c)  BY <1>17 DEF NewUnavailable
<1>18. CASE EvictNew(c)  BY <1>18 DEF EvictNew, EvictConn, CloseAndAbort, NotifyWaiters, H1
<1>19. CASE H1Complete(c)  BY <1>19 DEF H1Complete
<1>20. CASE H1Fail(c)  BY <1>20 DEF H1Fail
<1>21. CASE H1Evict(c)  BY <1>21 DEF H1Evict, EvictConn, CloseAndAbort, NotifyWaiters, H1
<1>22. CASE ReleaseLease(c)  BY <1>22 DEF ReleaseLease, NotifyOne
<1>23. CASE UnlockLease(c)  BY <1>23 DEF UnlockLease, Leave
<1>24. CASE CancelUnlock(c)  BY <1>24 DEF CancelUnlock
<1>25. CASE CancelAbort(c)  BY <1>25 DEF CancelAbort, CloseAndAbort, H1, Leave
<1>26. CASE H2Complete(c)  BY <1>26 DEF H2Complete, Leave
<1>27. CASE H2Fail(c)  BY <1>27 DEF H2Fail
<1>28. CASE \E again \in BOOLEAN : H2Evict(c, again)  BY <1>28 DEF H2Evict, CloseAndAbort, NotifyWaiters, H1
<1>29. CASE CancelWaiting(c)  BY <1>29 DEF CancelWaiting, Leave
<1>30. CASE CancelQueued(c)  BY <1>30 DEF CancelQueued, Leave
<1>31. CASE CancelDial(c)  BY <1>31 DEF CancelDial
<1>32. CASE H1Cancel(c)  BY <1>32 DEF H1Cancel
<1>33. CASE H2Cancel(c)  BY <1>33 DEF H2Cancel, Leave
<1> QED BY <1>1, <1>2, <1>3, <1>4, <1>5, <1>6, <1>7, <1>8, <1>9, <1>10, <1>11,
     <1>12, <1>13, <1>14, <1>15, <1>16, <1>17, <1>18, <1>19, <1>20, <1>21,
     <1>22, <1>23, <1>24, <1>25, <1>26, <1>27, <1>28, <1>29, <1>30, <1>31,
     <1>32, <1>33 DEF CallerStep, PoolStep, ExchangeStep, CancelStep,
     HeadPhaseTimeout

\* Registering the first dial begins the flight of a key.
LEMMA FlightBegin ==
  ASSUME PInv, NEW c \in Callers, RegisterFirst(c)
  PROVE  Flight!Begin(key[c], c)
<1>1. FirstDialers(key[c]) = {}  BY DEF PInv, Typed, TypeOK, PendInv, RegisterFirst, FirstDialers
<1>2. \A k \in Keys : FirstDialers(k)' =
        IF k = key[c] THEN {c} ELSE FirstDialers(k)
  BY <1>1 DEF PInv, Typed, TypeOK, GuardInv, DialPCs, RegisterFirst, FirstDialers
<1>3. key[c] \in Keys  BY DEF PInv, Typed, TypeOK
<1>4. [k \in Keys |-> FirstDialers(k)]' =
        [[k \in Keys |-> FirstDialers(k)] EXCEPT ![key[c]] = {c}]
  BY <1>2, <1>3
<1> QED BY <1>1, <1>3, <1>4 DEF Flight!Begin

\* Dropping the guard of a first dial ends it.
LEMMA FlightEnd ==
  ASSUME PInv, NEW c \in Callers, Unguard(c)
  PROVE  SameFlights \/ Flight!End(key[c], c)
<1>1. CASE guard[c] # "first"  BY <1>1 DEF PInv, Typed, TypeOK, Unguard, FirstDialers, SameFlights
<1>2. CASE guard[c] = "first"
  <2>1. FirstDialers(key[c]) = {c}  BY <1>2 DEF PInv, Typed, TypeOK, PendInv, FirstDialers
  <2>2. \A k \in Keys : FirstDialers(k)' =
          IF k = key[c] THEN {} ELSE FirstDialers(k)
    BY <1>2, <2>1 DEF PInv, Typed, TypeOK, Unguard, FirstDialers
  <2>3. key[c] \in Keys  BY DEF PInv, Typed, TypeOK
  <2>4. [k \in Keys |-> FirstDialers(k)]' =
          [[k \in Keys |-> FirstDialers(k)] EXCEPT ![key[c]] = {}]
    BY <2>2, <2>3
  <2> QED BY <2>1, <2>3, <2>4 DEF Flight!End
<1> QED BY <1>1, <1>2

\* Every other step leaves the flights alone.
LEMMA FlightStep ==
  PInv /\ [Next]_vars => SameFlights \/ Flight!Next
<1> SUFFICES ASSUME PInv, [Next]_vars PROVE SameFlights \/ Flight!Next  OBVIOUS
<1>1. ASSUME NEW c \in Callers, CallerStep(c) PROVE SameFlights \/ Flight!Next
  <2>1. key[c] \in Keys  BY DEF PInv, Typed, TypeOK
  <2> QED BY <1>1, <2>1, FlightStutter, FlightBegin, FlightEnd DEF Flight!Next
<1>3. CASE UNCHANGED vars  BY <1>3 DEF vars, SameFlights, FirstDialers
<1> USE DEF SameFlights, FirstDialers, callVars
<1>5. CASE Reclaim  BY <1>5 DEF Reclaim, Garbage, FreshChannels
<1>6. CASE \E x \in Conns : DriverEnds(x)  BY <1>6 DEF DriverEnds
<1>7. CASE \E x \in Conns : DriverTail(x)  BY <1>7 DEF DriverTail, NotifyWaiters
<1>8. CASE \E x \in Conns : Age(x)  BY <1>8 DEF Age
<1>9. CASE EvictExpired  BY <1>9 DEF EvictExpired, CloseAndAbort, H1
<1>10. CASE Shutdown  BY <1>10 DEF Shutdown, CloseAndAbort, NotifyWaiters, H1
<1> QED BY <1>1, <1>3, <1>5, <1>6, <1>7, <1>8, <1>9, <1>10 DEF Next

\* Whatever the evictions, failures and cancellations, at most one first dial
\* per key is in flight and only its owner ends it.
THEOREM PoolRefinesSingleFlight == Spec => SingleFlightRefined
<1>1. Init => Flight!Init  BY DEF Init, Flight!Init, FirstDialers
<1>2. SameFlights => UNCHANGED [k \in Keys |-> FirstDialers(k)]  BY DEF SameFlights
<1>3. PInv /\ [Next]_vars => [Flight!Next]_[k \in Keys |-> FirstDialers(k)]  BY <1>2, FlightStep
<1> QED BY <1>1, <1>3, PendInvariant, PTL DEF Spec, SingleFlightRefined, Flight!Spec

-----------------------------------------------------------------------------
(* What the idle checks close.                                             *)

\* A step of a caller moves that caller only.
LEMMA OnlyOwnPc ==
  ASSUME Typed, NEW c \in Callers, CallerStep(c), NEW d \in Callers \ {c}
  PROVE  pc'[d] = pc[d]
<1> USE DEF Typed, TypeOK, callVars
<1>1. CASE \E k \in Keys : GetOrConnect(c, k)  BY <1>1 DEF GetOrConnect
<1>2. CASE PoolStep(c)
  <2>1. pc' = [pc EXCEPT ![c] = pc'[c]] \/ pc' = pc
    BY <1>2 DEF PoolStep, Acquire, DropEmpty, ReserveGrowth, DecideQueue, RegisterFirst, AwaitDial, DialObserved,
            EnterQueue, Resume, LeaseWaitTimeout, Leave, DialOk, DialErr, Push, Announce, AcquireNew, NewUnavailable,
            EvictNew, Unguard
  <2> QED BY <2>1
<1>3. CASE ExchangeStep(c)
  <2>1. pc' = [pc EXCEPT ![c] = pc'[c]]
    BY <1>3 DEF ExchangeStep, H1Complete, H1Fail, H1Evict, ReleaseLease, UnlockLease, CancelUnlock, CancelAbort,
            H2Complete, H2Fail, H2Evict, Leave
  <2> QED BY <2>1
<1>4. CASE CancelStep(c)
  <2>1. pc' = [pc EXCEPT ![c] = pc'[c]]
    BY <1>4 DEF CancelStep, HeadPhaseTimeout, CancelWaiting, CancelQueued, CancelDial, H1Cancel, H2Cancel, Leave
  <2> QED BY <2>1
<1> QED BY <1>1, <1>2, <1>3, <1>4 DEF CallerStep

\* entries.retain never closes a connection in use.
LEMMA RetainSpares ==
  ASSUME Typed, NEW k \in Keys, Retain(k), NEW x \in Conns, holder[x] # None, ~closed[x]
  PROVE  ~closed'[x]
BY DEF Typed, TypeOK, Retain, CloseAndAbort, Kept, H1, Alive

\* Nor does any way out of the critical section.
LEMMA SelectSpares ==
  ASSUME Typed, NEW c \in Callers, CallerStep(c), pc[c] = "select", NEW x \in Conns, holder[x] # None, ~closed[x]
  PROVE  ~closed'[x]
<1>1. key[c] \in Keys  BY DEF Typed, TypeOK
<1>2. CASE Acquire(c) \/ DropEmpty(c) \/ ReserveGrowth(c) \/ DecideQueue(c)
  BY <1>1, <1>2, RetainSpares DEF Acquire, DropEmpty, ReserveGrowth, DecideQueue
<1>3. CASE RegisterFirst(c) \/ AwaitDial(c) \/ CancelWaiting(c)  BY <1>3 DEF RegisterFirst, AwaitDial, CancelWaiting, connVars
<1>4. PoolStep(c) => Acquire(c) \/ DropEmpty(c) \/ ReserveGrowth(c) \/ DecideQueue(c) \/ RegisterFirst(c) \/ AwaitDial(c)
  BY DEF PoolStep, DialObserved, EnterQueue, Resume, LeaseWaitTimeout, DialOk, DialErr, Push, Announce, AcquireNew,
         NewUnavailable, EvictNew, Unguard
<1>5. ~ExchangeStep(c)
  BY DEF ExchangeStep, H1Complete, H1Fail, H1Evict, ReleaseLease, UnlockLease, CancelUnlock, CancelAbort,
         H2Complete, H2Fail, H2Evict
<1>6. CancelStep(c) => CancelWaiting(c)  BY DEF CancelStep, HeadPhaseTimeout, CancelQueued, CancelDial, H1Cancel, H2Cancel
<1>7. ~\E k \in Keys : GetOrConnect(c, k)  BY DEF GetOrConnect
<1> QED BY <1>2, <1>3, <1>4, <1>5, <1>6, <1>7 DEF CallerStep

\* Neither the idle check of get_or_connect nor the eviction timer closes a
\* connection that a caller is using, for any number of callers and keys and any
\* thresholds: what keeps it is that a held mutex counts as alive.
THEOREM LeasesOutliveIdleChecks == Spec => IdleEvictionSparesLeases
<1>1. ASSUME Typed, [Next]_vars, NEW x \in Conns, holder[x] # None, ~closed[x],
             EvictExpired \/ \E c \in Callers : pc[c] = "select" /\ (pc'[c] # "select" \/ DropEmpty(c))
      PROVE  ~closed'[x]
  <2>1. CASE EvictExpired  BY <1>1, <2>1 DEF EvictExpired, CloseAndAbort, H1, Alive, Typed, TypeOK
  <2>2. ASSUME NEW c \in Callers, DropEmpty(c) PROVE ~closed'[x]
    <3>1. key[c] \in Keys  BY <1>1 DEF Typed, TypeOK
    <3> QED BY <1>1, <2>2, <3>1, RetainSpares DEF DropEmpty
  <2>3. ASSUME NEW c \in Callers, pc[c] = "select", pc'[c] # "select" PROVE ~closed'[x]
    <3>1. pc' # pc  BY <2>3
    <3>2. PICK d \in Callers : CallerStep(d)
      BY <1>1, <3>1 DEF Next, vars, callVars, Reclaim, DriverEnds, DriverTail, Age, EvictExpired, Shutdown
    <3>3. d = c  BY <1>1, <2>3, <3>2, OnlyOwnPc
    <3> QED BY <1>1, <2>3, <3>2, <3>3, SelectSpares
  <2> QED BY <1>1, <2>1, <2>2, <2>3
<1>2. Typed /\ [Next]_vars =>
        [\A x \in Conns :
           /\ holder[x] # None /\ ~closed[x]
           /\ EvictExpired \/ \E c \in Callers : pc[c] = "select" /\ (pc'[c] # "select" \/ DropEmpty(c))
           => ~closed'[x]]_vars
  BY <1>1
<1>3. Spec => []Typed  BY TypedInit, TypedNext, PTL DEF Spec
<1> QED BY <1>2, <1>3, PTL DEF Spec, IdleEvictionSparesLeases

---------------------------------------------------------------------------
(* Capacity accounting: the reservations of growth dials are exact, and a key  *)
(* holds at most MaxH1 + 1 h1 connections.                                     *)

Dialing(k) == {c \in Callers : key[c] = k /\ pc[c] \in {"dial", "dialed"}}

\* h1_connecting is exact and never exceeds the limit.
ReservationInv ==
  \A k \in Keys : /\ connecting[k] = Cardinality(GrowthDialers(k))
                  /\ connecting[k] <= MaxH1

\* Connections in the pool and on their way into it.
BoundInv ==
  \A k \in Keys :
    Cardinality(H1(entries[k])) + Cardinality(Dialing(k)) <= MaxH1 + 1

CInv == LInv /\ PInv /\ ReservationInv /\ BoundInv

\* What every step but four does: it adds no connection and no dial, and
\* leaves reservations and guards alone.
Shrinks ==
  /\ connecting' = connecting
  /\ \A k \in Keys :
       /\ GrowthDialers(k)' = GrowthDialers(k)
       /\ H1(entries[k])' \subseteq H1(entries[k])
       /\ Dialing(k)' \subseteq Dialing(k)

\* The tasks dialling for a key can be counted.
LEMMA Finite ==
  \A k \in Keys : /\ IsFiniteSet(GrowthDialers(k)) /\ IsFiniteSet(FirstDialers(k))
                  /\ IsFiniteSet(Dialing(k))
                  /\ Cardinality(GrowthDialers(k)) \in Nat
                  /\ Cardinality(FirstDialers(k)) \in Nat
                  /\ Cardinality(Dialing(k)) \in Nat
  BY FS_Subset, FS_CardinalityType DEF GrowthDialers, FirstDialers, Dialing

\* So can the HTTP/1 connections of an entry.
LEMMA FiniteConns ==
  ASSUME TypeOK, NEW k \in Keys
  PROVE  IsFiniteSet(H1(entries[k])) /\ Cardinality(H1(entries[k])) \in Nat
<1>1. H1(entries[k]) \in SUBSET Conns  BY DEF TypeOK, H1
<1> QED BY <1>1, FS_Subset, FS_CardinalityType

\* A step that only shrinks keeps the accounts.
LEMMA ShrinkKeeps == CInv /\ Shrinks => ReservationInv' /\ BoundInv'
<1> SUFFICES ASSUME CInv, Shrinks PROVE ReservationInv' /\ BoundInv'  OBVIOUS
<1>1. ReservationInv'  BY DEF CInv, ReservationInv, Shrinks
<1>2. ASSUME NEW k \in Keys PROVE Cardinality(H1(entries[k])') + Cardinality(Dialing(k)') <= MaxH1 + 1
  <2>1. IsFiniteSet(H1(entries[k])) /\ Cardinality(H1(entries[k])) \in Nat  BY FiniteConns DEF CInv, LInv, Typed
  <2>2. /\ Cardinality(H1(entries[k])') <= Cardinality(H1(entries[k]))
        /\ Cardinality(H1(entries[k])') \in Nat
    BY <2>1, FS_Subset, FS_CardinalityType DEF Shrinks
  <2>3. /\ Cardinality(Dialing(k)') <= Cardinality(Dialing(k))
        /\ Cardinality(Dialing(k)') \in Nat /\ Cardinality(Dialing(k)) \in Nat
    BY Finite, FS_Subset, FS_CardinalityType DEF Shrinks
  <2>4. Cardinality(H1(entries[k])) + Cardinality(Dialing(k)) <= MaxH1 + 1  BY DEF CInv, BoundInv
  <2> QED BY <2>1, <2>2, <2>3, <2>4
<1> QED BY <1>1, <1>2 DEF BoundInv

\* A step of a caller other than registering, reserving, pushing and giving up only shrinks.
LEMMA ShrinkCaller ==
  ASSUME LInv, PInv, NEW c \in Callers, CallerStep(c),
         ~RegisterFirst(c), ~ReserveGrowth(c), ~Push(c), ~Unguard(c)
  PROVE  Shrinks
<1> USE DEF LInv, Typed, TypeOK, ConnInv, KindInv, Shrinks, Dialing, GuardInv, DialPCs,
            PInv, GrowthDialers, FirstDialers, poolVars, notifyVars, connVars,
            callVars, NoConnPCs
<1>1. CASE \E k \in Keys : GetOrConnect(c, k)  BY <1>1 DEF GetOrConnect, H1
<1>2. CASE Acquire(c)  BY <1>2 DEF Acquire, Retain, CloseAndAbort, Kept, H1, CheckOut, AfterCheckOut
<1>3. CASE DropEmpty(c)  BY <1>3 DEF DropEmpty, Retain, CloseAndAbort, Kept, H1
<1>4. CASE DecideQueue(c)  BY <1>4 DEF DecideQueue, Retain, CloseAndAbort, Kept, H1
<1>5. CASE AwaitDial(c)  BY <1>5 DEF AwaitDial, H1
<1>6. CASE DialObserved(c)  BY <1>6 DEF DialObserved, RemoveIfCurrent, H1
<1>7. CASE EnterQueue(c)  BY <1>7 DEF EnterQueue, H1
<1>8. CASE Resume(c)  BY <1>8 DEF Resume, H1
<1>9. CASE LeaseWaitTimeout(c)  BY <1>9 DEF LeaseWaitTimeout, Leave, H1
<1>10. CASE DialOk(c, "h1")  BY <1>10 DEF DialOk, H1
<1>11. CASE DialOk(c, "h2")  BY <1>11 DEF DialOk, H1
<1>12. CASE DialErr(c)  BY <1>12 DEF DialErr, Announced, H1
<1>13. CASE Announce(c)  BY <1>13 DEF Announce, Announced, NotifyWaiters, H1
<1>14. CASE AcquireNew(c)  BY <1>14 DEF AcquireNew, CheckOut, H1
<1>15. CASE NewUnavailable(c)  BY <1>15 DEF NewUnavailable, H1
<1>16. CASE EvictNew(c)  BY <1>16 DEF EvictNew, EvictConn, CloseAndAbort, NotifyWaiters, H1
<1>17. CASE H1Complete(c)  BY <1>17 DEF H1Complete, H1
<1>18. CASE H1Fail(c)  BY <1>18 DEF H1Fail, H1
<1>19. CASE H1Evict(c)  BY <1>19 DEF H1Evict, EvictConn, CloseAndAbort, NotifyWaiters, H1
<1>20. CASE ReleaseLease(c)  BY <1>20 DEF ReleaseLease, NotifyOne, H1
<1>21. CASE UnlockLease(c)  BY <1>21 DEF UnlockLease, Leave, H1
<1>22. CASE CancelUnlock(c)  BY <1>22 DEF CancelUnlock, H1
<1>23. CASE CancelAbort(c)  BY <1>23 DEF CancelAbort, CloseAndAbort, H1, Leave
<1>24. CASE H2Complete(c)  BY <1>24 DEF H2Complete, Leave, H1
<1>25. CASE H2Fail(c)  BY <1>25 DEF H2Fail, H1
<1>26. CASE \E again \in BOOLEAN : H2Evict(c, again)  BY <1>26 DEF H2Evict, CloseAndAbort, NotifyWaiters, H1
<1>27. CASE CancelWaiting(c)  BY <1>27 DEF CancelWaiting, Leave, H1
<1>28. CASE CancelQueued(c)  BY <1>28 DEF CancelQueued, Leave, H1
<1>29. CASE CancelDial(c)  BY <1>29 DEF CancelDial, H1
<1>30. CASE H1Cancel(c)  BY <1>30 DEF H1Cancel, H1
<1>31. CASE H2Cancel(c)  BY <1>31 DEF H2Cancel, Leave, H1
<1> QED BY <1>1, <1>2, <1>3, <1>4, <1>5, <1>6, <1>7, <1>8, <1>9, <1>10, <1>11,
     <1>12, <1>13, <1>14, <1>15, <1>16, <1>17, <1>18, <1>19, <1>20, <1>21,
     <1>22, <1>23, <1>24, <1>25, <1>26, <1>27, <1>28, <1>29, <1>30, <1>31
     DEF CallerStep, PoolStep, ExchangeStep, CancelStep, HeadPhaseTimeout

\* So does every step that is not a caller's: reclaiming, drivers ending, peers.
LEMMA ShrinkEnvironment ==
  ASSUME LInv, Next, ~ \E c \in Callers : CallerStep(c)
  PROVE  Shrinks
<1> USE DEF LInv, Typed, TypeOK, ConnInv, KindInv, Shrinks, Dialing, GuardInv, DialPCs,
            PInv, GrowthDialers, FirstDialers, poolVars, notifyVars, connVars,
            callVars, NoConnPCs
<1>1. CASE Reclaim  BY <1>1 DEF Reclaim, Garbage, FreshChannels, H1
<1>2. CASE \E x \in Conns : DriverEnds(x)  BY <1>2 DEF DriverEnds, H1
<1>3. CASE \E x \in Conns : DriverTail(x)  BY <1>3 DEF DriverTail, NotifyWaiters, H1
<1>4. CASE \E x \in Conns : Age(x)  BY <1>4 DEF Age, H1
<1>5. CASE EvictExpired  BY <1>5 DEF EvictExpired, CloseAndAbort, H1
<1>6. CASE Shutdown  BY <1>6 DEF Shutdown, CloseAndAbort, NotifyWaiters, H1
<1> QED BY <1>1, <1>2, <1>3, <1>4, <1>5, <1>6 DEF Next

\* At most one first dial per key is in flight.
LEMMA OneFirstDial ==
  ASSUME PInv, NEW k \in Keys
  PROVE  Cardinality(FirstDialers(k)) <= 1
<1>1. CASE FirstDialers(k) = {}  BY <1>1, FS_EmptySet
<1>2. ASSUME NEW c \in FirstDialers(k) PROVE Cardinality(FirstDialers(k)) <= 1
  <2>1. FirstDialers(k) = {c}  BY <1>2 DEF PInv, Typed, TypeOK, PendInv, FirstDialers
  <2> QED BY <2>1, FS_Singleton
<1> QED BY <1>1, <1>2

\* Dials not yet in the pool: a growth dial is reserved, a first dial alone.
LEMMA DialsBounded ==
  ASSUME PInv, ReservationInv, NEW k \in Keys
  PROVE  Cardinality(Dialing(k)) <= connecting[k] + Cardinality(FirstDialers(k))
<1>1. Dialing(k) \subseteq GrowthDialers(k) \cup FirstDialers(k)
  BY DEF PInv, Typed, TypeOK, GuardInv, DialPCs, Dialing, GrowthDialers,
         FirstDialers
<1>2. GrowthDialers(k) \cap FirstDialers(k) = {}  BY DEF GrowthDialers, FirstDialers
<1>3. /\ IsFiniteSet(GrowthDialers(k) \cup FirstDialers(k))
      /\ Cardinality(GrowthDialers(k) \cup FirstDialers(k))
           = Cardinality(GrowthDialers(k)) + Cardinality(FirstDialers(k))
  <2>1. /\ IsFiniteSet(GrowthDialers(k) \cup FirstDialers(k))
        /\ Cardinality(GrowthDialers(k) \cup FirstDialers(k))
             = Cardinality(GrowthDialers(k)) + Cardinality(FirstDialers(k))
                 - Cardinality(GrowthDialers(k) \cap FirstDialers(k))
    BY Finite, FS_Union
  <2>2. Cardinality(GrowthDialers(k) \cap FirstDialers(k)) = 0  BY <1>2, FS_EmptySet
  <2> QED BY <2>1, <2>2, Finite
<1>4. Cardinality(Dialing(k))
        <= Cardinality(GrowthDialers(k) \cup FirstDialers(k))
  BY <1>1, <1>3, FS_Subset
<1> QED BY <1>3, <1>4, Finite DEF ReservationInv

\* ReserveGrowth: the capacity check leaves room for the dial and for the one
\* first dial it does not count.
LEMMA GrowthKeeps ==
  ASSUME CInv, NEW c \in Callers, ReserveGrowth(c)
  PROVE  ReservationInv' /\ BoundInv'
<1>0. PICK k \in Keys : k = key[c]  BY DEF CInv, PInv, Typed, TypeOK
<1> USE DEF CInv, PInv, Typed, TypeOK
<1>1. k = key[c] /\ guard[c] = "none" /\ pc[c] = "select"  BY <1>0 DEF ReserveGrowth, GuardInv, DialPCs
<1>2. /\ GrowthDialers(k)' = GrowthDialers(k) \cup {c} /\ c \notin GrowthDialers(k)
      /\ Dialing(k)' = Dialing(k) \cup {c} /\ c \notin Dialing(k)
  BY <1>1 DEF ReserveGrowth, GrowthDialers, Dialing
<1>3. \A l \in Keys \ {k} : /\ GrowthDialers(l)' = GrowthDialers(l)
                            /\ Dialing(l)' = Dialing(l)
                            /\ connecting'[l] = connecting[l]
                            /\ H1(entries[l])' = H1(entries[l])
  BY <1>1 DEF ReserveGrowth, GrowthDialers, Dialing, H1, Retain
<1>4. /\ H1(entries[k])' = H1(Kept(k)) /\ connecting'[k] = connecting[k] + 1
      /\ Cardinality(H1(Kept(k))) + connecting[k] < MaxH1
  BY <1>1 DEF ReserveGrowth, H1, Retain, HasCapacity
<1>5. Cardinality(H1(Kept(k))) \in Nat /\ connecting[k] \in Nat
  <2>1. H1(Kept(k)) \in SUBSET Conns  BY <1>1 DEF H1, Kept
  <2> QED BY <1>1, <2>1, FS_Subset, FS_CardinalityType
<1>6. ReservationInv'
  <2>1. Cardinality(GrowthDialers(k)') = Cardinality(GrowthDialers(k)) + 1
    <3>1. IsFiniteSet(GrowthDialers(k))  BY Finite
    <3>2. Cardinality(GrowthDialers(k) \cup {c}) = Cardinality(GrowthDialers(k)) + 1  BY <1>2, <3>1, FS_AddElement
    <3> QED BY <1>2, <3>2
  <2>2. ASSUME NEW l \in Keys
        PROVE  /\ connecting'[l] = Cardinality(GrowthDialers(l)')
               /\ connecting'[l] <= MaxH1
    <3>1. CASE l = k  BY <1>4, <1>5, <2>1, <3>1 DEF ReservationInv
    <3>2. CASE l # k  BY <1>3, <3>2 DEF ReservationInv
    <3> QED BY <3>1, <3>2
  <2> QED BY <2>2 DEF ReservationInv
<1>7. Cardinality(Dialing(k)') = Cardinality(Dialing(k)) + 1
  <2>1. IsFiniteSet(Dialing(k))  BY Finite
  <2>2. Cardinality(Dialing(k) \cup {c}) = Cardinality(Dialing(k)) + 1  BY <1>2, <2>1, FS_AddElement
  <2> QED BY <1>2, <2>2
<1>8. Cardinality(Dialing(k)) <= connecting[k] + 1  BY <1>1, <1>5, DialsBounded, OneFirstDial, Finite
<1>9. Cardinality(H1(entries[k])') + Cardinality(Dialing(k)') <= MaxH1 + 1  BY <1>1, <1>4, <1>5, <1>7, <1>8, Finite
<1>10. ASSUME NEW l \in Keys PROVE Cardinality(H1(entries[l])') + Cardinality(Dialing(l)') <= MaxH1 + 1
  <2>1. CASE l = k  BY <1>9, <2>1
  <2>2. CASE l # k  BY <1>3, <2>2 DEF BoundInv
  <2> QED BY <2>1, <2>2
<1> QED BY <1>6, <1>10 DEF BoundInv

\* RegisterFirst: the key is empty and no first dial is in flight.
LEMMA RegisterKeeps ==
  ASSUME CInv, NEW c \in Callers, RegisterFirst(c)
  PROVE  ReservationInv' /\ BoundInv'
<1>0. PICK k \in Keys : k = key[c]  BY DEF CInv, PInv, Typed, TypeOK
<1> USE DEF CInv, PInv, Typed, TypeOK
<1>1. k = key[c] /\ guard[c] = "none" /\ pc[c] = "select"  BY <1>0 DEF RegisterFirst, GuardInv, DialPCs
<1>2. /\ \A l \in Keys : GrowthDialers(l)' = GrowthDialers(l)
      /\ connecting' = connecting
      /\ \A l \in Keys : H1(entries[l])' = H1(entries[l])
      /\ \A l \in Keys \ {k} : Dialing(l)' = Dialing(l)
      /\ Dialing(k)' = Dialing(k) \cup {c} /\ c \notin Dialing(k)
  BY <1>1 DEF RegisterFirst, GrowthDialers, Dialing, H1, connVars
<1>3. ReservationInv'  BY <1>2 DEF ReservationInv
<1>4. Cardinality(H1(entries[k])') = 0
  <2>1. H1(entries[k])' = {}  BY <1>1, <1>2 DEF RegisterFirst, H1
  <2> QED BY <2>1, FS_EmptySet
<1>5. Cardinality(FirstDialers(k)) = 0
  <2>1. FirstDialers(k) = {}  BY <1>1 DEF PendInv, RegisterFirst, FirstDialers
  <2> QED BY <2>1, FS_EmptySet
<1>6. Cardinality(Dialing(k)) <= MaxH1  BY <1>1, <1>5, DialsBounded, Finite DEF ReservationInv
<1>7. Cardinality(Dialing(k)') = Cardinality(Dialing(k)) + 1
  <2>1. IsFiniteSet(Dialing(k))  BY Finite
  <2>2. Cardinality(Dialing(k) \cup {c}) = Cardinality(Dialing(k)) + 1  BY <1>2, <2>1, FS_AddElement
  <2> QED BY <1>2, <2>2
<1>8. Cardinality(H1(entries[k])') + Cardinality(Dialing(k)') <= MaxH1 + 1  BY <1>1, <1>4, <1>6, <1>7, Finite
<1>9. ASSUME NEW l \in Keys PROVE Cardinality(H1(entries[l])') + Cardinality(Dialing(l)') <= MaxH1 + 1
  <2>1. CASE l = k  BY <1>8, <2>1
  <2>2. CASE l # k  BY <1>2, <2>2 DEF BoundInv
  <2> QED BY <2>1, <2>2
<1> QED BY <1>3, <1>9 DEF BoundInv

\* Push: a dial becomes a connection of the pool.
LEMMA PushKeeps ==
  ASSUME CInv, NEW c \in Callers, Push(c)
  PROVE  ReservationInv' /\ BoundInv'
<1>0. PICK k \in Keys : k = key[c]  BY DEF CInv, PInv, Typed, TypeOK
<1> USE DEF CInv, PInv, Typed, TypeOK
<1>1. k = key[c] /\ pc[c] = "dialed" /\ c \in Dialing(k)  BY <1>0 DEF Push, Dialing
<1>2. /\ \A l \in Keys : GrowthDialers(l)' = GrowthDialers(l)
      /\ connecting' = connecting
      /\ \A l \in Keys \ {k} : /\ H1(entries[l])' = H1(entries[l])
                               /\ Dialing(l)' = Dialing(l)
      /\ Dialing(k)' = Dialing(k) \ {c}
      /\ H1(entries[k])' \subseteq H1(entries[k]) \cup {conn[c]}
  BY <1>1 DEF Push, GrowthDialers, Dialing, H1, connVars
<1>3. ReservationInv'  BY <1>2 DEF ReservationInv
<1>4. IsFiniteSet(H1(entries[k])) /\ Cardinality(H1(entries[k])) \in Nat  BY <1>1, FiniteConns
<1>5. /\ IsFiniteSet(H1(entries[k]) \cup {conn[c]})
      /\ Cardinality(H1(entries[k]) \cup {conn[c]})
           <= Cardinality(H1(entries[k])) + 1
  <2>1. /\ IsFiniteSet(H1(entries[k]) \cup {conn[c]})
        /\ Cardinality(H1(entries[k]) \cup {conn[c]}) =
             IF conn[c] \in H1(entries[k]) THEN Cardinality(H1(entries[k]))
             ELSE Cardinality(H1(entries[k])) + 1
    BY <1>4, FS_AddElement
  <2> QED BY <1>4, <2>1
<1>6. /\ Cardinality(H1(entries[k])') <= Cardinality(H1(entries[k])) + 1
      /\ Cardinality(H1(entries[k])') \in Nat
  <2>1. /\ IsFiniteSet(H1(entries[k])')
        /\ Cardinality(H1(entries[k])')
             <= Cardinality(H1(entries[k]) \cup {conn[c]})
    BY <1>2, <1>5, FS_Subset
  <2> QED BY <1>4, <1>5, <2>1, FS_CardinalityType
<1>7. Cardinality(Dialing(k)') = Cardinality(Dialing(k)) - 1
  <2>1. IsFiniteSet(Dialing(k))  BY Finite
  <2>2. Cardinality(Dialing(k) \ {c}) = Cardinality(Dialing(k)) - 1  BY <1>1, <2>1, FS_RemoveElement
  <2> QED BY <1>2, <2>2
<1>8. Cardinality(H1(entries[k])) + Cardinality(Dialing(k)) <= MaxH1 + 1  BY <1>1 DEF BoundInv
<1>9. Cardinality(H1(entries[k])') + Cardinality(Dialing(k)') <= MaxH1 + 1  BY <1>1, <1>4, <1>6, <1>7, <1>8, Finite
<1>10. ASSUME NEW l \in Keys PROVE Cardinality(H1(entries[l])') + Cardinality(Dialing(l)') <= MaxH1 + 1
  <2>1. CASE l = k  BY <1>9, <2>1
  <2>2. CASE l # k  BY <1>2, <2>2 DEF BoundInv
  <2> QED BY <2>1, <2>2
<1> QED BY <1>3, <1>10 DEF BoundInv

\* Unguard: a growth dial returns its reservation, a first dial has none.
LEMMA UnguardKeeps ==
  ASSUME CInv, NEW c \in Callers, Unguard(c)
  PROVE  ReservationInv' /\ BoundInv'
<1>0. PICK k \in Keys : k = key[c]  BY DEF CInv, PInv, Typed, TypeOK
<1> USE DEF CInv, PInv, Typed, TypeOK
<1>1. /\ k = key[c]
      /\ \A l \in Keys : H1(entries[l])' = H1(entries[l])
      /\ \A l \in Keys : Dialing(l)' = Dialing(l)
  BY <1>0 DEF Unguard, H1, Dialing, connVars, AfterCheckOut
<1>2. BoundInv'  BY <1>1 DEF BoundInv
<1>3. CASE guard[c] = "first"
  <2>1. connecting' = connecting
        /\ \A l \in Keys : GrowthDialers(l)' = GrowthDialers(l)
    BY <1>3 DEF Unguard, GrowthDialers
  <2> QED BY <1>2, <2>1 DEF ReservationInv
<1>4. CASE guard[c] = "growth"
  <2>1. /\ \A l \in Keys \ {k} : /\ GrowthDialers(l)' = GrowthDialers(l)
                                 /\ connecting'[l] = connecting[l]
        /\ GrowthDialers(k)' = GrowthDialers(k) \ {c} /\ c \in GrowthDialers(k)
        /\ connecting'[k] = IF connecting[k] = 0 THEN 0 ELSE connecting[k] - 1
    BY <1>1, <1>4 DEF Unguard, GrowthDialers, ReturnReservation
  <2>2. Cardinality(GrowthDialers(k)') = Cardinality(GrowthDialers(k)) - 1
    <3>1. IsFiniteSet(GrowthDialers(k))  BY Finite
    <3>2. Cardinality(GrowthDialers(k) \ {c}) = Cardinality(GrowthDialers(k)) - 1  BY <2>1, <3>1, FS_RemoveElement
    <3> QED BY <2>1, <3>2
  <2>3. Cardinality(GrowthDialers(k)) # 0  BY <1>1, <2>1, Finite, FS_EmptySet
  <2>4. /\ connecting'[k] = Cardinality(GrowthDialers(k)')
        /\ connecting'[k] <= MaxH1
    BY <1>1, <2>1, <2>2, <2>3, Finite DEF ReservationInv
  <2>5. ASSUME NEW l \in Keys
        PROVE  /\ connecting'[l] = Cardinality(GrowthDialers(l)')
               /\ connecting'[l] <= MaxH1
    <3>1. CASE l = k  BY <2>4, <3>1
    <3>2. CASE l # k  BY <2>1, <3>2 DEF ReservationInv
    <3> QED BY <3>1, <3>2
  <2> QED BY <1>2, <2>5 DEF ReservationInv
<1> QED BY <1>3, <1>4 DEF Unguard

\* An empty pool keeps both accounts.
LEMMA CapacityInit == Init => ReservationInv /\ BoundInv
<1> SUFFICES ASSUME Init, NEW k \in Keys
             PROVE  /\ connecting[k] = Cardinality(GrowthDialers(k))
                    /\ connecting[k] <= MaxH1
                    /\ Cardinality(H1(entries[k])) + Cardinality(Dialing(k))
                         <= MaxH1 + 1
  BY DEF ReservationInv, BoundInv
<1>1. GrowthDialers(k) = {} /\ H1(entries[k]) = {} /\ Dialing(k) = {}  BY DEF Init, GrowthDialers, H1, Dialing
<1>2. connecting[k] = 0 /\ Cardinality({}) = 0  BY FS_EmptySet DEF Init
<1> QED BY <1>1, <1>2

\* Every step of the pool keeps both accounts.
LEMMA CapacityNext == CInv /\ [Next]_vars => ReservationInv' /\ BoundInv'
<1> SUFFICES ASSUME CInv, [Next]_vars PROVE ReservationInv' /\ BoundInv'  OBVIOUS
<1>1. CASE UNCHANGED vars  BY <1>1 DEF vars, CInv, ReservationInv, BoundInv, GrowthDialers, Dialing, H1
<1>2. ASSUME NEW c \in Callers, CallerStep(c) PROVE ReservationInv' /\ BoundInv'
  BY <1>2, ShrinkCaller, ShrinkKeeps, GrowthKeeps, RegisterKeeps, PushKeeps,
     UnguardKeeps DEF CInv
<1>3. CASE Next /\ ~ \E c \in Callers : CallerStep(c)  BY <1>3, ShrinkEnvironment, ShrinkKeeps DEF CInv
<1> QED BY <1>1, <1>2, <1>3

\* Both accounts hold throughout.
LEMMA CapacityInvariant == Spec => []CInv
<1>1. Init => ReservationInv /\ BoundInv  BY CapacityInit
<1>2. LInv /\ PInv /\ ReservationInv /\ BoundInv /\ [Next]_vars
        => (ReservationInv /\ BoundInv)'
  BY CapacityNext DEF CInv
<1>3. Spec => [](ReservationInv /\ BoundInv)  BY <1>1, <1>2, LeaseInvariant, PendInvariant, PTL DEF Spec
<1> QED BY <1>3, LeaseInvariant, PendInvariant, PTL DEF CInv

\* The reservations of growth dials are exact on every path.
THEOREM ReservationsExact == Spec => []ReservationsMatchDials
<1>1. CInv => ReservationsMatchDials  BY DEF CInv, ReservationInv, ReservationsMatchDials
<1> QED BY <1>1, CapacityInvariant, PTL

\* A key never holds more than MaxH1 + 1 HTTP/1.1 connections.
THEOREM PoolIsBounded == Spec => []PoolBounded
<1>1. ASSUME CInv, NEW k \in Keys PROVE Cardinality(H1(entries[k])) <= MaxH1 + 1
  <2>1. Cardinality(H1(entries[k])) \in Nat /\ Cardinality(Dialing(k)) \in Nat  BY <1>1, FiniteConns, Finite DEF CInv, LInv, Typed
  <2>2. Cardinality(H1(entries[k])) + Cardinality(Dialing(k)) <= MaxH1 + 1  BY <1>1 DEF CInv, BoundInv
  <2> QED BY <2>1, <2>2
<1>2. CInv => PoolBounded  BY <1>1 DEF PoolBounded
<1> QED BY <1>2, CapacityInvariant, PTL

---------------------------------------------------------------------------
(* WebSocket. *)

SentOps == {"text", "cont", "ping", "close", "bad"} \cup {q.op : q \in Injects}
SentFrames == [op : SentOps, n : Nat, by : {"peer", "user", "proxy"}, masked : BOOLEAN]
Messages == [op : SentOps, fin : BOOLEAN \cup {q.fin : q \in Injects}, body : Seq(Nat), truncated : BOOLEAN]
Assemblers == [start : {"none", "text"}, buffer : Seq(Nat), truncated : BOOLEAN]

\* Of the stream q of a side m frames were taken: what was read since is staged, piece by piece.
PieceOf(j) == <<(j + 1) \div 2, 2 - (j % 2)>>
StagedFits(q, m, n, buf) ==
  /\ n \in Nat /\ 2 * m <= n /\ n <= 2 * Len(q) /\ buf \in Seq(Nat \X Nat) /\ Len(buf) = n - 2 * m
  /\ \A i \in 1..Len(buf) : buf[i] = PieceOf(2 * m + i)

\* What was sent on are frames taken, in order and none left out; all of them while the side is relayed.
PeerPlaces(d) == {i \in 1..Len(d) : d[i].by = "peer"}
SentFits(q, m, open, d) ==
  /\ \A i \in PeerPlaces(d) : d[i].n \in 1..m /\ d[i].op = q[d[i].n].op
  /\ \A i, j \in PeerPlaces(d) : j < i => d[j].n < d[i].n
  /\ \A i \in PeerPlaces(d) : \A k \in 1..(d[i].n - 1) : \E j \in PeerPlaces(d) : j < i /\ d[j].n = k
  /\ open => \A k \in 1..m : \E j \in PeerPlaces(d) : d[j].n = k

\* The data frames of a stream, those of a message under way, and what was gathered of them.
DataOf(q) == {i \in DOMAIN q : q[i].op \in {"text", "cont"}}
OpenAt(q, i) == \E j \in DataOf(q) : j < i /\ ~q[j].fin /\ \A k \in DataOf(q) : j < k /\ k < i => ~q[k].fin
Span(q, from, m) == {i \in DataOf(q) : from <= i /\ i <= m}
Gathered(S, body, cut) ==
  /\ \A k \in 1..Len(body) : body[k] \in S /\ (k > 1 => body[k] > body[k - 1])
  /\ cut <=> Cardinality(S) > AssemblyCap
  /\ Len(body) = IF cut THEN AssemblyCap ELSE Cardinality(S)
UnderWay(q, from, m, a) ==
  /\ from \in DataOf(q) /\ from <= m /\ q[from].op = "text" /\ ~q[from].fin
  /\ \A k \in DataOf(q) : from < k /\ k <= m => q[k].op = "cont" /\ ~q[k].fin
  /\ Gathered(Span(q, from, m), a.buffer, a.truncated)
AssemblerFits(q, m, a) ==
  /\ a \in Assemblers
  /\ WellFormed(q) =>
       /\ a.start = "none" => a = Idle /\ ~OpenAt(q, m + 1)
       /\ a.start = "text" => \E from \in DataOf(q) : UnderWay(q, from, m, a)

\* A captured final fragment has its message.
WholeFits(q, c) ==
  (c.op = "text" /\ c.fin /\ Len(c.body) > 0 /\ c.body[1] > 0) =>
    \E j \in DOMAIN q :
      /\ q[j].fin /\ q[j].op \in {"text", "cont"} /\ Gathered(MessageOf(q, j), c.body, c.truncated)
CapturedFits(q, c) == c \in Seq(Messages) /\ (WellFormed(q) => \A i \in 1..Len(c) : WholeFits(q, c[i]))

SideFits(q, n, buf, open, d, a) == \E m \in 0..Len(q) : StagedFits(q, m, n, buf) /\ SentFits(q, m, open, d) /\ AssemblerFits(q, m, a)

\* What a side is sent is masked toward the upstream; the proxy's own frame follows a bad one.
DeliveredFits(s, d, streams) ==
  /\ d \in Seq(SentFrames) /\ \A i \in 1..Len(d) : d[i].masked <=> s = "upstream"
  /\ (\A t \in Sides : \A i \in DOMAIN streams[t] : streams[t][i].op # "bad") => \A i \in 1..Len(d) : d[i].by # "proxy"

\* A side that is still relayed, or will be.
Relayed(phase) == phase \in {"dialing", "head", "recording", "spawned", "relaying"}

RelayFits(streams, phase, n, buf, over, d, a, c) ==
  /\ \A s \in Sides : streams[s] \in Seq(Frames)
  /\ n = [s \in Sides |-> n[s]] /\ buf = [s \in Sides |-> buf[s]] /\ over \in [Sides -> BOOLEAN]
  /\ d = [s \in Sides |-> d[s]] /\ a = [s \in Sides |-> a[s]] /\ c = [s \in Sides |-> c[s]]
  /\ \A s \in Sides :
       /\ SideFits(streams[s], n[s], buf[s], Relayed(phase) /\ ~over[s], d[Other(s)], a[s])
       /\ CapturedFits(streams[s], c[s]) /\ DeliveredFits(s, d[s], streams)

\* The outcome of the upgrade in each phase.
BodyIsAnswered(h, r, body) ==
  LET bytes == IF h.framing = "chunked" THEN Chunked(r.chunks) ELSE r.leftover \o r.rest
      whole == \/ h.framing = "length" /\ Len(bytes) >= h.total
               \/ h.framing = "close" /\ r.end = "eof"
               \/ h.framing = "chunked" /\ \E i \in DOMAIN r.chunks : r.chunks[i].kind = "last"
      size  == IF h.framing = "length" THEN h.total ELSE Len(bytes)
  IN /\ body = Firsts(bytes, Len(body)) /\ Len(body) <= size
     /\ whole => Len(body) = IF size < BodyCap THEN size ELSE BodyCap
PhaseInv(phase, h, r, ans, rec, permit1, reg, ui) ==
  /\ phase \in {"dialing", "head", "recording"} => rec = <<>> /\ ans.status = 0
  /\ phase \in {"dialing", "head", "answered"} => reg = "none" /\ ui = "none"
  /\ phase = "recording" => h.status = 101
  /\ phase \in {"recording", "spawned", "relaying", "stuck"} => reg = "active" /\ ui = "active"
  /\ phase \in {"spawned", "relaying", "closing", "stuck", "gone"} => rec = <<101>> /\ ans.status = 101
  /\ phase = "closing" => reg \in {"active", "closed"} /\ (reg = "closed" => ui = "closed")
  /\ phase = "gone" => reg = "none" /\ ui = "closed"
  /\ phase = "abandoned" => rec = <<499>> /\ ans.status = 0
  /\ phase = "answered" =>
       /\ rec = <<ans.status>> /\ ans.status # 101 /\ ~ans.as.connection
       /\ ans.as.status # 0 /\ h.status # 101 => BodyIsAnswered(h, r, ans.body)
  /\ phase \in {"dialing", "head", "recording", "answered", "spawned", "relaying", "closing", "stuck", "gone", "abandoned"}
  /\ permit1 <=> phase \in {"recording", "spawned", "relaying", "closing", "stuck"}
HeadFits(h) == ~h.ext /\ h.framing \in {"length", "chunked", "close"} /\ h.total \in Nat

WebSocketInv ==
  /\ wsAsked \in WsCases /\ HeadFits(head) /\ injectQueue \in Seq(Injects)
  /\ upg = "head" => head.status # 0 /\ head = [status |-> head.status, connection |-> head.connection, upgrade |-> head.upgrade,
       accept |-> head.accept, ext |-> head.ext, legal |-> head.legal, framing |-> head.framing, total |-> head.total]
  /\ PhaseInv(upg, head, wsAsked.refusal, answer, record, relayPermit, registry, uiStatus)
  /\ RelayFits(wsAsked.streams, upg, taken, staged, doneSide, delivered, assembler, captured)

\* The first bytes of a body.
LEMMA FirstsIs ==
  ASSUME NEW s \in Seq(Nat), NEW n \in Nat, NEW b, b = Firsts(s, n)
  PROVE  b \in Seq(Nat) /\ Len(b) = (IF Len(s) < n THEN Len(s) ELSE n) /\ b = Firsts(s, Len(b))
<1>1. PICK l \in Nat : l = Len(s)  OBVIOUS
<1>2. PICK k \in Nat : k = IF l < n THEN l ELSE n  OBVIOUS
<1>3. k <= l  BY <1>2
<1>4. b = SubSeq(s, 1, k)  BY <1>1, <1>2 DEF Firsts
<1>5. b \in Seq(Nat) /\ Len(b) = k  BY <1>1, <1>3, <1>4, SubSeqProperties
<1>6. Firsts(s, k) = SubSeq(s, 1, k)
  <2>1. (IF l < k THEN l ELSE k) = k  BY <1>3
  <2> QED  BY <1>1, <2>1 DEF Firsts
<1> QED  BY <1>1, <1>2, <1>4, <1>5, <1>6

\* A set that holds 0 and the successor of each of its members holds every number.
LEMMA NumbersFollow ==
  ASSUME NEW N \in Nat, NEW S, 0 \in S, \A n \in 0..N - 1 : n \in S => n + 1 \in S
  PROVE  0..N \subseteq S
<1>1. PICK E : E = {n \in Nat : n <= N /\ n \notin S}  OBVIOUS
<1>2. SUFFICES ASSUME E # {} PROVE FALSE  BY <1>1
<1>3. PICK x \in E : \A y \in E : ~(<<y, x>> \in OpToRel(<, Nat))  BY <1>1, <1>2, WFMin, NatLessThanWellFounded
<1>4. \A y \in E : ~(y < x)  BY <1>1, <1>3 DEF OpToRel
<1>5. x # 0 /\ x - 1 \in Nat /\ x - 1 \notin E  BY <1>1, <1>4
<1> QED  BY <1>1, <1>5

IsJoined(F, chunks) == F = [i \in 0..Len(chunks) |-> IF i = 0 THEN <<>> ELSE F[i - 1] \o chunks[i].bytes]
JoinedUpto(F, chunks, n) ==
  F \in [0..n -> Seq(Nat)] /\ F[0] = <<>> /\ \A i \in 1..n : F[i] = F[i - 1] \o chunks[i].bytes

\* The function by which chunks are joined exists.
LEMMA JoinedExists ==
  ASSUME NEW chunks \in Seq(Chunks)
  PROVE  \E F : JoinedUpto(F, chunks, Len(chunks))
<1>1. PICK N \in Nat : N = Len(chunks)  OBVIOUS
<1>2. PICK S : S = {n \in Nat : \E F : JoinedUpto(F, chunks, n)}  OBVIOUS
<1>3. 0 \in S
  <2>1. PICK F : F = [i \in 0..0 |-> <<>>]  OBVIOUS
  <2>2. F \in [0..0 -> Seq(Nat)] /\ F[0] = <<>> /\ 1..0 = {}  BY <2>1
  <2>3. JoinedUpto(F, chunks, 0)  BY <2>2 DEF JoinedUpto
  <2> QED  BY <1>2, <2>3
<1>4. ASSUME NEW n \in 0..N - 1, n \in S PROVE n + 1 \in S
  <2>1. n \in Nat /\ n + 1 \in Nat /\ n + 1 \in 1..N  BY <1>4
  <2>2. PICK F : JoinedUpto(F, chunks, n)  BY <1>2, <1>4
  <2>3. PICK v : v = chunks[n + 1].bytes  OBVIOUS
  <2>4. v \in Seq(Nat)
    <3>1. PICK C : C = Chunks  OBVIOUS
    <3>2. chunks[n + 1] \in C  BY <1>1, <2>1, <3>1, ElementOfSeq
    <3>3. PICK B : B = Seq(Nat)  OBVIOUS
    <3> QED  BY <2>3, <3>1, <3>2, <3>3 DEF Chunks
  <2>5. PICK w : w = F[n] \o v  OBVIOUS
  <2>6. F \in [0..n -> Seq(Nat)] /\ F[0] = <<>> /\ \A i \in 1..n : F[i] = F[i - 1] \o chunks[i].bytes  BY <2>2 DEF JoinedUpto
  <2>7. w \in Seq(Nat)
    <3>1. F[n] \in Seq(Nat)  BY <2>1, <2>6
    <3> QED  BY <2>4, <2>5, <3>1, ConcatProperties
  <2>8. PICK B : B = Seq(Nat)  OBVIOUS
  <2>9. PICK G : G = [i \in 0..(n + 1) |-> IF i = n + 1 THEN w ELSE F[i]]  OBVIOUS
  <2>10. G \in [0..(n + 1) -> B] /\ G[n + 1] = w /\ \A i \in 0..n : G[i] = F[i]  BY <2>1, <2>6, <2>7, <2>8, <2>9
  <2>11. G[0] = <<>>  BY <2>1, <2>6, <2>10
  <2>12. ASSUME NEW i \in 1..(n + 1) PROVE G[i] = G[i - 1] \o chunks[i].bytes
    <3>1. CASE i = n + 1
      <4>1. i - 1 = n /\ n \in 0..n  BY <2>1, <3>1
      <4> QED  BY <2>3, <2>5, <2>10, <3>1, <4>1
    <3>2. CASE i # n + 1
      <4>1. i \in 1..n /\ i \in 0..n /\ i - 1 \in 0..n  BY <2>1, <3>2
      <4> QED  BY <2>6, <2>10, <4>1
    <3> QED  BY <3>1, <3>2
  <2>13. JoinedUpto(G, chunks, n + 1)  BY <2>8, <2>10, <2>11, <2>12 DEF JoinedUpto
  <2> QED  BY <1>2, <2>1, <2>13
<1>5. 0..N \subseteq S
  <2>1. \A n \in 0..N - 1 : n \in S => n + 1 \in S  BY <1>4
  <2> QED  BY <1>3, <2>1, NumbersFollow
<1>6. N \in S  BY <1>5
<1> QED  BY <1>1, <1>2, <1>6

\* What is joined are bytes.
LEMMA JoinedIs ==
  ASSUME NEW chunks \in Seq(Chunks), NEW n \in 0..Len(chunks)
  PROVE  Joined(chunks, n) \in Seq(Nat)
<1> DEFINE F == CHOOSE G : IsJoined(G, chunks)
<1>1. Joined(chunks, n) = F[n]  BY DEF Joined, IsJoined
<1>2. PICK G : JoinedUpto(G, chunks, Len(chunks))  BY JoinedExists
<1>3. PICK N \in Nat : N = Len(chunks)  OBVIOUS
<1>4. G \in [0..N -> Seq(Nat)] /\ G[0] = <<>> /\ \A i \in 1..N : G[i] = G[i - 1] \o chunks[i].bytes  BY <1>2, <1>3 DEF JoinedUpto
<1>5. IsJoined(G, chunks)
  <2>1. PICK H : H = [i \in 0..N |-> IF i = 0 THEN <<>> ELSE G[i - 1] \o chunks[i].bytes]  OBVIOUS
  <2>2. ASSUME NEW i \in 0..N PROVE G[i] = H[i]
    <3>1. CASE i = 0  BY <1>4, <2>1, <3>1
    <3>2. CASE i # 0
      <4>1. i \in 1..N  BY <3>2
      <4> QED  BY <1>4, <2>1, <3>2, <4>1
    <3> QED  BY <3>1, <3>2
  <2>3. DOMAIN G = 0..N /\ G = [i \in 0..N |-> G[i]]  BY <1>4
  <2>4. G = H  BY <2>1, <2>2, <2>3
  <2> QED  BY <1>3, <2>1, <2>4 DEF IsJoined
<1>6. IsJoined(F, chunks)
  <2>1. \E H : IsJoined(H, chunks)  BY <1>5
  <2> QED  BY <2>1, Zenon
<1> HIDE DEF F
<1>7. F = [i \in 0..N |-> IF i = 0 THEN <<>> ELSE F[i - 1] \o chunks[i].bytes]  BY <1>3, <1>6 DEF IsJoined
<1>8. PICK S : S = {k \in Nat : k <= N => F[k] = G[k]}  OBVIOUS
<1>9. 0 \in S
  <2>1. F[0] = <<>>  BY <1>7
  <2> QED  BY <1>4, <1>8, <2>1
<1>10. ASSUME NEW k \in 0..N - 1, k \in S PROVE k + 1 \in S
  <2>1. k \in Nat /\ k + 1 \in 1..N /\ k + 1 \in 0..N /\ k + 1 # 0 /\ (k + 1) - 1 = k /\ F[k] = G[k]  BY <1>8, <1>10
  <2>2. PICK j : j = k + 1  OBVIOUS
  <2>3. F[j] = F[j - 1] \o chunks[j].bytes  BY <1>7, <2>1, <2>2
  <2>4. G[j] = G[j - 1] \o chunks[j].bytes  BY <1>4, <2>1, <2>2
  <2>5. j - 1 = k  BY <2>1, <2>2
  <2>6. F[j] = G[j]  BY ONLY <2>1, <2>3, <2>4, <2>5
  <2>7. j \in Nat  BY <2>1, <2>2
  <2> QED  BY ONLY <1>8, <2>2, <2>6, <2>7
<1>11. 0..N \subseteq S
  <2>1. \A k \in 0..N - 1 : k \in S => k + 1 \in S  BY <1>10
  <2> QED  BY <1>9, <2>1, NumbersFollow
<1>12. n \in 0..N /\ n \in S  BY <1>3, <1>11
<1>13. F[n] = G[n]  BY <1>8, <1>12
<1> QED  BY <1>1, <1>4, <1>12, <1>13

\* The chunks before the first that is no data, counted as the reader counts them.
LEMMA ChunkedIs ==
  ASSUME NEW chunks \in Seq(Chunks), NEW whole, whole = {i \in DOMAIN chunks : \A j \in 1..i : ensure_bytes(chunks[j])},
         NEW n, n = Cardinality(whole)
  PROVE  n \in 0..Len(chunks) /\ Chunked(chunks) = Joined(chunks, n)
<1>1. PICK N \in Nat : N = Len(chunks) /\ DOMAIN chunks = 1..N  OBVIOUS
<1>2. PICK K : K = [i \in 1..N |-> chunks[i].kind]  OBVIOUS
<1>3. whole = {i \in 1..N : \A j \in 1..i : K[j] = "data"}
  <2>1. ASSUME NEW i \in 1..N, NEW j \in 1..i PROVE ensure_bytes(chunks[j]) <=> K[j] = "data"
    <3>1. j \in 1..N  OBVIOUS
    <3> QED  BY <1>2, <3>1 DEF ensure_bytes
  <2> QED  BY <1>1, <2>1
<1>4. PICK T : T = {m \in Nat : m <= N => (m \in 0..N /\ (\A j \in 1..m : K[j] = "data")) \/ \E i \in 1..m : K[i] # "data" /\ \A j \in 1..(i - 1) : K[j] = "data"}
  OBVIOUS
<1>5. 0 \in T  BY <1>4
<1>6. ASSUME NEW m \in 0..N - 1, m \in T PROVE m + 1 \in T
  <2>1. m \in Nat /\ m + 1 \in Nat /\ m <= N /\ m + 1 \in 0..N  BY <1>6
  <2>2. CASE \A j \in 1..m : K[j] = "data"
    <3>1. CASE K[m + 1] = "data"
      <4>1. \A j \in 1..(m + 1) : K[j] = "data"  BY <2>1, <2>2, <3>1
      <4> QED  BY <1>4, <2>1, <4>1
    <3>2. CASE K[m + 1] # "data"
      <4>1. m + 1 \in 1..(m + 1) /\ 1..((m + 1) - 1) = 1..m  BY <2>1
      <4>2. \E i \in 1..(m + 1) : K[i] # "data" /\ \A j \in 1..(i - 1) : K[j] = "data"  BY <2>2, <3>2, <4>1
      <4> QED  BY <1>4, <2>1, <4>2
    <3> QED  BY <3>1, <3>2
  <2>3. CASE \E i \in 1..m : K[i] # "data" /\ \A j \in 1..(i - 1) : K[j] = "data"
    <3>1. PICK i \in 1..m : K[i] # "data" /\ \A j \in 1..(i - 1) : K[j] = "data"  BY <2>3
    <3>2. i \in 1..(m + 1)  BY <2>1
    <3> QED  BY <1>4, <2>1, <3>1, <3>2
  <2> QED  BY <1>4, <1>6, <2>1, <2>2, <2>3
<1>7. N \in T
  <2>1. \A m \in 0..N - 1 : m \in T => m + 1 \in T  BY <1>6
  <2>2. 0..N \subseteq T  BY <1>5, <2>1, NumbersFollow
  <2> QED  BY <2>2
<1>8. PICK m \in 0..N : (\A j \in 1..m : K[j] = "data") /\ (m = N \/ K[m + 1] # "data")
  <2>1. CASE \A j \in 1..N : K[j] = "data"  BY <2>1
  <2>2. CASE \E i \in 1..N : K[i] # "data" /\ \A j \in 1..(i - 1) : K[j] = "data"
    <3>1. PICK i \in 1..N : K[i] # "data" /\ \A j \in 1..(i - 1) : K[j] = "data"  BY <2>2
    <3>2. PICK k \in 0..N : k = i - 1  OBVIOUS
    <3>3. k + 1 = i  BY <3>2
    <3> QED  BY <3>1, <3>2, <3>3
  <2> QED  BY <1>4, <1>7, <2>1, <2>2
<1>9. ASSUME NEW k \in 0..N, (\A j \in 1..k : K[j] = "data") /\ (k = N \/ K[k + 1] # "data") PROVE k = m
  <2>1. CASE k < m
    <3>1. k + 1 \in 1..m /\ k # N  BY <2>1
    <3> QED  BY <1>8, <1>9, <3>1
  <2>2. CASE m < k
    <3>1. m + 1 \in 1..k /\ m # N  BY <2>2
    <3> QED  BY <1>8, <1>9, <3>1
  <2> QED  BY <2>1, <2>2
<1>10. (CHOOSE k \in 0..Len(chunks) : (\A j \in 1..k : chunks[j].kind = "data") /\ (k = Len(chunks) \/ chunks[k + 1].kind # "data")) = m
  <2>1. ASSUME NEW k \in 0..N
        PROVE  ((\A j \in 1..k : chunks[j].kind = "data") /\ (k = N \/ chunks[k + 1].kind # "data"))
               <=> ((\A j \in 1..k : K[j] = "data") /\ (k = N \/ K[k + 1] # "data"))
    <3>1. \A j \in 1..k : chunks[j].kind = K[j]  BY <1>2
    <3>2. k # N => chunks[k + 1].kind = K[k + 1]  BY <1>2
    <3> QED  BY <3>1, <3>2
  <2>2. ASSUME NEW k \in 0..N PROVE ((\A j \in 1..k : chunks[j].kind = "data") /\ (k = N \/ chunks[k + 1].kind # "data")) <=> k = m
    BY <1>8, <1>9, <2>1
  <2> QED  BY <1>1, <1>8, <2>2
<1>11. Chunked(chunks) = Joined(chunks, m)  BY <1>10 DEF Chunked
<1>12. whole = 1..m
  <2>1. ASSUME NEW i \in 1..m PROVE i \in whole
    <3>1. i \in 1..N /\ \A j \in 1..i : j \in 1..m  OBVIOUS
    <3> QED  BY <1>3, <1>8, <3>1
  <2>2. ASSUME NEW i \in whole PROVE i \in 1..m
    <3>1. i \in 1..N /\ \A j \in 1..i : K[j] = "data"  BY <1>3
    <3>2. CASE i > m
      <4>1. m + 1 \in 1..i /\ m # N  BY <3>1, <3>2
      <4> QED  BY <1>8, <3>1, <4>1
    <3> QED  BY <3>1, <3>2
  <2> QED  BY <2>1, <2>2
<1>13. n = m
  <2>1. m \in Int /\ 1 \in Int /\ m \in Nat  OBVIOUS
  <2>2. Cardinality(1..m) = IF 1 > m THEN 0 ELSE m - 1 + 1  BY <2>1, FS_Interval
  <2>3. Cardinality(1..m) = m  BY <2>1, <2>2
  <2> QED  BY <1>12, <2>3
<1> QED  BY <1>1, <1>11, <1>13

\* A body that was read is handed on as it was sent, up to the cap.
LEMMA BodyReadIs ==
  ASSUME NEW h, HeadFits(h), NEW r, r.leftover \in Seq(Nat), r.rest \in Seq(Nat), r.chunks \in Seq(Chunks),
         NEW b, b = read_full_response_body(h, r).bytes
  PROVE  BodyIsAnswered(h, r, b)
<1>0. BodyCap \in Nat  BY WebSocketAssumption
<1>1. PICK all : all = r.leftover \o r.rest  OBVIOUS
<1>2. all \in Seq(Nat)  BY <1>1, ConcatProperties
<1>3. CASE h.framing = "length"
  <2>1. PICK t \in Nat : t = h.total  BY DEF HeadFits
  <2>2. PICK n \in Nat : n = IF t < BodyCap THEN t ELSE BodyCap  BY <1>0
  <2>3. b = Firsts(all, n)
    BY <1>1, <1>3, <2>1, <2>2 DEF read_full_response_body, parse_response_body_framing, read_length_delimited_body, Read
  <2>4. b \in Seq(Nat) /\ Len(b) = (IF Len(all) < n THEN Len(all) ELSE n) /\ b = Firsts(all, Len(b))
    BY <1>2, <2>2, <2>3, FirstsIs
  <2>5. PICK l \in Nat : l = Len(all)  BY <1>2
  <2>6. Len(b) <= t /\ (l >= t => Len(b) = IF t < BodyCap THEN t ELSE BodyCap)  BY <1>0, <2>2, <2>4, <2>5
  <2> QED  BY <1>1, <1>3, <2>1, <2>4, <2>5, <2>6 DEF BodyIsAnswered
<1>4. CASE h.framing = "close"
  <2>3. b = Firsts(all, BodyCap)
    BY <1>1, <1>4 DEF read_full_response_body, parse_response_body_framing, read_until_close_body, Read
  <2>4. b \in Seq(Nat) /\ Len(b) = (IF Len(all) < BodyCap THEN Len(all) ELSE BodyCap) /\ b = Firsts(all, Len(b))
    BY <1>0, <1>2, <2>3, FirstsIs
  <2>5. PICK l \in Nat : l = Len(all)  BY <1>2
  <2>6. Len(b) <= l /\ Len(b) = IF l < BodyCap THEN l ELSE BodyCap  BY <1>0, <2>4, <2>5
  <2> QED  BY <1>1, <1>4, <2>4, <2>5, <2>6 DEF BodyIsAnswered
<1>5. CASE h.framing = "chunked"
  <2>1. PICK chunks : chunks = r.chunks  OBVIOUS
  <2>2. PICK whole : whole = {i \in DOMAIN chunks : \A j \in 1..i : ensure_bytes(chunks[j])}  OBVIOUS
  <2>3. PICK n : n = Cardinality(whole)  OBVIOUS
  <2>4. PICK bytes : bytes = Joined(chunks, n)  OBVIOUS
  <2>5. b = Firsts(bytes, BodyCap)
    BY <1>5, <2>1, <2>2, <2>3, <2>4 DEF read_full_response_body, parse_response_body_framing, read_chunked_body, Read
  <2>6. n \in 0..Len(chunks) /\ Chunked(chunks) = bytes
    <3>1. chunks \in Seq(Chunks)  BY <2>1
    <3>2. n \in 0..Len(chunks) /\ Chunked(chunks) = Joined(chunks, n)  BY ONLY <2>2, <2>3, <3>1, ChunkedIs
    <3> QED  BY <2>4, <3>2
  <2>7. bytes \in Seq(Nat)
    <3>1. chunks \in Seq(Chunks)  BY <2>1
    <3> QED  BY ONLY <2>4, <2>6, <3>1, JoinedIs
  <2>8. b \in Seq(Nat) /\ Len(b) = (IF Len(bytes) < BodyCap THEN Len(bytes) ELSE BodyCap) /\ b = Firsts(bytes, Len(b))
    BY <1>0, <2>5, <2>7, FirstsIs
  <2>9. PICK l \in Nat : l = Len(bytes)  BY <2>7
  <2>10. Len(b) <= l /\ Len(b) = IF l < BodyCap THEN l ELSE BodyCap  BY <1>0, <2>8, <2>9
  <2> QED  BY <1>5, <2>1, <2>6, <2>8, <2>9, <2>10 DEF BodyIsAnswered
<1> QED  BY <1>3, <1>4, <1>5 DEF HeadFits

\* Half a frame is a piece.
LEMMA PiecesAre ==
  ASSUME NEW m \in Nat
  PROVE  PieceOf(2 * m + 1) = <<m + 1, 1>> /\ PieceOf(2 * m + 2) = <<m + 1, 2>>
<1>1. ((2 * m + 1) + 1) \div 2 = m + 1 /\ 2 - ((2 * m + 1) % 2) = 1  OBVIOUS
<1>2. ((2 * m + 2) + 1) \div 2 = m + 1 /\ 2 - ((2 * m + 2) % 2) = 2  OBVIOUS
<1> QED  BY <1>1, <1>2 DEF PieceOf

\* What is parsed is the next frame of the stream, and only a bad one breaks the protocol.
LEMMA ParsedIs ==
  ASSUME NEW s \in Sides, NEW q \in Seq(Frames), q = Stream(s), ~head.ext, NEW m \in 0..Len(q), NEW n, NEW buf, StagedFits(q, m, n, buf),
         NEW v, v = try_parse_ws_frame(s, buf)
  PROVE  /\ v = "frame" => m + 1 \in 1..Len(q) /\ q[m + 1].op # "bad" /\ Len(buf) >= 2 /\ buf[1][1] = m + 1
         /\ v = "protocol" => m + 1 \in 1..Len(q) /\ q[m + 1].op = "bad"
<1>1. PICK N \in Nat : N = Len(q)  OBVIOUS
<1>2. PICK l \in Nat : l = Len(buf)  BY DEF StagedFits
<1>3. m \in Nat /\ n \in Nat /\ n <= 2 * N /\ l = n - 2 * m /\ \A i \in 1..l : buf[i] = PieceOf(2 * m + i)
  BY <1>1, <1>2 DEF StagedFits
<1>4. l > 0 => buf[1] = <<m + 1, 1>> /\ m + 1 \in 1..N
  <2>1. HAVE l > 0
  <2>2. 1 \in 1..l /\ m + 1 \in 1..N  BY <1>3, <2>1
  <2> QED  BY <1>3, <2>2, PiecesAre
<1>5. l >= 2 => buf[2] = <<m + 1, 2>>
  <2>1. HAVE l >= 2
  <2>2. 2 \in 1..l  BY <1>3, <2>1
  <2> QED  BY <1>3, <2>2, PiecesAre
<1>6. CASE l = 0
  <2>1. v = "none"  BY <1>2, <1>6 DEF try_parse_ws_frame
  <2> QED  BY <2>1
<1>7. CASE l > 0
  <2>1. buf[1][1] = m + 1 /\ buf[1][2] = 1 /\ m + 1 \in 1..N  BY <1>4, <1>7
  <2>2. Violates(s, q[m + 1]) <=> q[m + 1].op = "bad"  BY DEF Violates
  <2>3. v = IF Violates(s, q[m + 1]) THEN "protocol" ELSE IF l < 2 THEN "none" ELSE IF buf[2] # <<m + 1, 2>> THEN "protocol" ELSE "frame"
    BY <1>2, <1>7, <2>1 DEF try_parse_ws_frame
  <2> QED  BY <1>1, <1>2, <1>3, <1>5, <2>1, <2>2, <2>3
<1> QED  BY <1>3, <1>6, <1>7

\* A read extends what is staged.
LEMMA StageGrows ==
  ASSUME NEW q \in Seq(Frames), NEW m \in 0..Len(q), NEW n, NEW buf, StagedFits(q, m, n, buf),
         NEW P, P = [i \in 1..(2 * Len(q)) |-> <<(i + 1) \div 2, 2 - (i % 2)>>], NEW k \in (n + 1)..Len(P)
  PROVE  StagedFits(q, m, k, buf \o SubSeq(P, n + 1, k))
<1>1. PICK N \in Nat : N = Len(q)  OBVIOUS
<1>2. PICK M \in Nat : M = 2 * N  BY <1>1
<1>3. m \in Nat /\ n \in Nat /\ 2 * m <= n /\ n <= M /\ buf \in Seq(Nat \X Nat) /\ Len(buf) = n - 2 * m /\ \A i \in 1..Len(buf) : buf[i] = PieceOf(2 * m + i)
  BY <1>1, <1>2 DEF StagedFits
<1>4. PICK Q : Q = Nat \X Nat  OBVIOUS
<1>5. \A i \in 1..M : PieceOf(i) \in Q
  <2> SUFFICES ASSUME NEW i \in 1..M PROVE PieceOf(i) \in Q  OBVIOUS
  <2>1. (i + 1) \div 2 \in Nat /\ 2 - (i % 2) \in Nat  OBVIOUS
  <2> QED  BY <1>4, <2>1 DEF PieceOf
<1>6. P = [i \in 1..M |-> PieceOf(i)]  BY <1>1, <1>2 DEF PieceOf
<1>7. P \in [1..M -> Q]  BY <1>5, <1>6
<1>8. P \in Seq(Q) /\ Len(P) = M  BY <1>2, <1>7
<1>9. k \in Nat /\ n + 1 <= k /\ k <= M  BY <1>3, <1>8
<1>10. PICK u : u = SubSeq(P, n + 1, k)  OBVIOUS
<1>11. u \in Seq(Q) /\ Len(u) = k - n /\ \A i \in 1..(k - n) : u[i] = P[n + i]
  <2>1. n + 1 \in 1..Len(P) /\ k \in (n + 1)..Len(P)  BY <1>3, <1>8, <1>9
  <2>2. u \in Seq(Q) /\ Len(u) = k - (n + 1) + 1 /\ \A i \in 1..(k - (n + 1) + 1) : u[i] = P[(n + 1) + i - 1]
    <3>1. \A i \in (n + 1)..k : P[i] \in Q
      <4>1. \A i \in (n + 1)..k : i \in 1..M  BY <1>3, <1>9
      <4>2. \A i \in 1..M : P[i] \in Q  BY ONLY <1>7
      <4> QED  BY ONLY <4>1, <4>2
    <3>2. n + 1 \in Int /\ k \in Int /\ n + 1 <= k  BY <1>3, <1>9
    <3> QED  BY ONLY <1>10, <3>1, <3>2, SubSeqProperties
  <2>3. k - (n + 1) + 1 = k - n /\ \A i \in 1..(k - n) : (n + 1) + i - 1 = n + i  BY <1>3, <1>9
  <2> QED  BY <2>2, <2>3
<1>12. PICK w : w = buf \o u  OBVIOUS
<1>13. PICK lb \in Nat : lb = Len(buf)  BY <1>3
<1>14. w \in Seq(Q) /\ Len(w) = lb + (k - n) /\ (\A i \in 1..lb : w[i] = buf[i]) /\ \A i \in (lb + 1)..(lb + (k - n)) : w[i] = u[i - lb]
  <2>1. buf \in Seq(Q)  BY <1>3, <1>4
  <2>2. PICK du \in Nat : du = k - n  BY <1>3, <1>9
  <2>3. w \in Seq(Q) /\ Len(w) = Len(buf) + Len(u)  BY <1>11, <1>12, <2>1, ConcatProperties
  <2>4. \A i \in 1..(Len(buf) + Len(u)) : w[i] = IF i <= Len(buf) THEN buf[i] ELSE u[i - Len(buf)]
    BY <1>11, <1>12, <2>1, ConcatProperties
  <2>5. Len(u) = du  BY <1>11, <2>2
  <2>6. Len(w) = lb + du /\ \A i \in 1..(lb + du) : w[i] = IF i <= lb THEN buf[i] ELSE u[i - lb]  BY ONLY <1>13, <2>3, <2>4, <2>5
  <2>7. (\A i \in 1..lb : w[i] = buf[i]) /\ \A i \in (lb + 1)..(lb + du) : w[i] = u[i - lb]  BY ONLY <2>6, lb \in Nat, du \in Nat
  <2> QED  BY ONLY <2>2, <2>3, <2>6, <2>7
<1>15. Len(w) = k - 2 * m  BY <1>3, <1>9, <1>13, <1>14
<1>16. ASSUME NEW i \in 1..(k - 2 * m) PROVE w[i] = PieceOf(2 * m + i)
  <2>1. CASE i <= lb
    <3>1. i \in 1..lb  BY <1>3, <1>9, <2>1
    <3> QED  BY <1>3, <1>13, <1>14, <3>1
  <2>2. CASE i > lb
    <3>1. PICK j \in Nat : j = i - lb  BY <1>3, <1>9, <1>13, <2>2
    <3>2. i \in (lb + 1)..(lb + (k - n)) /\ j \in 1..(k - n) /\ n + j = 2 * m + i /\ n + j \in 1..M
      BY <1>3, <1>9, <1>13, <2>2, <3>1
    <3>3. w[i] = u[j]  BY <1>14, <3>1, <3>2
    <3>4. u[j] = P[n + j]  BY <1>11, <3>2
    <3>5. P[n + j] = PieceOf(n + j)  BY <1>6, <3>2
    <3> QED  BY ONLY <3>2, <3>3, <3>4, <3>5
  <2> QED  BY <1>3, <1>9, <1>13, <2>1, <2>2
<1>17. k \in Nat /\ 2 * m <= k /\ k <= 2 * Len(q)  BY <1>1, <1>2, <1>3, <1>9
<1>18. w \in Seq(Nat \X Nat) /\ \A i \in 1..Len(w) : w[i] = PieceOf(2 * m + i)  BY <1>4, <1>14, <1>15, <1>16
<1>19. StagedFits(q, m, k, w)  BY ONLY <1>15, <1>17, <1>18 DEF StagedFits
<1> QED  BY <1>10, <1>12, <1>19

\* A frame that is taken leaves the pieces after it.
LEMMA StageTaken ==
  ASSUME NEW q \in Seq(Frames), NEW m \in 0..Len(q), NEW n, NEW buf, StagedFits(q, m, n, buf), Len(buf) >= 2
  PROVE  m + 1 \in 0..Len(q) /\ StagedFits(q, m + 1, n, SubSeq(buf, 3, Len(buf)))
<1>1. PICK N \in Nat : N = Len(q)  OBVIOUS
<1>2. PICK Q : Q = Nat \X Nat  OBVIOUS
<1>3. PICK l \in Nat : l = Len(buf)  BY DEF StagedFits
<1>4. m \in Nat /\ n \in Nat /\ n <= 2 * N /\ buf \in Seq(Q) /\ l = n - 2 * m /\ l >= 2 /\ \A i \in 1..l : buf[i] = PieceOf(2 * m + i)
  BY <1>1, <1>2, <1>3 DEF StagedFits
<1>5. PICK w : w = SubSeq(buf, 3, l)  OBVIOUS
<1>6. w \in Seq(Q) /\ Len(w) = l - 2 /\ \A i \in 1..(l - 2) : w[i] = buf[i + 2]
  <2>1. CASE l = 2
    <3>1. w = <<>>  BY <1>3, <1>4, <1>5, <2>1, SubSeqProperties
    <3> QED  BY <2>1, <3>1
  <2>2. CASE l > 2
    <3>1. 3 \in 1..l /\ l \in 3..l /\ l - 3 + 1 = l - 2  BY <1>4, <2>2
    <3>2. w \in Seq(Q) /\ Len(w) = l - 3 + 1 /\ \A i \in 1..(l - 3 + 1) : w[i] = buf[3 + i - 1]
      <4>1. \A i \in 3..l : buf[i] \in Q
        <5>1. \A i \in 3..l : i \in 1..l  OBVIOUS
        <5>2. \A i \in 1..l : buf[i] \in Q  BY ONLY <1>3, <1>4, ElementOfSeq
        <5> QED  BY ONLY <5>1, <5>2
      <4>2. 3 \in Int /\ l \in Int /\ 3 <= l  BY <2>2
      <4> QED  BY ONLY <1>5, <4>1, <4>2, SubSeqProperties
    <3>3. \A i \in 1..(l - 2) : 3 + i - 1 = i + 2  OBVIOUS
    <3> QED  BY <3>1, <3>2, <3>3
  <2> QED  BY <1>4, <2>1, <2>2
<1>7. m + 1 \in 0..N /\ 2 * (m + 1) <= n /\ l - 2 = n - 2 * (m + 1)  BY <1>4
<1>8. ASSUME NEW i \in 1..(l - 2) PROVE w[i] = PieceOf(2 * (m + 1) + i)
  <2>1. i + 2 \in 1..l /\ 2 * m + (i + 2) = 2 * (m + 1) + i  BY <1>4
  <2> QED  BY <1>4, <1>6, <2>1
<1> QED  BY <1>1, <1>2, <1>3, <1>4, <1>5, <1>6, <1>7, <1>8 DEF StagedFits

\* What was sent fits less as well.
LEMMA SentLess ==
  ASSUME NEW q \in Seq(Frames), NEW m \in Nat, NEW open, NEW less, less => open, NEW d, SentFits(q, m, open, d)
  PROVE  SentFits(q, m, less, d) /\ SentFits(q, m + 1, FALSE, d)
<1>1. SentFits(q, m, less, d)  BY DEF SentFits
<1>2. \A k \in 1..m : k \in 1..(m + 1)  OBVIOUS
<1>3. SentFits(q, m + 1, FALSE, d)
  <2>1. \A i \in PeerPlaces(d) : d[i].n \in 1..m  BY DEF SentFits
  <2>2. \A i \in PeerPlaces(d) : d[i].n \in 1..(m + 1)  BY ONLY <1>2, <2>1
  <2> QED  BY <2>2 DEF SentFits
<1> QED  BY <1>1, <1>3

\* A frame of the user or of the proxy changes nothing of what was sent on.
LEMMA SentBeside ==
  ASSUME NEW q \in Seq(Frames), NEW m \in Nat, NEW open, NEW d \in Seq(SentFrames), SentFits(q, m, open, d),
         NEW f \in SentFrames, f.by # "peer"
  PROVE  SentFits(q, m, open, Append(d, f))
<1>1. PICK F : F = SentFrames  OBVIOUS
<1>2. PICK l \in Nat : l = Len(d)  OBVIOUS
<1>3. PICK e : e = Append(d, f)  OBVIOUS
<1>4. Len(e) = l + 1 /\ (\A i \in 1..l : e[i] = d[i]) /\ e[l + 1] = f  BY <1>1, <1>2, <1>3, AppendProperties
<1>5. PeerPlaces(e) = PeerPlaces(d)
  <2>1. \A i \in 1..(l + 1) : i # l + 1 => i \in 1..l  OBVIOUS
  <2>2. \A i \in 1..l : i \in 1..(l + 1)  OBVIOUS
  <2> QED  BY <1>2, <1>4, <2>1, <2>2 DEF PeerPlaces
<1>6. \A i \in PeerPlaces(d) : e[i] = d[i]  BY <1>2, <1>4 DEF PeerPlaces
<1>7. PICK S : S = PeerPlaces(d)  OBVIOUS
<1>8. PeerPlaces(e) = S /\ PeerPlaces(d) = S /\ \A i \in S : e[i] = d[i]  BY <1>5, <1>6, <1>7
<1>9. (\A i \in S : d[i].n \in 1..m /\ d[i].op = q[d[i].n].op) /\ (\A i, j \in S : j < i => d[j].n < d[i].n)
      /\ (\A i \in S : \A k \in 1..(d[i].n - 1) : \E j \in S : j < i /\ d[j].n = k) /\ (open => \A k \in 1..m : \E j \in S : d[j].n = k)
  BY <1>7 DEF SentFits
<1>10. (\A i \in S : e[i].n \in 1..m /\ e[i].op = q[e[i].n].op) /\ (\A i, j \in S : j < i => e[j].n < e[i].n)  BY ONLY <1>8, <1>9
<1>11. (\A i \in S : \A k \in 1..(e[i].n - 1) : \E j \in S : j < i /\ e[j].n = k) /\ (open => \A k \in 1..m : \E j \in S : e[j].n = k)
  <2>1. ASSUME NEW i \in S, NEW k \in 1..(e[i].n - 1) PROVE \E j \in S : j < i /\ e[j].n = k
    <3>1. k \in 1..(d[i].n - 1)  BY ONLY <1>8, <2>1
    <3>2. PICK j \in S : j < i /\ d[j].n = k  BY ONLY <1>9, <2>1, <3>1
    <3> QED  BY ONLY <1>8, <3>2
  <2>2. ASSUME open, NEW k \in 1..m PROVE \E j \in S : e[j].n = k
    <3>1. PICK j \in S : d[j].n = k  BY ONLY <1>9, <2>2
    <3> QED  BY ONLY <1>8, <3>1
  <2> QED  BY ONLY <2>1, <2>2
<1>12. SentFits(q, m, open, e)  BY ONLY <1>8, <1>10, <1>11 DEF SentFits
<1> QED  BY <1>3, <1>12

\* The next frame of the stream is sent on after all those before it.
LEMMA SentNext ==
  ASSUME NEW q \in Seq(Frames), NEW m \in Nat, m + 1 \in 1..Len(q), NEW d \in Seq(SentFrames), SentFits(q, m, TRUE, d),
         NEW f \in SentFrames, f.by = "peer", f.n = m + 1, f.op = q[m + 1].op
  PROVE  SentFits(q, m + 1, TRUE, Append(d, f))
<1>1. PICK F : F = SentFrames  OBVIOUS
<1>2. PICK l \in Nat : l = Len(d)  OBVIOUS
<1>3. PICK e : e = Append(d, f)  OBVIOUS
<1>4. Len(e) = l + 1 /\ (\A i \in 1..l : e[i] = d[i]) /\ e[l + 1] = f  BY <1>1, <1>2, <1>3, AppendProperties
<1>5. PICK S : S = PeerPlaces(d)  OBVIOUS
<1>6. PeerPlaces(e) = S \cup {l + 1}
  <2>1. \A i \in 1..(l + 1) : i # l + 1 => i \in 1..l  OBVIOUS
  <2>2. \A i \in 1..l : i \in 1..(l + 1)  OBVIOUS
  <2>3. l + 1 \in 1..(l + 1)  OBVIOUS
  <2> QED  BY <1>2, <1>4, <1>5, <2>1, <2>2, <2>3 DEF PeerPlaces
<1>7. (\A i \in S : e[i] = d[i]) /\ S \subseteq 1..l  BY <1>2, <1>4, <1>5 DEF PeerPlaces
<1>8. (\A i \in S : d[i].n \in 1..m /\ d[i].op = q[d[i].n].op) /\ (\A i, j \in S : j < i => d[j].n < d[i].n)
      /\ (\A i \in S : \A k \in 1..(d[i].n - 1) : \E j \in S : j < i /\ d[j].n = k) /\ (\A k \in 1..m : \E j \in S : d[j].n = k)
  BY <1>5 DEF SentFits
<1>9. PICK T : T = S \cup {l + 1}  OBVIOUS
<1>10. \A i \in T : e[i].n \in 1..(m + 1) /\ e[i].op = q[e[i].n].op
  <2>1. \A k \in 1..m : k \in 1..(m + 1)  OBVIOUS
  <2>2. \A i \in S : e[i].n \in 1..(m + 1) /\ e[i].op = q[e[i].n].op  BY ONLY <1>7, <1>8, <2>1
  <2>3. m + 1 \in 1..(m + 1)  OBVIOUS
  <2> QED  BY <1>4, <1>9, <2>2, <2>3
<1>11. ASSUME NEW i \in T, NEW j \in T, j < i PROVE e[j].n < e[i].n
  <2>1. CASE i = l + 1
    <3>1. j \in S  BY <1>9, <1>11, <2>1
    <3>2. e[j].n \in 1..m  BY <1>7, <1>8, <3>1
    <3> QED  BY <1>4, <2>1, <3>2
  <2>2. CASE i \in S
    <3>1. j \in S  BY <1>7, <1>9, <1>11, <2>2
    <3> QED  BY <1>7, <1>8, <1>11, <2>2, <3>1
  <2> QED  BY <1>9, <2>1, <2>2
<1>12. ASSUME NEW i \in T, NEW k \in 1..(e[i].n - 1) PROVE \E j \in T : j < i /\ e[j].n = k
  <2>1. CASE i = l + 1
    <3>1. k \in 1..m  BY <1>4, <2>1
    <3>2. PICK j \in S : d[j].n = k  BY <1>8, <3>1
    <3>3. j < l + 1  BY <1>7
    <3> QED  BY <1>7, <1>9, <2>1, <3>2, <3>3
  <2>2. CASE i \in S
    <3>1. e[i] = d[i]  BY <1>7, <2>2
    <3>2. PICK j \in S : j < i /\ d[j].n = k  BY <1>8, <2>2, <3>1
    <3> QED  BY <1>7, <1>9, <3>2
  <2> QED  BY <1>9, <2>1, <2>2
<1>13. ASSUME NEW k \in 1..(m + 1) PROVE \E j \in T : e[j].n = k
  <2>1. CASE k = m + 1  BY <1>4, <1>9, <2>1
  <2>2. CASE k # m + 1
    <3>1. k \in 1..m  BY <2>2
    <3>2. PICK j \in S : d[j].n = k  BY <1>8, <3>1
    <3> QED  BY <1>7, <1>9, <3>2
  <2> QED  BY <2>1, <2>2
<1>14. PeerPlaces(e) = T  BY <1>6, <1>9
<1>15. SentFits(q, m + 1, TRUE, e)  BY ONLY <1>10, <1>11, <1>12, <1>13, <1>14 DEF SentFits
<1> QED  BY <1>3, <1>15

\* A side is sent one frame more.
LEMMA DeliveredGrows ==
  ASSUME NEW s, NEW d, NEW streams, DeliveredFits(s, d, streams), NEW f \in SentFrames, f.masked <=> s = "upstream",
         f.by = "proxy" => ~\A t \in Sides : \A i \in DOMAIN streams[t] : streams[t][i].op # "bad"
  PROVE  DeliveredFits(s, Append(d, f), streams)
<1>1. PICK F : F = SentFrames  OBVIOUS
<1>2. d \in Seq(F)  BY <1>1 DEF DeliveredFits
<1>3. PICK l \in Nat : l = Len(d)  BY <1>2
<1>4. PICK e : e = Append(d, f)  OBVIOUS
<1>5. e \in Seq(F) /\ Len(e) = l + 1 /\ (\A i \in 1..l : e[i] = d[i]) /\ e[l + 1] = f  BY <1>1, <1>2, <1>3, <1>4, AppendProperties
<1>6. \A i \in 1..(l + 1) : i # l + 1 => i \in 1..l  OBVIOUS
<1>7. \A i \in 1..(l + 1) : e[i].masked <=> s = "upstream"
  <2>1. \A i \in 1..l : d[i].masked <=> s = "upstream"  BY <1>3 DEF DeliveredFits
  <2> QED  BY <1>5, <1>6, <2>1
<1>8. (\A t \in Sides : \A i \in DOMAIN streams[t] : streams[t][i].op # "bad") => \A i \in 1..(l + 1) : e[i].by # "proxy"
  <2>1. HAVE \A t \in Sides : \A i \in DOMAIN streams[t] : streams[t][i].op # "bad"
  <2>2. \A i \in 1..l : d[i].by # "proxy"  BY <1>3, <2>1 DEF DeliveredFits
  <2>3. f.by # "proxy"  BY <2>1
  <2> QED  BY <1>5, <1>6, <2>2, <2>3
<1>9. DeliveredFits(s, e, streams)  BY ONLY <1>1, <1>5, <1>7, <1>8 DEF DeliveredFits
<1> QED  BY <1>4, <1>9

\* A message is captured.
LEMMA CapturedGrows ==
  ASSUME NEW q, NEW c, CapturedFits(q, c), NEW g \in Messages, WellFormed(q) => WholeFits(q, g)
  PROVE  CapturedFits(q, Append(c, g))
<1>1. PICK F : F = Messages  OBVIOUS
<1>2. c \in Seq(F)  BY <1>1 DEF CapturedFits
<1>3. PICK l \in Nat : l = Len(c)  BY <1>2
<1>4. PICK e : e = Append(c, g)  OBVIOUS
<1>5. e \in Seq(F) /\ Len(e) = l + 1 /\ (\A i \in 1..l : e[i] = c[i]) /\ e[l + 1] = g  BY <1>1, <1>2, <1>3, <1>4, AppendProperties
<1>6. \A i \in 1..(l + 1) : i # l + 1 => i \in 1..l  OBVIOUS
<1>7. WellFormed(q) => \A i \in 1..(l + 1) : WholeFits(q, e[i])
  <2>1. HAVE WellFormed(q)
  <2>2. \A i \in 1..l : WholeFits(q, c[i])  BY <1>3, <2>1 DEF CapturedFits
  <2> QED  BY <1>5, <1>6, <2>1, <2>2
<1>8. CapturedFits(q, e)  BY ONLY <1>1, <1>5, <1>7 DEF CapturedFits
<1> QED  BY <1>4, <1>8

\* A frame that is no data changes nothing of the messages; one that is closes or continues them.
LEMMA OpenSteps ==
  ASSUME NEW q \in Seq(Frames), NEW m \in Nat, m + 1 \in 1..Len(q)
  PROVE  /\ m + 1 \notin DataOf(q) => (OpenAt(q, m + 2) <=> OpenAt(q, m + 1))
         /\ m + 1 \in DataOf(q) /\ q[m + 1].fin => ~OpenAt(q, m + 2)
<1>1. PICK D : D = DataOf(q)  OBVIOUS
<1>2. D \subseteq Nat
  <2>1. DOMAIN q \subseteq Nat  OBVIOUS
  <2> QED  BY <1>1, <2>1 DEF DataOf
<1>3. \A j \in D : j < m + 2 <=> j < m + 1 \/ j = m + 1  BY <1>2
<1>4. ASSUME m + 1 \notin D PROVE OpenAt(q, m + 2) <=> OpenAt(q, m + 1)
  <2>1. \A j \in D : j < m + 2 <=> j < m + 1  BY <1>3, <1>4
  <2> QED  BY ONLY <1>1, <2>1 DEF OpenAt
<1>5. ASSUME m + 1 \in D, q[m + 1].fin PROVE ~OpenAt(q, m + 2)
  <2>1. SUFFICES ASSUME NEW j \in D, j < m + 2, ~q[j].fin, \A k \in D : j < k /\ k < m + 2 => ~q[k].fin PROVE FALSE
    BY <1>1 DEF OpenAt
  <2>2. j # m + 1  BY <1>5, <2>1
  <2>3. j < m + 1 /\ m + 1 < m + 2  BY <1>2, <2>1, <2>2
  <2> QED  BY <1>5, <2>1, <2>3
<1> QED  BY <1>1, <1>4, <1>5

\* One fragment more of a message.
LEMMA GatheredGrows ==
  ASSUME NEW S, IsFiniteSet(S), S \subseteq Nat, NEW x \in Nat, \A y \in S : y < x,
         NEW a \in Assemblers, Gathered(S, a.buffer, a.truncated), NEW b, b = Appended(a, x)
  PROVE  b \in Assemblers /\ b.start = a.start /\ Gathered(S \cup {x}, b.buffer, b.truncated)
<1>0. AssemblyCap \in Nat  BY WebSocketAssumption
<1>1. PICK B : B = Seq(Nat)  OBVIOUS
<1>2. a.buffer \in B /\ a.start \in {"none", "text"} /\ a.truncated \in BOOLEAN
      /\ a = [start |-> a.start, buffer |-> a.buffer, truncated |-> a.truncated]  BY <1>1 DEF Assemblers
<1>3. x \notin S  OBVIOUS
<1>4. PICK c \in Nat : c = Cardinality(S)  BY FS_CardinalityType
<1>5. Cardinality(S \cup {x}) = c + 1  BY <1>3, <1>4, FS_AddElement
<1>6. PICK buf : buf = a.buffer  OBVIOUS
<1>7. buf \in Seq(Nat)  BY <1>1, <1>2, <1>6
<1>8. PICK l \in Nat : l = Len(buf)  BY <1>7
<1>9. \A k \in 1..l : buf[k] \in S /\ (k > 1 => buf[k] > buf[k - 1])  BY <1>6, <1>8 DEF Gathered
<1>10. (a.truncated <=> c > AssemblyCap) /\ l = IF a.truncated THEN AssemblyCap ELSE c  BY <1>4, <1>6, <1>8 DEF Gathered
<1>11. PICK T : T = S \cup {x}  OBVIOUS
<1>12. Cardinality(T) = c + 1 /\ S \subseteq T /\ x \in T  BY <1>5, <1>11
<1>13. \A k \in 1..l : buf[k] \in T /\ (k > 1 => buf[k] > buf[k - 1])  BY ONLY <1>9, <1>12
<1>14. CASE a.truncated
  <2>1. b = a  BY <1>14 DEF Appended
  <2>2. c + 1 > AssemblyCap /\ l = AssemblyCap  BY <1>0, <1>10, <1>14
  <2>3. Gathered(T, buf, TRUE)  BY ONLY <1>8, <1>12, <1>13, <2>2 DEF Gathered
  <2>4. a.truncated = TRUE  BY <1>2, <1>14
  <2> QED  BY <1>6, <1>11, <2>1, <2>3, <2>4
<1>15. CASE ~a.truncated /\ l + 1 <= AssemblyCap
  <2>1. PICK w : w = Append(buf, x)  OBVIOUS
  <2>2. w \in Seq(Nat) /\ Len(w) = l + 1 /\ (\A k \in 1..l : w[k] = buf[k]) /\ w[l + 1] = x  BY <1>7, <1>8, <2>1, AppendProperties
  <2>3. b = [a EXCEPT !.buffer = w]  BY <1>6, <1>8, <1>15, <2>1 DEF Appended
  <2>4. b.buffer = w /\ b.start = a.start /\ b.truncated = a.truncated /\ b = [start |-> a.start, buffer |-> w, truncated |-> a.truncated]
    BY <1>2, <2>3
  <2>5. b \in Assemblers  BY <1>1, <1>2, <2>2, <2>4 DEF Assemblers
  <2>6. l = c /\ ~(c + 1 > AssemblyCap)  BY <1>0, <1>10, <1>15
  <2>7. ASSUME NEW k \in 1..(l + 1) PROVE w[k] \in T /\ (k > 1 => w[k] > w[k - 1])
    <3>1. CASE k = l + 1
      <4>1. k > 1 => l \in 1..l /\ k - 1 = l  BY <3>1
      <4>2. k > 1 => w[k - 1] \in S  BY <1>9, <2>2, <4>1
      <4> QED  BY <1>12, <2>2, <3>1, <4>2
    <3>2. CASE k # l + 1
      <4>1. k \in 1..l /\ (k > 1 => k - 1 \in 1..l)  BY <3>2
      <4> QED  BY <1>13, <2>2, <4>1
    <3> QED  BY <3>1, <3>2
  <2>8. Gathered(T, w, FALSE)  BY ONLY <1>12, <2>2, <2>6, <2>7 DEF Gathered
  <2>9. a.truncated = FALSE  BY <1>2, <1>15
  <2> QED  BY <1>11, <2>4, <2>5, <2>8, <2>9
<1>16. CASE ~a.truncated /\ ~(l + 1 <= AssemblyCap)
  <2>1. b = [a EXCEPT !.truncated = TRUE]  BY <1>6, <1>8, <1>16 DEF Appended
  <2>2. b.buffer = buf /\ b.start = a.start /\ b.truncated = TRUE /\ b = [start |-> a.start, buffer |-> buf, truncated |-> TRUE]
    BY <1>2, <1>6, <2>1
  <2>3. b \in Assemblers  BY <1>1, <1>2, <1>6, <2>2 DEF Assemblers
  <2>4. l = AssemblyCap /\ c + 1 > AssemblyCap  BY <1>0, <1>10, <1>16
  <2>5. Gathered(T, buf, TRUE)  BY ONLY <1>8, <1>12, <1>13, <2>4 DEF Gathered
  <2> QED  BY <1>11, <2>2, <2>3, <2>5
<1> QED  BY <1>14, <1>15, <1>16

\* The frames of a message under way are finitely many numbers, and the next data frame is one of them.
LEMMA SpanGrows ==
  ASSUME NEW q \in Seq(Frames), NEW m \in Nat, m + 1 \in 1..Len(q), NEW from \in DataOf(q), from <= m
  PROVE  /\ IsFiniteSet(Span(q, from, m)) /\ Span(q, from, m) \subseteq Nat /\ \A y \in Span(q, from, m) : y < m + 1
         /\ m + 1 \in DataOf(q) => Span(q, from, m + 1) = Span(q, from, m) \cup {m + 1}
         /\ m + 1 \notin DataOf(q) => Span(q, from, m + 1) = Span(q, from, m)
<1>1. PICK D : D = DataOf(q)  OBVIOUS
<1>2. D \subseteq Nat
  <2>1. DOMAIN q \subseteq Nat  OBVIOUS
  <2> QED  BY <1>1, <2>1 DEF DataOf
<1>3. PICK S : S = Span(q, from, m)  OBVIOUS
<1>4. S = {i \in D : from <= i /\ i <= m}  BY <1>1, <1>3 DEF Span
<1>5. S \subseteq Nat /\ \A y \in S : y < m + 1
  <2>1. ASSUME NEW y \in S PROVE y \in Nat /\ y < m + 1
    <3>1. y \in D /\ y <= m  BY ONLY <1>4, <2>1
    <3>2. y \in Nat  BY ONLY <1>2, <3>1
    <3> QED  BY <3>1, <3>2
  <2> QED  BY ONLY <2>1
<1>6. IsFiniteSet(S)
  <2>1. S \subseteq 0..m
    <3>1. ASSUME NEW y \in S PROVE y \in 0..m
      <4>1. y \in Nat /\ y < m + 1  BY ONLY <1>5, <3>1
      <4> QED  BY <4>1
    <3> QED  BY ONLY <3>1
  <2>2. IsFiniteSet(0..m)  BY FS_Interval
  <2> QED  BY <2>1, <2>2, FS_Subset
<1>7. \A i \in D : i <= m + 1 <=> i <= m \/ i = m + 1  BY <1>2
<1>8. from <= m + 1 /\ from \in Nat  BY <1>1, <1>2
<1>9. m + 1 \in D => Span(q, from, m + 1) = S \cup {m + 1}  BY <1>1, <1>4, <1>7, <1>8 DEF Span
<1>10. m + 1 \notin D => Span(q, from, m + 1) = S  BY <1>1, <1>4, <1>7 DEF Span
<1> QED  BY <1>1, <1>3, <1>5, <1>6, <1>9, <1>10

\* The message that ends with a frame starts at the last text frame.
LEMMA MessageIs ==
  ASSUME NEW q \in Seq(Frames), NEW j \in Nat, NEW from \in DataOf(q), from <= j, q[from].op = "text",
         \A k \in DataOf(q) : from < k /\ k <= j => q[k].op = "cont"
  PROVE  MessageOf(q, j) = Span(q, from, j)
<1>1. PICK D : D = DataOf(q)  OBVIOUS
<1>2. D = {i \in DOMAIN q : q[i].op \in {"text", "cont"}}  BY <1>1 DEF DataOf
<1>3. D \subseteq Nat
  <2>1. DOMAIN q \subseteq Nat  OBVIOUS
  <2> QED  BY <1>2, <2>1
<1>4. ASSUME NEW i \in D, i <= j /\ q[i].op = "text" /\ \A k \in D : i < k /\ k <= j => q[k].op = "cont" PROVE i = from
  <2>1. from \in D /\ i \in Nat /\ from \in Nat  BY <1>1, <1>3
  <2>2. ~(i < from)  BY <1>4, <2>1
  <2>3. ~(from < i)  BY <1>1, <1>4
  <2> QED  BY <2>1, <2>2, <2>3
<1>5. \A i \in D : (i <= j /\ q[i].op = "text" /\ \A k \in D : i < k /\ k <= j => q[k].op = "cont") <=> i = from  BY <1>1, <1>4
<1>6. (CHOOSE i \in D : i <= j /\ q[i].op = "text" /\ \A k \in D : i < k /\ k <= j => q[k].op = "cont") = from  BY <1>1, <1>5
<1>7. MessageOf(q, j) = {i \in D : from <= i /\ i <= j}  BY <1>2, <1>6 DEF MessageOf
<1> QED  BY <1>1, <1>7 DEF Span

\* A frame alone is a message of its own.
LEMMA AloneIs ==
  ASSUME NEW f \in Frames, NEW n \in Nat, NEW g, g = build_ws_message(f.op, f.fin, <<n>>)
  PROVE  g \in Messages /\ g.op = f.op /\ g.fin = f.fin /\ g.body = <<n>> /\ g.truncated = FALSE
<1>1. f.op \in {"text", "cont", "ping", "close", "bad"} /\ f.fin \in BOOLEAN  BY DEF Frames
<1>2. PICK o : o = f.op  OBVIOUS
<1>3. PICK w : w = f.fin  OBVIOUS
<1>4. PICK b : b = <<n>>  OBVIOUS
<1>5. g = [op |-> o, fin |-> w, body |-> b, truncated |-> FALSE]  BY <1>2, <1>3, <1>4 DEF build_ws_message
<1>6. o \in SentOps /\ w \in BOOLEAN \cup {q.fin : q \in Injects}  BY <1>1, <1>2, <1>3 DEF SentOps
<1>7. b \in Seq(Nat)  BY <1>4
<1>8. g \in Messages
  <2>1. PICK O : O = SentOps  OBVIOUS
  <2>2. PICK W : W = BOOLEAN \cup {q.fin : q \in Injects}  OBVIOUS
  <2>3. PICK B : B = Seq(Nat)  OBVIOUS
  <2>4. Messages = [op : O, fin : W, body : B, truncated : BOOLEAN]  BY <2>1, <2>2, <2>3 DEF Messages
  <2>5. o \in O /\ w \in W /\ b \in B  BY ONLY <1>6, <1>7, <2>1, <2>2, <2>3
  <2> QED  BY ONLY <1>5, <2>4, <2>5
<1> QED  BY <1>2, <1>3, <1>4, <1>5, <1>8

StepFits(q, m, g, b) == AssemblerFits(q, m + 1, b) /\ g \in Messages /\ (WellFormed(q) => WholeFits(q, g))

\* Nothing is under way at first.
LEMMA IdleIs == Idle \in Assemblers /\ Idle.start = "none"
<1>1. <<>> \in Seq(Nat)  OBVIOUS
<1>2. PICK e : e = <<>>  OBVIOUS
<1>3. PICK B : B = Seq(Nat)  OBVIOUS
<1>4. Assemblers = [start : {"none", "text"}, buffer : B, truncated : BOOLEAN]  BY <1>3 DEF Assemblers
<1>5. Idle = [start |-> "none", buffer |-> e, truncated |-> FALSE]  BY <1>2 DEF Idle
<1>6. e \in B  BY <1>1, <1>2, <1>3
<1> QED  BY ONLY <1>4, <1>5, <1>6

\* A control frame passes between the fragments.
LEMMA ControlStep ==
  ASSUME NEW q \in Seq(Frames), NEW m \in Nat, m + 1 \in 1..Len(q), NEW a, AssemblerFits(q, m, a), is_control(q[m + 1].op),
         NEW g, g = build_ws_message(q[m + 1].op, q[m + 1].fin, <<m + 1>>)
  PROVE  StepFits(q, m, g, a)
<1>1. PICK f : f = q[m + 1]  OBVIOUS
<1>2. f \in Frames  BY <1>1, ElementOfSeq
<1>3. f.op \in {"ping", "close"}  BY <1>1 DEF is_control
<1>4. m + 1 \notin DataOf(q)  BY <1>1, <1>3 DEF DataOf
<1>5. g \in Messages /\ g.op = f.op
  <2>1. m + 1 \in Nat /\ g = build_ws_message(f.op, f.fin, <<m + 1>>)  BY <1>1
  <2> QED  BY ONLY <1>2, <2>1, AloneIs
<1>6. WholeFits(q, g)  BY <1>3, <1>5 DEF WholeFits
<1>7. AssemblerFits(q, m + 1, a)
  <2>1. (m + 1) + 1 = m + 2  OBVIOUS
  <2>2. OpenAt(q, m + 2) <=> OpenAt(q, m + 1)  BY <1>4, OpenSteps
  <2>3. ASSUME NEW from \in DataOf(q), UnderWay(q, from, m, a) PROVE UnderWay(q, from, m + 1, a)
    <3>1. from <= m  BY <2>3 DEF UnderWay
    <3>2. Span(q, from, m + 1) = Span(q, from, m)  BY <1>4, <3>1, SpanGrows
    <3>3. DataOf(q) \subseteq Nat
      <4>1. DOMAIN q \subseteq Nat  OBVIOUS
      <4> QED  BY <4>1 DEF DataOf
    <3>4. from <= m + 1  BY <3>1, <3>3
    <3>5. \A k \in DataOf(q) : k <= m + 1 => k <= m  BY <1>4, <3>3
    <3>6. \A k \in DataOf(q) : from < k /\ k <= m + 1 => q[k].op = "cont" /\ ~q[k].fin
      <4>1. \A k \in DataOf(q) : from < k /\ k <= m => q[k].op = "cont" /\ ~q[k].fin  BY <2>3 DEF UnderWay
      <4> QED  BY ONLY <3>5, <4>1
    <3>7. q[from].op = "text" /\ ~q[from].fin /\ Gathered(Span(q, from, m), a.buffer, a.truncated)  BY <2>3 DEF UnderWay
    <3> QED  BY ONLY <2>3, <3>2, <3>4, <3>6, <3>7 DEF UnderWay
  <2> QED  BY <2>1, <2>2, <2>3 DEF AssemblerFits
<1> QED  BY <1>5, <1>6, <1>7 DEF StepFits

\* A text frame: a message of one frame, or the first of several.
LEMMA TextStep ==
  ASSUME NEW q \in Seq(Frames), NEW m \in Nat, m + 1 \in 1..Len(q), NEW a, AssemblerFits(q, m, a), q[m + 1].op = "text",
         NEW g, g = build_ws_message(q[m + 1].op, q[m + 1].fin, <<m + 1>>),
         NEW b, b = IF a.start # "none" THEN Idle ELSE IF q[m + 1].fin THEN a ELSE Appended([Idle EXCEPT !.start = "text"], m + 1)
  PROVE  StepFits(q, m, g, b)
<1>1. PICK f : f = q[m + 1]  OBVIOUS
<1>2. f \in Frames  BY <1>1, ElementOfSeq
<1>3. m + 1 \in DataOf(q)  BY <1>1 DEF DataOf
<1>4. g \in Messages /\ g.op = f.op /\ g.fin = f.fin /\ g.body = <<m + 1>> /\ g.truncated = FALSE
  <2>1. m + 1 \in Nat /\ g = build_ws_message(f.op, f.fin, <<m + 1>>)  BY <1>1
  <2> QED  BY ONLY <1>2, <2>1, AloneIs
<1>5. DataOf(q) \subseteq Nat
  <2>1. DOMAIN q \subseteq Nat  OBVIOUS
  <2> QED  BY <2>1 DEF DataOf
<1>6. Span(q, m + 1, m + 1) = {m + 1}  BY <1>3, <1>5 DEF Span
<1>7. Gathered({m + 1}, <<m + 1>>, FALSE)
  <2>1. Cardinality({m + 1}) = 1  BY FS_Singleton
  <2>2. ~(1 > AssemblyCap)  BY WebSocketAssumption
  <2>3. PICK w : w = <<m + 1>>  OBVIOUS
  <2>4. Len(w) = 1 /\ w[1] = m + 1  BY <2>3
  <2>5. \A k \in 1..1 : k = 1  OBVIOUS
  <2>6. Gathered({m + 1}, w, FALSE)  BY <2>1, <2>2, <2>4, <2>5 DEF Gathered
  <2> QED  BY <2>3, <2>6
<1>8. WellFormed(q) => WholeFits(q, g)
  <2>1. CASE f.fin
    <3>1. \A k \in DataOf(q) : m + 1 < k /\ k <= m + 1 => q[k].op = "cont"  BY <1>5
    <3>2. m + 1 <= m + 1 /\ m + 1 \in Nat  OBVIOUS
    <3>3. MessageOf(q, m + 1) = Span(q, m + 1, m + 1)  BY ONLY <1>3, <3>1, <3>2, q \in Seq(Frames), q[m + 1].op = "text", MessageIs
    <3>4. Gathered(MessageOf(q, m + 1), g.body, g.truncated)  BY <1>4, <1>6, <1>7, <3>3
    <3>5. m + 1 \in DOMAIN q  OBVIOUS
    <3> QED  BY <1>1, <2>1, <3>4, <3>5 DEF WholeFits
  <2>2. CASE ~f.fin  BY <1>4, <2>2 DEF WholeFits
  <2> QED  BY <2>1, <2>2
<1>9. AssemblerFits(q, m + 1, b)
  <2>1. (m + 1) + 1 = m + 2 /\ m < m + 1  OBVIOUS
  <2>2. CASE a.start # "none"
    <3>1. a.start = "text"  BY <2>2 DEF AssemblerFits, Assemblers
    <3>2. ~WellFormed(q)
      <4>1. SUFFICES ASSUME WellFormed(q) PROVE FALSE  OBVIOUS
      <4>2. PICK from \in DataOf(q) : UnderWay(q, from, m, a)  BY <3>1, <4>1 DEF AssemblerFits
      <4>3. from < m + 1  BY <1>5, <4>2 DEF UnderWay
      <4>4. \A k \in DataOf(q) : k < m + 1 => k <= m  BY <1>5
      <4>5. OpenAt(q, m + 1)
        <5>1. ~q[from].fin /\ \A k \in DataOf(q) : from < k /\ k <= m => ~q[k].fin  BY <4>2 DEF UnderWay
        <5> QED  BY ONLY <4>2, <4>3, <4>4, <5>1 DEF OpenAt
      <4>6. OpenAt(q, m + 1) <=> q[m + 1].op = "cont"  BY ONLY <1>3, <4>1 DEF WellFormed, OpenAt, DataOf
      <4> QED  BY <4>5, <4>6
    <3>3. b = Idle  BY <2>2
    <3> QED  BY <3>2, <3>3, IdleIs DEF AssemblerFits
  <2>3. CASE a.start = "none" /\ f.fin
    <3>1. b = a  BY <1>1, <2>3
    <3>2. ~OpenAt(q, m + 2)  BY <1>1, <1>3, <2>3, OpenSteps
    <3> QED  BY <2>1, <2>3, <3>1, <3>2 DEF AssemblerFits
  <2>4. CASE a.start = "none" /\ ~f.fin
    <3>1. PICK c : c = [Idle EXCEPT !.start = "text"]  OBVIOUS
    <3>2. c = [start |-> "text", buffer |-> <<>>, truncated |-> FALSE]  BY <3>1 DEF Idle
    <3>3. b = Appended(c, m + 1)  BY <1>1, <2>4, <3>1
    <3>4. 1 <= AssemblyCap  BY WebSocketAssumption
    <3>5. PICK w : w = <<m + 1>>  OBVIOUS
    <3>6. w \in Seq(Nat)  BY <3>5
    <3>7. b = [start |-> "text", buffer |-> w, truncated |-> FALSE]
      <4>1. PICK e : e = <<>>  OBVIOUS
      <4>2. Len(e) + 1 = 1 /\ Append(e, m + 1) = w  BY <3>5, <4>1
      <4>3. c = [start |-> "text", buffer |-> e, truncated |-> FALSE]  BY <3>2, <4>1
      <4> QED  BY <3>3, <3>4, <4>2, <4>3 DEF Appended
    <3>8. b.start = "text" /\ b.buffer = w /\ b.truncated = FALSE  BY <3>7
    <3>9. b \in Assemblers
      <4>1. PICK B : B = Seq(Nat)  OBVIOUS
      <4>2. Assemblers = [start : {"none", "text"}, buffer : B, truncated : BOOLEAN]  BY <4>1 DEF Assemblers
      <4>3. w \in B  BY <3>6, <4>1
      <4> QED  BY ONLY <3>7, <4>2, <4>3
    <3>10. UnderWay(q, m + 1, m + 1, b)
      <4>1. \A k \in DataOf(q) : m + 1 < k /\ k <= m + 1 => q[k].op = "cont" /\ ~q[k].fin  BY <1>5
      <4>2. m + 1 <= m + 1  OBVIOUS
      <4>3. Gathered(Span(q, m + 1, m + 1), b.buffer, b.truncated)  BY <1>6, <1>7, <3>5, <3>8
      <4> QED  BY <1>1, <1>3, <2>4, <4>1, <4>2, <4>3 DEF UnderWay
    <3> QED  BY <1>3, <3>8, <3>9, <3>10 DEF AssemblerFits
  <2> QED  BY <2>2, <2>3, <2>4
<1> QED  BY <1>4, <1>8, <1>9 DEF StepFits

\* A continuation: the next fragment of a message, or its last.
LEMMA ContStep ==
  ASSUME NEW q \in Seq(Frames), NEW m \in Nat, m + 1 \in 1..Len(q), NEW a, AssemblerFits(q, m, a), q[m + 1].op = "cont", a.start # "none",
         NEW c, c = Appended(a, m + 1),
         NEW g, NEW b,
         q[m + 1].fin => g = [op |-> a.start, fin |-> TRUE, body |-> c.buffer, truncated |-> c.truncated] /\ b = Idle,
         ~q[m + 1].fin => g = build_ws_message(q[m + 1].op, q[m + 1].fin, <<m + 1>>) /\ b = c
  PROVE  StepFits(q, m, g, b)
<1>1. PICK f : f = q[m + 1]  OBVIOUS
<1>2. f \in Frames  BY <1>1, ElementOfSeq
<1>3. m + 1 \in DataOf(q) /\ m + 1 \in Nat /\ m < m + 1 /\ (m + 1) + 1 = m + 2  BY <1>1 DEF DataOf
<1>4. DataOf(q) \subseteq Nat
  <2>1. DOMAIN q \subseteq Nat  OBVIOUS
  <2> QED  BY <2>1 DEF DataOf
<1>5. a \in Assemblers  BY DEF AssemblerFits
<1>6. a.start = "text"  BY <1>5 DEF Assemblers
<1>7. c \in Assemblers /\ c.start = "text"
  <2>1. PICK B : B = Seq(Nat)  OBVIOUS
  <2>2. Assemblers = [start : {"none", "text"}, buffer : B, truncated : BOOLEAN]  BY <2>1 DEF Assemblers
  <2>3. a = [start |-> "text", buffer |-> a.buffer, truncated |-> a.truncated] /\ a.buffer \in B /\ a.truncated \in BOOLEAN
    BY ONLY <1>5, <1>6, <2>2
  <2>4. Append(a.buffer, m + 1) \in B
    <3>1. a.buffer \in Seq(Nat)  BY <2>1, <2>3
    <3> QED  BY <1>3, <2>1, <3>1, AppendProperties
  <2>5. CASE a.truncated  BY <1>5, <1>6, <2>5 DEF Appended
  <2>6. CASE ~a.truncated /\ Len(a.buffer) + 1 <= AssemblyCap
    <3>1. PICK w : w = Append(a.buffer, m + 1)  OBVIOUS
    <3>2. c = [a EXCEPT !.buffer = w]  BY <2>6, <3>1 DEF Appended
    <3>3. w \in B  BY <2>4, <3>1
    <3> QED  BY ONLY <2>2, <2>3, <3>2, <3>3
  <2>7. CASE ~a.truncated /\ ~(Len(a.buffer) + 1 <= AssemblyCap)
    <3>1. c = [a EXCEPT !.truncated = TRUE]  BY <2>7 DEF Appended
    <3>2. PICK w : w = a.buffer  OBVIOUS
    <3>3. PICK t : t = a.truncated  OBVIOUS
    <3>4. a = [start |-> "text", buffer |-> w, truncated |-> t] /\ w \in B  BY ONLY <2>3, <3>2, <3>3
    <3>5. c = [start |-> "text", buffer |-> w, truncated |-> TRUE]  BY ONLY <3>1, <3>4
    <3>6. TRUE \in BOOLEAN  OBVIOUS
    <3> QED  BY ONLY <2>2, <3>4, <3>5, <3>6
  <2> QED  BY <2>5, <2>6, <2>7
<1>8. ASSUME WellFormed(q)
      PROVE \E from \in DataOf(q) :
              /\ from <= m /\ q[from].op = "text" /\ ~q[from].fin /\ Gathered(Span(q, from, m + 1), c.buffer, c.truncated)
              /\ \A k \in DataOf(q) : from < k /\ k <= m => q[k].op = "cont" /\ ~q[k].fin
  <2>1. PICK from \in DataOf(q) : UnderWay(q, from, m, a)  BY <1>6, <1>8 DEF AssemblerFits
  <2>2. from <= m /\ q[from].op = "text" /\ ~q[from].fin /\ Gathered(Span(q, from, m), a.buffer, a.truncated)
        /\ \A k \in DataOf(q) : from < k /\ k <= m => q[k].op = "cont" /\ ~q[k].fin  BY <2>1 DEF UnderWay
  <2>3. PICK S : S = Span(q, from, m)  OBVIOUS
  <2>4. IsFiniteSet(S) /\ S \subseteq Nat /\ (\A y \in S : y < m + 1) /\ Span(q, from, m + 1) = S \cup {m + 1}
    BY <1>3, <2>2, <2>3, SpanGrows
  <2>5. PICK x \in Nat : x = m + 1  OBVIOUS
  <2>6. Gathered(S, a.buffer, a.truncated) /\ c = Appended(a, x) /\ \A y \in S : y < x  BY <2>2, <2>3, <2>4, <2>5
  <2>7. Gathered(S \cup {x}, c.buffer, c.truncated)  BY ONLY <1>5, <2>4, <2>6, x \in Nat, GatheredGrows
  <2> QED  BY <2>2, <2>4, <2>5, <2>7
<1>9. CASE f.fin
  <2>1. g = [op |-> a.start, fin |-> TRUE, body |-> c.buffer, truncated |-> c.truncated] /\ b = Idle  BY <1>1, <1>9
  <2>2. g \in Messages
    <3>1. PICK O : O = SentOps  OBVIOUS
    <3>2. PICK W : W = BOOLEAN \cup {i.fin : i \in Injects}  OBVIOUS
    <3>3. PICK B : B = Seq(Nat)  OBVIOUS
    <3>4. Messages = [op : O, fin : W, body : B, truncated : BOOLEAN]  BY <3>1, <3>2, <3>3 DEF Messages
    <3>5. c.buffer \in B /\ c.truncated \in BOOLEAN  BY <1>7, <3>3 DEF Assemblers
    <3>6. "text" \in O /\ TRUE \in W  BY <3>1, <3>2 DEF SentOps
    <3> QED  BY ONLY <1>6, <2>1, <3>4, <3>5, <3>6
  <2>3. AssemblerFits(q, m + 1, b)
    <3>1. ~OpenAt(q, m + 2)  BY <1>1, <1>3, <1>9, OpenSteps
    <3> QED  BY <1>3, <2>1, <3>1, IdleIs DEF AssemblerFits
  <2>4. WellFormed(q) => WholeFits(q, g)
    <3>1. HAVE WellFormed(q)
    <3>2. PICK from \in DataOf(q) :
              /\ from <= m /\ q[from].op = "text" /\ ~q[from].fin /\ Gathered(Span(q, from, m + 1), c.buffer, c.truncated)
              /\ \A k \in DataOf(q) : from < k /\ k <= m => q[k].op = "cont" /\ ~q[k].fin  BY <1>8, <3>1
    <3>3. \A k \in DataOf(q) : k <= m + 1 => k <= m \/ k = m + 1  BY <1>4
    <3>4. \A k \in DataOf(q) : from < k /\ k <= m + 1 => q[k].op = "cont"  BY ONLY <3>2, <3>3, q[m + 1].op = "cont"
    <3>5. from <= m + 1  BY <1>4, <3>2
    <3>6. MessageOf(q, m + 1) = Span(q, from, m + 1)  BY ONLY <1>3, <3>2, <3>4, <3>5, q \in Seq(Frames), MessageIs
    <3>7. g.body = c.buffer /\ g.truncated = c.truncated  BY <2>1
    <3>8. m + 1 \in DOMAIN q  OBVIOUS
    <3> QED  BY <1>1, <1>9, <3>2, <3>6, <3>7, <3>8 DEF WholeFits
  <2> QED  BY <2>2, <2>3, <2>4 DEF StepFits
<1>10. CASE ~f.fin
  <2>1. g = build_ws_message(f.op, f.fin, <<m + 1>>) /\ b = c  BY <1>1, <1>10
  <2>2. g \in Messages /\ g.op = f.op  BY ONLY <1>2, <1>3, <2>1, AloneIs
  <2>3. WholeFits(q, g)  BY <1>1, <2>2 DEF WholeFits
  <2>4. AssemblerFits(q, m + 1, c)
    <3>1. ASSUME WellFormed(q) PROVE \E from \in DataOf(q) : UnderWay(q, from, m + 1, c)
      <4>1. PICK from \in DataOf(q) :
              /\ from <= m /\ q[from].op = "text" /\ ~q[from].fin /\ Gathered(Span(q, from, m + 1), c.buffer, c.truncated)
              /\ \A k \in DataOf(q) : from < k /\ k <= m => q[k].op = "cont" /\ ~q[k].fin  BY <1>8, <3>1
      <4>2. \A k \in DataOf(q) : k <= m + 1 => k <= m \/ k = m + 1  BY <1>4
      <4>3. ~q[m + 1].fin /\ q[m + 1].op = "cont"  BY <1>1, <1>10
      <4>4. \A k \in DataOf(q) : from < k /\ k <= m + 1 => q[k].op = "cont" /\ ~q[k].fin  BY ONLY <4>1, <4>2, <4>3
      <4>5. from <= m + 1  BY <1>4, <4>1
      <4> QED  BY ONLY <4>1, <4>4, <4>5 DEF UnderWay
    <3> QED  BY <1>7, <3>1 DEF AssemblerFits
  <2> QED  BY <2>1, <2>2, <2>3, <2>4 DEF StepFits
<1> QED  BY <1>9, <1>10

\* Whatever the frame, the assembler keeps to the stream and what it emits is a message of it.
LEMMA AssemblerStep ==
  ASSUME NEW q \in Seq(Frames), NEW m \in Nat, m + 1 \in 1..Len(q), NEW a, AssemblerFits(q, m, a), q[m + 1].op # "bad",
         NEW e, e = assemble_ws_message(a, q[m + 1], m + 1)
  PROVE  StepFits(q, m, e[1], e[2])
<1>1. PICK f : f = q[m + 1]  OBVIOUS
<1>2. f \in Frames  BY <1>1, ElementOfSeq
<1>3. f.op \in {"text", "cont", "ping", "close"} /\ f.fin \in BOOLEAN  BY <1>1, <1>2 DEF Frames
<1>4. PICK alone : alone = build_ws_message(f.op, f.fin, <<m + 1>>)  OBVIOUS
<1>5. PICK n : n = m + 1  OBVIOUS
<1>6. alone = build_ws_message(f.op, f.fin, <<n>>) /\ e = assemble_ws_message(a, f, n)  BY <1>1, <1>4, <1>5
<1>7. CASE f.op \in {"ping", "close"}
  <2>1. e = <<alone, a>>  BY ONLY <1>6, <1>7 DEF assemble_ws_message, is_control
  <2>2. is_control(q[m + 1].op) /\ alone = build_ws_message(q[m + 1].op, q[m + 1].fin, <<m + 1>>)  BY <1>1, <1>4, <1>7 DEF is_control
  <2>3. StepFits(q, m, alone, a)  BY <2>2, ControlStep
  <2> QED  BY <2>1, <2>3
<1>8. CASE f.op = "text"
  <2>1. PICK b : b = IF a.start # "none" THEN Idle ELSE IF f.fin THEN a ELSE Appended([Idle EXCEPT !.start = "text"], n)  OBVIOUS
  <2>2. e = <<alone, b>>  BY ONLY <1>6, <1>8, <2>1 DEF assemble_ws_message, is_control
  <2>3. q[m + 1].op = "text" /\ alone = build_ws_message(q[m + 1].op, q[m + 1].fin, <<m + 1>>)
        /\ b = IF a.start # "none" THEN Idle ELSE IF q[m + 1].fin THEN a ELSE Appended([Idle EXCEPT !.start = "text"], m + 1)
    BY ONLY <1>1, <1>4, <1>5, <1>8, <2>1
  <2>4. StepFits(q, m, alone, b)  BY <2>3, TextStep
  <2> QED  BY <2>2, <2>4
<1>9. CASE f.op = "cont" /\ a.start = "none"
  <2>1. e = <<alone, a>>  BY ONLY <1>6, <1>9 DEF assemble_ws_message, is_control
  <2>2. alone \in Messages /\ alone.op = f.op
    <3>1. m + 1 \in Nat  OBVIOUS
    <3> QED  BY ONLY <1>2, <1>4, <3>1, AloneIs
  <2>3. WholeFits(q, alone)  BY <1>9, <2>2 DEF WholeFits
  <2>4. ~WellFormed(q)
    <3>1. m + 1 \in DataOf(q)  BY <1>1, <1>9 DEF DataOf
    <3>2. SUFFICES ASSUME WellFormed(q) PROVE FALSE  OBVIOUS
    <3>3. OpenAt(q, m + 1) <=> q[m + 1].op = "cont"  BY ONLY <3>1, <3>2 DEF WellFormed, OpenAt, DataOf
    <3>4. ~OpenAt(q, m + 1)  BY <1>9, <3>2 DEF AssemblerFits
    <3> QED  BY <1>1, <1>9, <3>3, <3>4
  <2>5. AssemblerFits(q, m + 1, a)  BY <2>4 DEF AssemblerFits
  <2> QED  BY <2>1, <2>2, <2>3, <2>5 DEF StepFits
<1>10. CASE f.op = "cont" /\ a.start # "none"
  <2>1. PICK c : c = Appended(a, n)  OBVIOUS
  <2>2. f.fin => e = <<[op |-> a.start, fin |-> TRUE, body |-> c.buffer, truncated |-> c.truncated], Idle>>
    BY ONLY <1>6, <1>10, <2>1 DEF assemble_ws_message, is_control
  <2>3. ~f.fin => e = <<alone, c>>  BY ONLY <1>6, <1>10, <2>1 DEF assemble_ws_message, is_control
  <2>4. PICK g : g = e[1]  OBVIOUS
  <2>5. PICK b : b = e[2]  OBVIOUS
  <2>6. q[m + 1].op = "cont" /\ a.start # "none" /\ c = Appended(a, m + 1)  BY <1>1, <1>5, <1>10, <2>1
  <2>7. q[m + 1].fin => g = [op |-> a.start, fin |-> TRUE, body |-> c.buffer, truncated |-> c.truncated] /\ b = Idle
    BY ONLY <1>1, <2>2, <2>4, <2>5
  <2>8. ~q[m + 1].fin => g = build_ws_message(q[m + 1].op, q[m + 1].fin, <<m + 1>>) /\ b = c  BY ONLY <1>1, <1>4, <2>3, <2>4, <2>5
  <2>9. StepFits(q, m, g, b)  BY <2>6, <2>7, <2>8, ContStep
  <2> QED  BY <2>4, <2>5, <2>9
<1> QED  BY <1>3, <1>7, <1>8, <1>9, <1>10

\* The two sides of a connection.
LEMMA SidesAre == \A s \in Sides : Other(s) \in Sides /\ Other(s) # s /\ Other(Other(s)) = s /\ \A t \in Sides : t = s \/ t = Other(s)
BY DEF Sides, Other

\* A side that is no longer relayed keeps what was sent on.
LEMMA SideLess ==
  ASSUME NEW q \in Seq(Frames), NEW n, NEW buf, NEW open, NEW less, less => open, NEW d, NEW a, SideFits(q, n, buf, open, d, a)
  PROVE  SideFits(q, n, buf, less, d, a)
<1>1. PICK m \in 0..Len(q) : StagedFits(q, m, n, buf) /\ SentFits(q, m, open, d) /\ AssemblerFits(q, m, a)  BY DEF SideFits
<1>2. m \in Nat  OBVIOUS
<1>3. SentFits(q, m, less, d)  BY <1>1, <1>2, SentLess
<1> QED  BY <1>1, <1>3 DEF SideFits

\* A frame that did not come from the side changes nothing of it.
LEMMA SideBeside ==
  ASSUME NEW q \in Seq(Frames), NEW n, NEW buf, NEW open, NEW d \in Seq(SentFrames), NEW a, SideFits(q, n, buf, open, d, a),
         NEW f \in SentFrames, f.by # "peer"
  PROVE  SideFits(q, n, buf, open, Append(d, f), a)
<1>1. PICK m \in 0..Len(q) : StagedFits(q, m, n, buf) /\ SentFits(q, m, open, d) /\ AssemblerFits(q, m, a)  BY DEF SideFits
<1>2. m \in Nat  OBVIOUS
<1>3. SentFits(q, m, open, Append(d, f))  BY <1>1, <1>2, SentBeside
<1> QED  BY <1>1, <1>3 DEF SideFits

\* The relay's state fits a phase that relays no more than this one.
LEMMA RelayPhase ==
  ASSUME NEW streams, NEW p, NEW p2, Relayed(p2) => Relayed(p), NEW n, NEW buf, NEW over, NEW d, NEW a, NEW c,
         RelayFits(streams, p, n, buf, over, d, a, c)
  PROVE  RelayFits(streams, p2, n, buf, over, d, a, c)
<1>1. ASSUME NEW s \in Sides PROVE SideFits(streams[s], n[s], buf[s], Relayed(p2) /\ ~over[s], d[Other(s)], a[s])
  <2>1. streams[s] \in Seq(Frames) /\ SideFits(streams[s], n[s], buf[s], Relayed(p) /\ ~over[s], d[Other(s)], a[s])  BY DEF RelayFits
  <2>2. (Relayed(p2) /\ ~over[s]) => (Relayed(p) /\ ~over[s])  OBVIOUS
  <2> QED  BY ONLY <2>1, <2>2, SideLess
<1>2. (\A s \in Sides : streams[s] \in Seq(Frames)) /\ n = [s \in Sides |-> n[s]] /\ buf = [s \in Sides |-> buf[s]] /\ over \in [Sides -> BOOLEAN]
      /\ d = [s \in Sides |-> d[s]] /\ a = [s \in Sides |-> a[s]] /\ c = [s \in Sides |-> c[s]]
      /\ \A s \in Sides : CapturedFits(streams[s], c[s]) /\ DeliveredFits(s, d[s], streams)
  BY DEF RelayFits
<1> QED  BY ONLY <1>1, <1>2 DEF RelayFits

\* What the invariant says of one side.
LEMMA SideOf ==
  ASSUME WebSocketInv, NEW s \in Sides
  PROVE  /\ wsAsked.streams[s] \in Seq(Frames) /\ CapturedFits(wsAsked.streams[s], captured[s]) /\ DeliveredFits(s, delivered[s], wsAsked.streams)
         /\ delivered[s] \in Seq(SentFrames)
         /\ SideFits(wsAsked.streams[s], taken[s], staged[s], Relayed(upg) /\ ~doneSide[s], delivered[Other(s)], assembler[s])
<1>1. RelayFits(wsAsked.streams, upg, taken, staged, doneSide, delivered, assembler, captured)  BY DEF WebSocketInv
<1>2. DeliveredFits(s, delivered[s], wsAsked.streams)  BY <1>1 DEF RelayFits
<1>3. delivered[s] \in Seq(SentFrames)  BY <1>2 DEF DeliveredFits
<1> QED  BY ONLY <1>1, <1>2, <1>3, s \in Sides DEF RelayFits

\* What is written is a frame, masked toward the upstream.
LEMMA WrittenIs ==
  ASSUME NEW to, NEW o \in SentOps, NEW n \in Nat, NEW by \in {"peer", "user", "proxy"}, NEW f, f = write_ws_frame(to, o, n, by)
  PROVE  f \in SentFrames /\ (f.masked <=> to = "upstream") /\ f.by = by /\ f.n = n /\ f.op = o
<1>1. PICK w \in BOOLEAN : w = (to = "upstream")  OBVIOUS
<1>2. f = [op |-> o, n |-> n, by |-> by, masked |-> w]  BY <1>1 DEF write_ws_frame
<1>3. f \in SentFrames
  <2>1. PICK O : O = SentOps  OBVIOUS
  <2>2. o \in O  BY <2>1
  <2>3. SentFrames = [op : O, n : Nat, by : {"peer", "user", "proxy"}, masked : BOOLEAN]  BY <2>1 DEF SentFrames
  <2> QED  BY ONLY <1>2, <2>2, <2>3, n \in Nat, by \in {"peer", "user", "proxy"}, w \in BOOLEAN
<1>4. f.masked = w /\ f.by = by /\ f.n = n /\ f.op = o  BY ONLY <1>2
<1>5. f.masked <=> to = "upstream"
  <2>1. CASE to = "upstream"
    <3>1. w = TRUE  BY <1>1, <2>1, Zenon
    <3> QED  BY <1>4, <2>1, <3>1
  <2>2. CASE to # "upstream"
    <3>1. w = FALSE  BY <1>1, <2>2, Zenon
    <3> QED  BY <1>4, <2>2, <3>1
  <2> QED  BY <2>1, <2>2
<1> QED  BY ONLY <1>3, <1>4, <1>5

\* Initially nothing was read or sent.
LEMMA WsStart ==
  ASSUME WebSocketInit
  PROVE  WebSocketInv
<1>1. wsAsked \in WsCases /\ \A s \in Sides : wsAsked.streams[s] \in Seq(Frames)  BY WebSocketAssumption DEF WebSocketInit
<1>2. HeadFits(head)  BY DEF WebSocketInit, NoHead, HeadFits
<1>3. PhaseInv(upg, head, wsAsked.refusal, answer, record, relayPermit, registry, uiStatus)
  <2>1. upg = "dialing" /\ record = <<>> /\ relayPermit = FALSE /\ registry = "none" /\ uiStatus = "none" /\ answer.status = 0
    BY DEF WebSocketInit, Answered
  <2> QED  BY ONLY <2>1 DEF PhaseInv
<1>4. injectQueue \in Seq(Injects) /\ upg # "head"  BY DEF WebSocketInit
<1>5. ASSUME NEW s \in Sides
      PROVE SideFits(wsAsked.streams[s], taken[s], staged[s], Relayed(upg) /\ ~doneSide[s], delivered[Other(s)], assembler[s])
            /\ CapturedFits(wsAsked.streams[s], captured[s]) /\ DeliveredFits(s, delivered[s], wsAsked.streams)
  <2>1. PICK q \in Seq(Frames) : q = wsAsked.streams[s]  BY <1>1
  <2>2. PICK e : e = <<>>  OBVIOUS
  <2>3. Len(e) = 0 /\ 1..0 = {} /\ e \in Seq(Nat \X Nat) /\ e \in Seq(Messages) /\ e \in Seq(SentFrames)  BY <2>2
  <2>4. taken[s] = 0 /\ staged[s] = e /\ delivered[Other(s)] = e /\ delivered[s] = e /\ captured[s] = e /\ assembler[s] = Idle
    BY <2>2, SidesAre DEF WebSocketInit
  <2>5. PICK N \in Nat : N = Len(q)  OBVIOUS
  <2>6. StagedFits(q, 0, 0, e)
    <3>1. 0 \in Nat /\ 2 * 0 <= 0 /\ 0 <= 2 * N /\ 0 - 2 * 0 = 0  OBVIOUS
    <3> QED  BY ONLY <2>3, <2>5, <3>1 DEF StagedFits
  <2>7. PeerPlaces(e) = {}  BY ONLY <2>3 DEF PeerPlaces
  <2>8. ASSUME NEW o PROVE SentFits(q, 0, o, e)  BY ONLY <2>3, <2>7 DEF SentFits
  <2>9. ~OpenAt(q, 0 + 1)
    <3>1. \A j \in DataOf(q) : ~(j < 0 + 1)
      <4>1. \A j \in DOMAIN q : j \in Nat /\ j >= 1  OBVIOUS
      <4> QED  BY <4>1 DEF DataOf
    <3> QED  BY <3>1 DEF OpenAt
  <2>10. AssemblerFits(q, 0, Idle)  BY <2>9, IdleIs DEF AssemblerFits
  <2>11. CapturedFits(q, e) /\ DeliveredFits(s, e, wsAsked.streams)  BY ONLY <2>3 DEF CapturedFits, DeliveredFits
  <2>12. 0 \in 0..Len(q)  BY <2>5
  <2>13. ASSUME NEW o PROVE SideFits(q, 0, e, o, e, Idle)  BY ONLY <2>6, <2>8, <2>10, <2>12 DEF SideFits
  <2> QED  BY ONLY <2>1, <2>4, <2>11, <2>13
<1>6. taken = [s \in Sides |-> taken[s]] /\ staged = [s \in Sides |-> staged[s]] /\ doneSide \in [Sides -> BOOLEAN]
      /\ delivered = [s \in Sides |-> delivered[s]] /\ assembler = [s \in Sides |-> assembler[s]] /\ captured = [s \in Sides |-> captured[s]]
  BY DEF WebSocketInit
<1>7. RelayFits(wsAsked.streams, upg, taken, staged, doneSide, delivered, assembler, captured)  BY ONLY <1>1, <1>5, <1>6 DEF RelayFits
<1> QED  BY ONLY <1>1, <1>2, <1>3, <1>4, <1>7 DEF WebSocketInv

\* Nothing of the relay changes with the handler, whose phases relay less and less.
LEMMA HandlerKeeps ==
  ASSUME WebSocketInv, UNCHANGED <<wsAsked, relayState>>, NEW p, upg' = p, Relayed(p) => Relayed(upg)
  PROVE  RelayFits(wsAsked.streams, upg, taken, staged, doneSide, delivered, assembler, captured)'
<1>1. RelayFits(wsAsked.streams, upg, taken, staged, doneSide, delivered, assembler, captured)  BY DEF WebSocketInv
<1>2. RelayFits(wsAsked.streams, p, taken, staged, doneSide, delivered, assembler, captured)  BY ONLY <1>1, Relayed(p) => Relayed(upg), RelayPhase
<1> QED  BY <1>2 DEF relayState

\* Dialling ends with a head or an error.
LEMMA EstablishKeeps ==
  ASSUME WebSocketInv, Establish
  PROVE  WebSocketInv'
<1>1. upg = "dialing" /\ UNCHANGED <<wsAsked, freePermits, relayPermit, relayState, tables>>  BY DEF Establish
<1>2. PhaseInv(upg, head, wsAsked.refusal, answer, record, relayPermit, registry, uiStatus)  BY DEF WebSocketInv
<1>3. record = <<>> /\ answer.status = 0 /\ registry = "none" /\ uiStatus = "none" /\ ~relayPermit  BY <1>1, <1>2 DEF PhaseInv
<1>4. relayPermit' = relayPermit /\ registry' = "none" /\ uiStatus' = "none" /\ injectQueue' = injectQueue /\ wsAsked' = wsAsked  BY <1>1, <1>3 DEF tables
<1>5. wsAsked' \in WsCases /\ (injectQueue \in Seq(Injects))'  BY <1>4 DEF WebSocketInv
<1>6. Relayed(upg)  BY <1>1 DEF Relayed
<1>7. PICK p : p = upg'  OBVIOUS
<1>8. RelayFits(wsAsked.streams, upg, taken, staged, doneSide, delivered, assembler, captured)'  BY <1>1, <1>6, <1>7, HandlerKeeps
<1>9. CASE /\ head' \in {parse_upstream_response_head(h) : h \in Answers(build_ws_upgrade_request(wsAsked.req))}
           /\ upg' = "head" /\ UNCHANGED <<answer, record>>
  <2>1. PICK h \in Answers(build_ws_upgrade_request(wsAsked.req)) : head' = parse_upstream_response_head(h)  BY <1>9
  <2>2. h \in Heads /\ ~h.ext  BY <2>1 DEF Answers, build_ws_upgrade_request
  <2>3. h.framing \in {"length", "chunked", "close"} /\ h.total \in Nat
        /\ h = [status |-> h.status, connection |-> h.connection, upgrade |-> h.upgrade, accept |-> h.accept,
                ext |-> h.ext, legal |-> h.legal, framing |-> h.framing, total |-> h.total]  BY <2>2, WebSocketAssumption
  <2>4. PICK v : v = IF h.status = 0 THEN 502 ELSE h.status  OBVIOUS
  <2>5. v # 0  BY <2>4
  <2>6. head' = [h EXCEPT !.status = v]  BY <2>1, <2>4 DEF parse_upstream_response_head
  <2>7. head' = [status |-> v, connection |-> h.connection, upgrade |-> h.upgrade, accept |-> h.accept,
                 ext |-> h.ext, legal |-> h.legal, framing |-> h.framing, total |-> h.total]  BY ONLY <2>3, <2>6
  <2>8. head'.status = v /\ head'.ext = h.ext /\ head'.framing = h.framing /\ head'.total = h.total  BY ONLY <2>7
  <2>9. HeadFits(head)'  BY <2>2, <2>3, <2>8 DEF HeadFits
  <2>10. (head.status # 0 /\ head = [status |-> head.status, connection |-> head.connection, upgrade |-> head.upgrade,
       accept |-> head.accept, ext |-> head.ext, legal |-> head.legal, framing |-> head.framing, total |-> head.total])'
    BY ONLY <2>5, <2>7
  <2>11. upg' = "head" /\ record' = <<>> /\ answer'.status = 0 /\ ~relayPermit'  BY <1>3, <1>4, <1>9
  <2>12. PhaseInv(upg, head, wsAsked.refusal, answer, record, relayPermit, registry, uiStatus)'  BY ONLY <1>4, <2>11 DEF PhaseInv
  <2> QED  BY ONLY <1>5, <1>8, <2>9, <2>10, <2>12 DEF WebSocketInv
<1>10. CASE send_ws_upstream_error_session /\ UNCHANGED head
  <2>1. answer' = Answered(502, <<>>, NoHead) /\ record' = Append(record, 502) /\ upg' = "answered"  BY <1>10 DEF send_ws_upstream_error_session, Answer
  <2>2. answer'.status = 502 /\ ~answer'.as.connection /\ answer'.as.status = 0  BY <2>1 DEF Answered, NoHead
  <2>3. record' = <<502>>  BY <1>3, <2>1
  <2>4. PhaseInv(upg, head, wsAsked.refusal, answer, record, relayPermit, registry, uiStatus)'
    BY ONLY <1>3, <1>4, <2>1, <2>2, <2>3 DEF PhaseInv
  <2>5. HeadFits(head)' /\ upg' # "head"  BY <1>10, <2>1 DEF WebSocketInv
  <2> QED  BY ONLY <1>5, <1>8, <2>4, <2>5 DEF WebSocketInv
<1> QED  BY <1>9, <1>10 DEF Establish

\* A refusal that is answered is no upgrade, and its body is what was sent.
LEMMA AnswerKeeps ==
  ASSUME WebSocketInv, upg = "head", UNCHANGED <<wsAsked, head, freePermits, relayPermit, relayState, tables>>,
         NEW status, NEW body, NEW as, Answer(status, body, as), status # 101, ~as.connection,
         as.status # 0 /\ head.status # 101 => BodyIsAnswered(head, wsAsked.refusal, body)
  PROVE  WebSocketInv'
<1>1. PhaseInv(upg, head, wsAsked.refusal, answer, record, relayPermit, registry, uiStatus)  BY DEF WebSocketInv
<1>2. record = <<>> /\ registry = "none" /\ uiStatus = "none" /\ ~relayPermit  BY <1>1 DEF PhaseInv
<1>3. relayPermit' = relayPermit /\ registry' = "none" /\ uiStatus' = "none" /\ injectQueue' = injectQueue /\ wsAsked' = wsAsked /\ head' = head
  BY <1>2 DEF tables
<1>4. wsAsked' \in WsCases /\ (injectQueue \in Seq(Injects))' /\ HeadFits(head)'  BY <1>3 DEF WebSocketInv
<1>5. answer' = Answered(status, body, as) /\ record' = <<status>> /\ upg' = "answered"  BY <1>2 DEF Answer
<1>6. answer'.status = status /\ answer'.body = body /\ answer'.as = as  BY <1>5 DEF Answered
<1>7. (answer.as.status # 0 /\ head.status # 101 => BodyIsAnswered(head, wsAsked.refusal, answer.body))'  BY <1>3, <1>6
<1>8. PhaseInv(upg, head, wsAsked.refusal, answer, record, relayPermit, registry, uiStatus)'
  BY ONLY <1>2, <1>3, <1>5, <1>6, <1>7, status # 101, ~as.connection DEF PhaseInv
<1>9. RelayFits(wsAsked.streams, upg, taken, staged, doneSide, delivered, assembler, captured)'
  <2>1. Relayed(upg)  BY DEF Relayed
  <2> QED  BY <1>5, <2>1, HandlerKeeps
<1>10. upg' # "head"  BY <1>5
<1> QED  BY ONLY <1>4, <1>8, <1>9, <1>10 DEF WebSocketInv

\* The refusals.
LEMMA RefuseKeeps ==
  ASSUME WebSocketInv, Refuse \/ RefuseForLimit \/ RefuseUnbuildable
  PROVE  WebSocketInv'
<1>1. upg = "head" /\ UNCHANGED <<wsAsked, head, freePermits, relayPermit, relayState, tables>>  BY DEF Refuse, RefuseForLimit, RefuseUnbuildable
<1>2. ~NoHead.connection /\ NoHead.status = 0 /\ 502 # 101 /\ 503 # 101  BY DEF NoHead
<1>3. CASE Answer(502, <<>>, NoHead)
  <2>1. PICK v : v = 502  OBVIOUS
  <2>2. PICK e : e = <<>>  OBVIOUS
  <2>3. PICK h : h = NoHead  OBVIOUS
  <2>4. Answer(v, e, h) /\ v # 101 /\ ~h.connection /\ h.status = 0  BY <1>2, <1>3, <2>1, <2>2, <2>3
  <2> QED  BY <1>1, <2>4, AnswerKeeps
<1>4. CASE Answer(503, <<>>, NoHead)
  <2>1. PICK v : v = 503  OBVIOUS
  <2>2. PICK e : e = <<>>  OBVIOUS
  <2>3. PICK h : h = NoHead  OBVIOUS
  <2>4. Answer(v, e, h) /\ v # 101 /\ ~h.connection /\ h.status = 0  BY <1>2, <1>4, <2>1, <2>2, <2>3
  <2> QED  BY <1>1, <2>4, AnswerKeeps
<1>5. CASE Refuse /\ ~Answer(502, <<>>, NoHead)
  <2>1. PICK malformed \in BOOLEAN : malformed = (head.status = 101)  OBVIOUS
  <2>2. PICK body : body = IF malformed THEN Read(TRUE, wsAsked.refusal.leftover) ELSE read_full_response_body(head, wsAsked.refusal)  OBVIOUS
  <2>3. PICK as : as = should_forward_refusal_header(head, malformed)  OBVIOUS
  <2>4. PICK v : v = IF malformed THEN 502 ELSE head.status  OBVIOUS
  <2>5. PICK bytes : bytes = body.bytes  OBVIOUS
  <2>6. Answer(v, bytes, as)  BY <1>5, <2>1, <2>2, <2>3, <2>4, <2>5 DEF Refuse, send_ws_upstream_error_session
  <2>7. malformed <=> head.status = 101  BY <2>1
  <2>8. v # 101  BY <2>4, <2>7
  <2>9. ~as.connection
    <3>1. PICK h : h = head  OBVIOUS
    <3>2. h = [status |-> h.status, connection |-> h.connection, upgrade |-> h.upgrade,
       accept |-> h.accept, ext |-> h.ext, legal |-> h.legal, framing |-> h.framing, total |-> h.total]  BY <1>1, <3>1 DEF WebSocketInv
    <3>3. CASE malformed
      <4>1. as = [h EXCEPT !.upgrade = FALSE, !.accept = "none", !.ext = FALSE, !.connection = FALSE]  BY <2>3, <3>1, <3>3 DEF should_forward_refusal_header
      <4> QED  BY ONLY <3>2, <4>1
    <3>4. CASE ~malformed
      <4>1. as = [h EXCEPT !.connection = FALSE]  BY <2>3, <3>1, <3>4 DEF should_forward_refusal_header
      <4> QED  BY ONLY <3>2, <4>1
    <3> QED  BY <3>3, <3>4
  <2>10. as.status # 0 /\ head.status # 101 => BodyIsAnswered(head, wsAsked.refusal, bytes)
    <3>1. HAVE as.status # 0 /\ head.status # 101
    <3>2. bytes = read_full_response_body(head, wsAsked.refusal).bytes  BY <2>2, <2>5, <2>7, <3>1
    <3>3. PICK r : r = wsAsked.refusal  OBVIOUS
    <3>4. PICK h : h = head  OBVIOUS
    <3>5. r.leftover \in Seq(Nat) /\ r.rest \in Seq(Nat) /\ r.chunks \in Seq(Chunks) /\ HeadFits(h)
      BY <3>3, <3>4, WebSocketAssumption DEF WebSocketInv
    <3>6. bytes = read_full_response_body(h, r).bytes  BY <3>2, <3>3, <3>4
    <3>7. BodyIsAnswered(h, r, bytes)  BY ONLY <3>5, <3>6, BodyReadIs
    <3> QED  BY ONLY <3>3, <3>4, <3>7
  <2> QED  BY <1>1, <2>6, <2>8, <2>9, <2>10, AnswerKeeps
<1> QED  BY <1>3, <1>4, <1>5 DEF RefuseForLimit, RefuseUnbuildable, send_ws_upstream_error_session

\* The other steps of the handler and of the registry.
LEMMA HandlerStepKeeps ==
  ASSUME WebSocketInv, Register \/ SpawnRelay \/ ClientLeaves \/ OnUpgrade \/ EndRelay \/ mark_closed \/ unregister \/ inject_ws_message
  PROVE  WebSocketInv'
<1>1. PhaseInv(upg, head, wsAsked.refusal, answer, record, relayPermit, registry, uiStatus) /\ wsAsked \in WsCases /\ HeadFits(head) /\ injectQueue \in Seq(Injects)
  BY DEF WebSocketInv
<1>2. UNCHANGED <<wsAsked, relayState>> /\ head' = head
  BY DEF Register, SpawnRelay, ClientLeaves, OnUpgrade, EndRelay, mark_closed, unregister, inject_ws_message, Handler
<1>3. wsAsked' \in WsCases /\ HeadFits(head)'  BY <1>1, <1>2
<1>4. (injectQueue \in Seq(Injects))'
  <2>1. CASE injectQueue' = injectQueue  BY <1>1, <2>1
  <2>2. CASE injectQueue' = <<>>
    <3>1. <<>> \in Seq(Injects)  OBVIOUS
    <3> QED  BY <2>2, <3>1
  <2>3. CASE inject_ws_message
    <3>1. PICK q \in Injects : injectQueue' = Append(injectQueue, q)  BY <2>3 DEF inject_ws_message
    <3> QED  BY <1>1, <3>1, AppendProperties
  <2> QED  BY <2>1, <2>2, <2>3 DEF Register, SpawnRelay, ClientLeaves, OnUpgrade, EndRelay, mark_closed, unregister, tables
<1>5. PICK p : p = upg'  OBVIOUS
<1>6. Relayed(p) => Relayed(upg)
  BY <1>5 DEF Relayed, Register, SpawnRelay, ClientLeaves, OnUpgrade, EndRelay, mark_closed, unregister, inject_ws_message
<1>7. RelayFits(wsAsked.streams, upg, taken, staged, doneSide, delivered, assembler, captured)'  BY <1>2, <1>5, <1>6, HandlerKeeps
<1>8. upg' = "head" => upg = "head"
  BY DEF Register, SpawnRelay, ClientLeaves, OnUpgrade, EndRelay, mark_closed, unregister, inject_ws_message
<1>9. (upg = "head" => head.status # 0 /\ head = [status |-> head.status, connection |-> head.connection, upgrade |-> head.upgrade,
       accept |-> head.accept, ext |-> head.ext, legal |-> head.legal, framing |-> head.framing, total |-> head.total])'
  BY <1>2, <1>8 DEF WebSocketInv
<1>10. PhaseInv(upg, head, wsAsked.refusal, answer, record, relayPermit, registry, uiStatus)'
  <2>1. CASE Register
    <3>1. upg = "head" /\ head.status = 101 /\ upg' = "recording" /\ relayPermit' = TRUE /\ registry' = "active" /\ uiStatus' = "active"
          /\ answer' = answer /\ record' = record  BY <2>1 DEF Register, Agreed, register, emit_ws_connection_status
    <3>2. record = <<>> /\ answer.status = 0  BY <1>1, <3>1 DEF PhaseInv
    <3> QED  BY ONLY <1>2, <3>1, <3>2 DEF PhaseInv
  <2>2. CASE SpawnRelay
    <3>1. upg = "recording" /\ upg' = "spawned" /\ record' = Append(record, 101) /\ answer'.status = 101
          /\ relayPermit' = relayPermit /\ registry' = registry /\ uiStatus' = uiStatus  BY <2>2 DEF SpawnRelay, Answered, tables
    <3>2. record = <<>> /\ registry = "active" /\ uiStatus = "active" /\ relayPermit  BY <1>1, <3>1 DEF PhaseInv
    <3>3. record' = <<101>>  BY <3>1, <3>2
    <3> QED  BY ONLY <3>1, <3>2, <3>3 DEF PhaseInv
  <2>3. CASE ClientLeaves
    <3>1. upg \in {"dialing", "head", "recording"} /\ upg' = "abandoned" /\ record' = Append(record, 499) /\ answer' = answer /\ relayPermit' = FALSE
      BY <2>3 DEF ClientLeaves
    <3>2. record = <<>> /\ answer.status = 0  BY <1>1, <3>1 DEF PhaseInv
    <3>3. record' = <<499>>  BY <3>1, <3>2
    <3> QED  BY ONLY <3>1, <3>2, <3>3 DEF PhaseInv
  <2>4. CASE OnUpgrade
    <3>1. upg = "spawned" /\ upg' \in {"relaying", "closing"} /\ record' = record /\ answer' = answer /\ relayPermit' = relayPermit
          /\ registry' = registry /\ uiStatus' = uiStatus  BY <2>4 DEF OnUpgrade, Handler, tables
    <3>2. record = <<101>> /\ answer.status = 101 /\ registry = "active" /\ uiStatus = "active" /\ relayPermit  BY <1>1, <3>1 DEF PhaseInv
    <3> QED  BY ONLY <3>1, <3>2 DEF PhaseInv
  <2>5. CASE EndRelay
    <3>1. upg = "relaying" /\ upg' = "closing" /\ record' = record /\ answer' = answer /\ relayPermit' = relayPermit
          /\ registry' = registry /\ uiStatus' = uiStatus  BY <2>5 DEF EndRelay, Handler, tables
    <3>2. record = <<101>> /\ answer.status = 101 /\ registry = "active" /\ uiStatus = "active" /\ relayPermit  BY <1>1, <3>1 DEF PhaseInv
    <3> QED  BY ONLY <3>1, <3>2 DEF PhaseInv
  <2>6. CASE mark_closed
    <3>1. upg = "closing" /\ upg' = "closing" /\ record' = record /\ answer' = answer /\ relayPermit' = relayPermit
          /\ registry' = "closed" /\ uiStatus' = "closed"  BY <2>6 DEF mark_closed, Handler, emit_ws_connection_status
    <3>2. record = <<101>> /\ answer.status = 101 /\ relayPermit  BY <1>1, <3>1 DEF PhaseInv
    <3> QED  BY ONLY <3>1, <3>2 DEF PhaseInv
  <2>7. CASE unregister
    <3>1. upg = "closing" /\ upg' = "gone" /\ registry = "closed" /\ record' = record /\ answer' = answer /\ relayPermit' = FALSE
          /\ registry' = "none" /\ uiStatus' = uiStatus  BY <2>7 DEF unregister, Handler
    <3>2. record = <<101>> /\ answer.status = 101 /\ uiStatus = "closed"  BY <1>1, <3>1 DEF PhaseInv
    <3> QED  BY ONLY <3>1, <3>2 DEF PhaseInv
  <2>8. CASE inject_ws_message
    <3>1. upg' = upg /\ record' = record /\ answer' = answer /\ relayPermit' = relayPermit /\ registry' = registry /\ uiStatus' = uiStatus /\ wsAsked' = wsAsked /\ head' = head
      BY <2>8 DEF inject_ws_message, Handler
    <3> QED  BY ONLY <1>1, <3>1
  <2> QED  BY <2>1, <2>2, <2>3, <2>4, <2>5, <2>6, <2>7, <2>8
<1> QED  BY ONLY <1>3, <1>4, <1>7, <1>9, <1>10 DEF WebSocketInv

\* The relay's steps leave the phase to the handler's facts, unless they end it.
LEMMA RelayStepPhase ==
  ASSUME WebSocketInv, upg = "relaying", upg' \in {"relaying", "closing", "stuck"}, UNCHANGED <<Handler, relayPermit, registry, uiStatus>>,
         (injectQueue \in Seq(Injects))',
         RelayFits(wsAsked.streams, upg, taken, staged, doneSide, delivered, assembler, captured)'
  PROVE  WebSocketInv'
<1>1. PhaseInv(upg, head, wsAsked.refusal, answer, record, relayPermit, registry, uiStatus) /\ wsAsked \in WsCases /\ HeadFits(head)
  BY DEF WebSocketInv
<1>2. record = <<101>> /\ answer.status = 101 /\ registry = "active" /\ uiStatus = "active" /\ relayPermit  BY <1>1 DEF PhaseInv
<1>3. record' = record /\ answer' = answer /\ head' = head /\ wsAsked' = wsAsked /\ relayPermit' = relayPermit /\ registry' = registry /\ uiStatus' = uiStatus
  BY DEF Handler
<1>4. PhaseInv(upg, head, wsAsked.refusal, answer, record, relayPermit, registry, uiStatus)'
  BY ONLY <1>2, <1>3, upg' \in {"relaying", "closing", "stuck"} DEF PhaseInv
<1>5. wsAsked' \in WsCases /\ HeadFits(head)' /\ upg' # "head"  BY <1>1, <1>3
<1> QED  BY ONLY <1>4, <1>5, (injectQueue \in Seq(Injects))',
            RelayFits(wsAsked.streams, upg, taken, staged, doneSide, delivered, assembler, captured)' DEF WebSocketInv

\* A read stages the next pieces.
LEMMA ReadKeeps ==
  ASSUME WebSocketInv, NEW s \in Sides, read_ws_frame(s)
  PROVE  WebSocketInv'
<1>1. upg = "relaying" /\ upg' = upg /\ UNCHANGED <<Handler, relayPermit, tables, doneSide, writable, grace, assembler, captured, delivered>>
  BY DEF read_ws_frame, Reading
<1>2. PICK k \in (taken[s] + 1)..Len(Pieces(s)) :
        taken' = [taken EXCEPT ![s] = k] /\ staged' = [staged EXCEPT ![s] = @ \o SubSeq(Pieces(s), taken[s] + 1, k)]
  BY DEF read_ws_frame
<1>3. PICK q : q = wsAsked.streams[s]  OBVIOUS
<1>4. q \in Seq(Frames) /\ SideFits(q, taken[s], staged[s], Relayed(upg) /\ ~doneSide[s], delivered[Other(s)], assembler[s])
  BY <1>3, SideOf
<1>5. PICK m \in 0..Len(q) : /\ StagedFits(q, m, taken[s], staged[s]) /\ SentFits(q, m, Relayed(upg) /\ ~doneSide[s], delivered[Other(s)])
                             /\ AssemblerFits(q, m, assembler[s])  BY <1>4 DEF SideFits
<1>6. PICK P : P = Pieces(s)  OBVIOUS
<1>7. P = [i \in 1..(2 * Len(q)) |-> <<(i + 1) \div 2, 2 - (i % 2)>>]  BY <1>3, <1>6 DEF Pieces, Stream
<1>8. PICK n : n = taken[s]  OBVIOUS
<1>9. PICK buf : buf = staged[s]  OBVIOUS
<1>10. k \in (n + 1)..Len(P) /\ StagedFits(q, m, n, buf)  BY <1>2, <1>5, <1>6, <1>8, <1>9
<1>11. StagedFits(q, m, k, buf \o SubSeq(P, n + 1, k))  BY ONLY <1>4, <1>7, <1>10, m \in 0..Len(q), StageGrows
<1>12. PICK w : w = buf \o SubSeq(P, n + 1, k)  OBVIOUS
<1>13. taken' = [taken EXCEPT ![s] = k] /\ staged' = [staged EXCEPT ![s] = w]  BY <1>2, <1>6, <1>8, <1>9, <1>12
<1>14. RelayFits(wsAsked.streams, upg, taken, staged, doneSide, delivered, assembler, captured)  BY DEF WebSocketInv
<1>15. taken = [t \in Sides |-> taken[t]] /\ staged = [t \in Sides |-> staged[t]]  BY <1>14 DEF RelayFits
<1>16. taken' = [t \in Sides |-> taken'[t]] /\ staged' = [t \in Sides |-> staged'[t]] /\ taken'[s] = k /\ staged'[s] = w
       /\ \A t \in Sides : t # s => taken'[t] = taken[t] /\ staged'[t] = staged[t]  BY ONLY <1>13, <1>15, s \in Sides
<1>17. SideFits(q, k, w, Relayed(upg) /\ ~doneSide[s], delivered[Other(s)], assembler[s])
  <2>1. StagedFits(q, m, k, w)  BY <1>11, <1>12
  <2> QED  BY ONLY <1>5, <2>1 DEF SideFits
<1>18. wsAsked' = wsAsked /\ upg' = upg /\ doneSide' = doneSide /\ delivered' = delivered /\ assembler' = assembler /\ captured' = captured
  BY <1>1 DEF Handler
<1>19. ASSUME NEW t \in Sides
       PROVE  SideFits(wsAsked.streams[t], taken'[t], staged'[t], Relayed(upg) /\ ~doneSide[t], delivered[Other(t)], assembler[t])
  <2>1. CASE t = s  BY ONLY <1>3, <1>16, <1>17, <2>1
  <2>2. CASE t # s  BY ONLY <1>14, <1>16, <2>2, t \in Sides DEF RelayFits
  <2> QED  BY <2>1, <2>2
<1>20. RelayFits(wsAsked.streams, upg, taken', staged', doneSide, delivered, assembler, captured)
  <2>1. (\A t \in Sides : wsAsked.streams[t] \in Seq(Frames)) /\ doneSide \in [Sides -> BOOLEAN]
        /\ delivered = [t \in Sides |-> delivered[t]] /\ assembler = [t \in Sides |-> assembler[t]] /\ captured = [t \in Sides |-> captured[t]]
        /\ \A t \in Sides : CapturedFits(wsAsked.streams[t], captured[t]) /\ DeliveredFits(t, delivered[t], wsAsked.streams)
    BY ONLY <1>14 DEF RelayFits
  <2> QED  BY ONLY <1>16, <1>19, <2>1 DEF RelayFits
<1>21. RelayFits(wsAsked.streams, upg, taken, staged, doneSide, delivered, assembler, captured)'  BY ONLY <1>18, <1>20
<1>22. (injectQueue \in Seq(Injects))' /\ UNCHANGED <<Handler, relayPermit, registry, uiStatus>> /\ upg' \in {"relaying", "closing", "stuck"}
  BY <1>1 DEF WebSocketInv, tables
<1> QED  BY ONLY <1>1, <1>21, <1>22, WebSocketInv, RelayStepPhase

NoneIsBad(streams) == \A t \in Sides : \A i \in DOMAIN streams[t] : streams[t][i].op # "bad"
Beside(to, f, streams) == f.by # "peer" /\ (f.masked <=> to = "upstream") /\ (f.by = "proxy" => ~NoneIsBad(streams))

\* A step of the relay in which one frame that came from no peer is sent, or none is.
LEMMA BesideKeeps ==
  ASSUME WebSocketInv, NEW to \in Sides, NEW d, d = delivered[to] \/ \E f \in SentFrames : d = Append(delivered[to], f) /\ Beside(to, f, wsAsked.streams),
         delivered' = [delivered EXCEPT ![to] = d],
         NEW c, c = captured[Other(to)] \/ \E g \in Messages : c = Append(captured[Other(to)], g) /\ WholeFits(wsAsked.streams[Other(to)], g),
         captured' = [captured EXCEPT ![Other(to)] = c],
         NEW o, doneSide' = o, o \in [Sides -> BOOLEAN], \A t \in Sides : doneSide[t] => o[t],
         NEW p, upg' = p, Relayed(p) => Relayed(upg), UNCHANGED <<wsAsked, taken, staged, assembler>>
  PROVE  RelayFits(wsAsked.streams, upg, taken, staged, doneSide, delivered, assembler, captured)'
<1>1. RelayFits(wsAsked.streams, upg, taken, staged, doneSide, delivered, assembler, captured)  BY DEF WebSocketInv
<1>2. PICK from \in Sides : from = Other(to) /\ to = Other(from) /\ from # to /\ \A t \in Sides : t = to \/ t = from  BY SidesAre
<1>3. delivered = [t \in Sides |-> delivered[t]] /\ captured = [t \in Sides |-> captured[t]]  BY <1>1 DEF RelayFits
<1>4. delivered' = [t \in Sides |-> delivered'[t]] /\ delivered'[to] = d /\ delivered'[from] = delivered[from]
      /\ captured' = [t \in Sides |-> captured'[t]] /\ captured'[from] = c /\ captured'[to] = captured[to]
  BY ONLY <1>2, <1>3, delivered' = [delivered EXCEPT ![to] = d], captured' = [captured EXCEPT ![Other(to)] = c], to \in Sides, from \in Sides
<1>5. DeliveredFits(to, d, wsAsked.streams)
  <2>1. DeliveredFits(to, delivered[to], wsAsked.streams)  BY SideOf
  <2>2. CASE d = delivered[to]  BY <2>1, <2>2
  <2>3. CASE d # delivered[to]
    <3>1. PICK f \in SentFrames : d = Append(delivered[to], f) /\ Beside(to, f, wsAsked.streams)  BY <2>3
    <3>2. PICK streams : streams = wsAsked.streams  OBVIOUS
    <3>3. PICK e : e = delivered[to]  OBVIOUS
    <3>4. f.masked <=> to = "upstream"  BY ONLY <3>1 DEF Beside
    <3>5. f.by = "proxy" => ~\A t \in Sides : \A i \in DOMAIN streams[t] : streams[t][i].op # "bad"  BY ONLY <3>1, <3>2 DEF Beside, NoneIsBad
    <3>6. DeliveredFits(to, e, streams)  BY ONLY <2>1, <3>2, <3>3
    <3>7. DeliveredFits(to, Append(e, f), streams)  BY ONLY <3>4, <3>5, <3>6, f \in SentFrames, DeliveredGrows
    <3> QED  BY ONLY <3>1, <3>2, <3>3, <3>7
  <2> QED  BY <2>2, <2>3
<1>6. CapturedFits(wsAsked.streams[from], c)
  <2>1. CapturedFits(wsAsked.streams[from], captured[from])  BY SideOf
  <2>2. CASE c = captured[from]  BY <2>1, <2>2
  <2>3. CASE c # captured[from]
    <3>1. PICK g \in Messages : c = Append(captured[from], g) /\ WholeFits(wsAsked.streams[from], g)  BY <1>2, <2>3
    <3> QED  BY ONLY <2>1, <3>1, CapturedGrows
  <2> QED  BY <2>2, <2>3
<1>7. SideFits(wsAsked.streams[from], taken[from], staged[from], Relayed(upg) /\ ~doneSide[from], d, assembler[from])
  <2>1. PICK e : e = delivered[to]  OBVIOUS
  <2>2. wsAsked.streams[from] \in Seq(Frames) /\ e \in Seq(SentFrames)
        /\ SideFits(wsAsked.streams[from], taken[from], staged[from], Relayed(upg) /\ ~doneSide[from], e, assembler[from])
    BY <1>2, <2>1, SideOf
  <2>3. CASE d = e  BY <2>2, <2>3
  <2>4. CASE d # e
    <3>1. PICK f \in SentFrames : d = Append(e, f) /\ f.by # "peer"
      <4>1. PICK f \in SentFrames : d = Append(delivered[to], f) /\ Beside(to, f, wsAsked.streams)  BY <2>1, <2>4
      <4>2. f.by # "peer"  BY ONLY <4>1 DEF Beside
      <4> QED  BY ONLY <2>1, <4>1, <4>2
    <3>2. SideFits(wsAsked.streams[from], taken[from], staged[from], Relayed(upg) /\ ~doneSide[from], Append(e, f), assembler[from])
      BY ONLY <2>2, <3>1, SideBeside
    <3> QED  BY <3>1, <3>2
  <2> QED  BY <2>3, <2>4
<1>8. SideFits(wsAsked.streams[to], taken[to], staged[to], Relayed(upg) /\ ~doneSide[to], delivered[from], assembler[to])  BY <1>2, SideOf
<1>9. ASSUME NEW t \in Sides
      PROVE  /\ SideFits(wsAsked.streams[t], taken[t], staged[t], Relayed(p) /\ ~o[t], delivered'[Other(t)], assembler[t])
             /\ CapturedFits(wsAsked.streams[t], captured'[t]) /\ DeliveredFits(t, delivered'[t], wsAsked.streams)
  <2>1. wsAsked.streams[t] \in Seq(Frames)  BY SideOf
  <2>2. (Relayed(p) /\ ~o[t]) => (Relayed(upg) /\ ~doneSide[t])  OBVIOUS
  <2>3. SideFits(wsAsked.streams[t], taken[t], staged[t], Relayed(upg) /\ ~doneSide[t], delivered'[Other(t)], assembler[t])
    BY ONLY <1>2, <1>4, <1>7, <1>8, t \in Sides
  <2>4. PICK e : e = delivered'[Other(t)]  OBVIOUS
  <2>5. SideFits(wsAsked.streams[t], taken[t], staged[t], Relayed(upg) /\ ~doneSide[t], e, assembler[t])  BY ONLY <2>3, <2>4
  <2>6. SideFits(wsAsked.streams[t], taken[t], staged[t], Relayed(p) /\ ~o[t], e, assembler[t])  BY ONLY <2>1, <2>2, <2>5, SideLess
  <2>7. CapturedFits(wsAsked.streams[to], captured[to]) /\ DeliveredFits(from, delivered[from], wsAsked.streams)  BY SideOf
  <2>8. CapturedFits(wsAsked.streams[t], captured'[t]) /\ DeliveredFits(t, delivered'[t], wsAsked.streams)
    BY ONLY <1>2, <1>4, <1>5, <1>6, <2>7, t \in Sides
  <2> QED  BY ONLY <2>4, <2>6, <2>8
<1>10. RelayFits(wsAsked.streams, p, taken, staged, o, delivered', assembler, captured')
  <2>1. (\A t \in Sides : wsAsked.streams[t] \in Seq(Frames)) /\ taken = [t \in Sides |-> taken[t]] /\ staged = [t \in Sides |-> staged[t]]
        /\ assembler = [t \in Sides |-> assembler[t]]  BY ONLY <1>1 DEF RelayFits
  <2> QED  BY ONLY <1>4, <1>9, <2>1, o \in [Sides -> BOOLEAN] DEF RelayFits
<1>11. wsAsked' = wsAsked /\ taken' = taken /\ staged' = staged /\ assembler' = assembler /\ upg' = p /\ doneSide' = o  OBVIOUS
<1> QED  BY ONLY <1>10, <1>11

\* A relay step that reads nothing leaves what is staged, whoever won.
LEMMA StagedStays ==
  ASSUME WebSocketInv, NEW s \in Sides
  PROVE  Cancelled(s) = staged /\ [t \in Sides |-> AfterCancel(staged[t])] = staged
<1>1. staged = [t \in Sides |-> staged[t]]  BY DEF WebSocketInv, RelayFits
<1>2. PICK S : S = staged  OBVIOUS
<1>3. S = [t \in Sides |-> S[t]]  BY <1>1, <1>2
<1>4. Cancelled(s) = [S EXCEPT ![Other(s)] = S[Other(s)]]  BY <1>2 DEF Cancelled, AfterCancel
<1>5. [S EXCEPT ![Other(s)] = S[Other(s)]] = S  BY ONLY <1>3
<1>6. [t \in Sides |-> AfterCancel(staged[t])] = S  BY ONLY <1>2, <1>3 DEF AfterCancel
<1> QED  BY <1>2, <1>4, <1>5, <1>6

\* The read of a side ends; who broke the protocol is told.
LEMMA ReadFailsKeeps ==
  ASSUME WebSocketInv, NEW s \in Sides, ReadFails(s)
  PROVE  WebSocketInv'
<1>1. upg = "relaying" /\ upg' = upg /\ UNCHANGED <<Handler, relayPermit, tables, taken, writable, assembler, captured>>
  BY DEF ReadFails, Reading
<1>2. staged' = staged  BY StagedStays DEF ReadFails
<1>3. PICK o : o = [doneSide EXCEPT ![s] = TRUE]  OBVIOUS
<1>4. doneSide \in [Sides -> BOOLEAN]  BY DEF WebSocketInv, RelayFits
<1>5. doneSide' = o /\ o \in [Sides -> BOOLEAN] /\ \A t \in Sides : doneSide[t] => o[t]
  <2>1. o \in [Sides -> BOOLEAN]  BY <1>3, <1>4
  <2>2. \A t \in Sides : doneSide[t] => o[t]  BY <1>3, <1>4
  <2> QED  BY <1>3, <2>1, <2>2 DEF ReadFails
<1>6. delivered = [t \in Sides |-> delivered[t]] /\ captured = [t \in Sides |-> captured[t]]  BY DEF WebSocketInv, RelayFits
<1>7. PICK from \in Sides : from = Other(s)  BY SidesAre
<1>8. captured' = [captured EXCEPT ![Other(s)] = captured[Other(s)]]
  <2>1. PICK C : C = captured  OBVIOUS
  <2>2. [C EXCEPT ![from] = C[from]] = C  BY ONLY <1>6, <2>1, from \in Sides
  <2> QED  BY <1>1, <1>7, <2>1, <2>2
<1>9. \E d : /\ delivered' = [delivered EXCEPT ![s] = d]
             /\ d = delivered[s] \/ \E f \in SentFrames : d = Append(delivered[s], f) /\ Beside(s, f, wsAsked.streams)
  <2>1. CASE delivered' = delivered
    <3>1. PICK D : D = delivered  OBVIOUS
    <3>2. [D EXCEPT ![s] = D[s]] = D  BY ONLY <1>6, <3>1, s \in Sides
    <3> QED  BY <2>1, <3>1, <3>2
  <2>2. CASE is_ws_protocol_error(s) /\ delivered' = [delivered EXCEPT ![s] = Append(@, close_frame(s))]
    <3>1. PICK q : q = wsAsked.streams[s]  OBVIOUS
    <3>2. q \in Seq(Frames) /\ SideFits(q, taken[s], staged[s], Relayed(upg) /\ ~doneSide[s], delivered[Other(s)], assembler[s])
      BY <3>1, SideOf
    <3>3. PICK m \in 0..Len(q) : StagedFits(q, m, taken[s], staged[s])  BY <3>2 DEF SideFits
    <3>4. PICK v : v = try_parse_ws_frame(s, staged[s])  OBVIOUS
    <3>5. v = "protocol"  BY <2>2, <3>4 DEF is_ws_protocol_error
    <3>6. ~head.ext /\ q = Stream(s)  BY <3>1 DEF WebSocketInv, HeadFits, Stream
    <3>7. m + 1 \in 1..Len(q) /\ q[m + 1].op = "bad"
      <4>1. PICK n : n = taken[s]  OBVIOUS
      <4>2. PICK buf : buf = staged[s]  OBVIOUS
      <4>3. StagedFits(q, m, n, buf) /\ v = try_parse_ws_frame(s, buf)  BY ONLY <3>3, <3>4, <4>1, <4>2
      <4>4. v = "protocol" => m + 1 \in 1..Len(q) /\ q[m + 1].op = "bad"
        BY ONLY <3>2, <3>6, <4>3, m \in 0..Len(q), s \in Sides, ParsedIs
      <4> QED  BY <3>5, <4>4
    <3>8. ~NoneIsBad(wsAsked.streams)
      <4>1. m + 1 \in DOMAIN q  BY <3>2, <3>7
      <4> QED  BY <3>1, <3>7, <4>1 DEF NoneIsBad
    <3>9. PICK f : f = close_frame(s)  OBVIOUS
    <3>10. f \in SentFrames /\ (f.masked <=> s = "upstream") /\ f.by = "proxy"
      <4>1. PICK op : op = "close"  OBVIOUS
      <4>2. PICK n : n = 1002  OBVIOUS
      <4>3. PICK by : by = "proxy"  OBVIOUS
      <4>4. op \in SentOps /\ n \in Nat /\ by \in {"peer", "user", "proxy"} /\ f = write_ws_frame(s, op, n, by)
        BY <3>9, <4>1, <4>2, <4>3 DEF SentOps, close_frame
      <4>5. f \in SentFrames /\ (f.masked <=> s = "upstream") /\ f.by = by  BY ONLY <4>4, WrittenIs
      <4> QED  BY <4>3, <4>5
    <3>11. Beside(s, f, wsAsked.streams)  BY <3>8, <3>10 DEF Beside
    <3> QED  BY <2>2, <3>9, <3>10, <3>11
  <2> QED  BY <2>1, <2>2 DEF ReadFails, Deliver
<1>10. PICK d : /\ delivered' = [delivered EXCEPT ![s] = d]
                /\ d = delivered[s] \/ \E f \in SentFrames : d = Append(delivered[s], f) /\ Beside(s, f, wsAsked.streams)  BY <1>9
<1>11. PICK c : c = captured[Other(s)]  OBVIOUS
<1>12. PICK p : p = upg  OBVIOUS
<1>13. UNCHANGED <<wsAsked, taken, staged, assembler>> /\ upg' = p /\ (Relayed(p) => Relayed(upg)) /\ captured' = [captured EXCEPT ![Other(s)] = c]
  BY <1>1, <1>2, <1>8, <1>11, <1>12 DEF Handler
<1>14. RelayFits(wsAsked.streams, upg, taken, staged, doneSide, delivered, assembler, captured)'
  BY ONLY <1>5, <1>10, <1>11, <1>13, WebSocketInv, s \in Sides, BesideKeeps
<1>15. (injectQueue \in Seq(Injects))' /\ UNCHANGED <<Handler, relayPermit, registry, uiStatus>> /\ upg' \in {"relaying", "closing", "stuck"}
  BY <1>1 DEF WebSocketInv, tables
<1> QED  BY ONLY <1>1, <1>14, <1>15, WebSocketInv, RelayStepPhase

\* A peer that does not take its Close(1002) stops the relay where it is.
LEMMA TellingStuckKeeps ==
  ASSUME WebSocketInv, NEW s \in Sides, TellingStuck(s)
  PROVE  WebSocketInv'
<1>1. upg = "relaying" /\ upg' = "stuck" /\ UNCHANGED <<Handler, relayPermit, tables, taken, doneSide, writable, grace, assembler, captured, delivered>>
  BY DEF TellingStuck, Reading, Stuck
<1>2. staged' = staged  BY StagedStays DEF TellingStuck
<1>3. PICK p : p = "stuck"  OBVIOUS
<1>4. upg' = p /\ (Relayed(p) => Relayed(upg)) /\ UNCHANGED <<wsAsked, relayState>>  BY <1>1, <1>2, <1>3 DEF Relayed, Handler, relayState
<1>5. RelayFits(wsAsked.streams, upg, taken, staged, doneSide, delivered, assembler, captured)'  BY <1>4, HandlerKeeps
<1>6. (injectQueue \in Seq(Injects))' /\ UNCHANGED <<Handler, relayPermit, registry, uiStatus>>  BY <1>1 DEF WebSocketInv, tables
<1> QED  BY ONLY <1>1, <1>5, <1>6, WebSocketInv, RelayStepPhase

\* The user's frame is sent and captured beside the peers'.
LEMMA InjectKeeps ==
  ASSUME WebSocketInv, RelayInject
  PROVE  WebSocketInv'
<1>1. PICK q : q = Head(injectQueue)  OBVIOUS
<1>2. upg = "relaying" /\ injectQueue # <<>> /\ injectQueue' = Tail(injectQueue) /\ upg' \in {"relaying", "closing", "stuck"}
      /\ UNCHANGED <<Handler, relayPermit, taken, doneSide, assembler, registry, uiStatus>>
  BY DEF RelayInject, Stuck
<1>3. q \in Injects /\ (injectQueue \in Seq(Injects))'
  <2>1. injectQueue \in Seq(Injects)  BY DEF WebSocketInv
  <2> QED  BY <1>1, <1>2, <2>1, HeadTailProperties
<1>4. PICK to \in Sides : to = q.to  BY <1>3, WebSocketAssumption
<1>5. PICK from \in Sides : from = Other(to)  BY SidesAre
<1>6. staged' = staged
  <2>1. [t \in Sides |-> AfterCancel(staged[t])] = staged  BY ONLY WebSocketInv, to \in Sides, StagedStays
  <2> QED  BY <2>1 DEF RelayInject
<1>7. delivered = [t \in Sides |-> delivered[t]] /\ captured = [t \in Sides |-> captured[t]] /\ doneSide \in [Sides -> BOOLEAN]
  BY DEF WebSocketInv, RelayFits
<1>8. \E d, c : /\ delivered' = [delivered EXCEPT ![to] = d] /\ captured' = [captured EXCEPT ![Other(to)] = c]
                /\ d = delivered[to] \/ \E f \in SentFrames : d = Append(delivered[to], f) /\ Beside(to, f, wsAsked.streams)
                /\ c = captured[Other(to)] \/ \E g \in Messages : c = Append(captured[Other(to)], g) /\ WholeFits(wsAsked.streams[Other(to)], g)
  <2>1. CASE UNCHANGED <<captured, delivered>>
    <3>1. PICK D : D = delivered  OBVIOUS
    <3>2. [D EXCEPT ![to] = D[to]] = D  BY ONLY <1>7, <3>1, to \in Sides
    <3>3. PICK C : C = captured  OBVIOUS
    <3>4. [C EXCEPT ![from] = C[from]] = C  BY ONLY <1>7, <3>3, from \in Sides
    <3> QED  BY <1>5, <2>1, <3>1, <3>2, <3>3, <3>4
  <2>2. CASE /\ delivered' = [delivered EXCEPT ![to] = Append(@, write_ws_frame(to, q.op, 0, "user"))]
             /\ captured' = [captured EXCEPT ![Other(to)] = Append(@, build_ws_message(q.op, q.fin, <<0>>))]
    <3>1. PICK f : f = write_ws_frame(to, q.op, 0, "user")  OBVIOUS
    <3>2. PICK g : g = build_ws_message(q.op, q.fin, <<0>>)  OBVIOUS
    <3>3. f \in SentFrames /\ (f.masked <=> to = "upstream") /\ f.by = "user"
      <4>1. PICK op : op = q.op  OBVIOUS
      <4>2. PICK n : n = 0  OBVIOUS
      <4>3. PICK by : by = "user"  OBVIOUS
      <4>4. op \in SentOps /\ n \in Nat /\ by \in {"peer", "user", "proxy"} /\ f = write_ws_frame(to, op, n, by)
        BY <1>3, <3>1, <4>1, <4>2, <4>3 DEF SentOps
      <4>5. f \in SentFrames /\ (f.masked <=> to = "upstream") /\ f.by = by  BY ONLY <4>4, WrittenIs
      <4> QED  BY <4>3, <4>5
    <3>4. Beside(to, f, wsAsked.streams)  BY <3>3 DEF Beside
    <3>5. g \in Messages /\ g.body = <<0>>
      <4>1. PICK O : O = SentOps  OBVIOUS
      <4>2. PICK W : W = BOOLEAN \cup {i.fin : i \in Injects}  OBVIOUS
      <4>3. PICK B : B = Seq(Nat)  OBVIOUS
      <4>4. PICK b : b = <<0>>  OBVIOUS
      <4>5. Messages = [op : O, fin : W, body : B, truncated : BOOLEAN]  BY <4>1, <4>2, <4>3 DEF Messages
      <4>6. q.op \in O  BY <1>3, <4>1 DEF SentOps
      <4>7. q.fin \in W  BY <1>3, <4>2
      <4>8. b \in B  BY <4>3, <4>4
      <4>9. g = [op |-> q.op, fin |-> q.fin, body |-> b, truncated |-> FALSE]  BY <3>2, <4>4 DEF build_ws_message
      <4>10. FALSE \in BOOLEAN  OBVIOUS
      <4>11. g \in Messages /\ g.body = b  BY ONLY <4>5, <4>6, <4>7, <4>8, <4>9, <4>10
      <4> QED  BY <4>4, <4>11
    <3>6. WholeFits(wsAsked.streams[Other(to)], g)
      <4>1. PICK b : b = g.body  OBVIOUS
      <4>2. ~(b[1] > 0)  BY <3>5, <4>1
      <4> QED  BY ONLY <4>1, <4>2 DEF WholeFits
    <3>7. delivered' = [delivered EXCEPT ![to] = Append(delivered[to], f)] /\ captured' = [captured EXCEPT ![Other(to)] = Append(captured[Other(to)], g)]
      BY <2>2, <3>1, <3>2
    <3>8. PICK d : d = Append(delivered[to], f)  OBVIOUS
    <3>9. PICK c : c = Append(captured[Other(to)], g)  OBVIOUS
    <3> QED  BY ONLY <3>3, <3>4, <3>5, <3>6, <3>7, <3>8, <3>9
  <2>3. UNCHANGED <<captured, delivered>> \/ (delivered' = [delivered EXCEPT ![to] = Append(@, write_ws_frame(to, q.op, 0, "user"))]
             /\ captured' = [captured EXCEPT ![Other(to)] = Append(@, build_ws_message(q.op, q.fin, <<0>>))])
    BY <1>1, <1>4 DEF RelayInject, Deliver
  <2> QED  BY ONLY <2>1, <2>2, <2>3
<1>9. PICK d, c :
                /\ delivered' = [delivered EXCEPT ![to] = d] /\ captured' = [captured EXCEPT ![Other(to)] = c]
                /\ d = delivered[to] \/ \E f \in SentFrames : d = Append(delivered[to], f) /\ Beside(to, f, wsAsked.streams)
                /\ c = captured[Other(to)] \/ \E g \in Messages : c = Append(captured[Other(to)], g) /\ WholeFits(wsAsked.streams[Other(to)], g)
  BY ONLY <1>8
<1>10. PICK p : p = upg'  OBVIOUS
<1>11. PICK o : o = doneSide  OBVIOUS
<1>12. UNCHANGED <<wsAsked, taken, staged, assembler>> /\ upg' = p /\ (Relayed(p) => Relayed(upg)) /\ doneSide' = o /\ o \in [Sides -> BOOLEAN]
       /\ \A t \in Sides : doneSide[t] => o[t]
  BY <1>2, <1>6, <1>7, <1>10, <1>11 DEF Handler, Relayed
<1>13. RelayFits(wsAsked.streams, upg, taken, staged, doneSide, delivered, assembler, captured)'
  BY ONLY <1>9, <1>12, WebSocketInv, to \in Sides, BesideKeeps
<1>14. UNCHANGED <<Handler, relayPermit, registry, uiStatus>>  BY <1>2
<1> QED  BY ONLY <1>2, <1>3, <1>13, <1>14, WebSocketInv, RelayStepPhase

\* A frame taken from a side, what it makes of the side's state, and what the other side is sent.
LEMMA TakenFits ==
  ASSUME NEW q \in Seq(Frames), NEW m \in 0..Len(q), NEW n, NEW buf, StagedFits(q, m, n, buf), Len(buf) >= 2, m + 1 \in 1..Len(q), q[m + 1].op # "bad",
         NEW d \in Seq(SentFrames), SentFits(q, m, TRUE, d), NEW a, AssemblerFits(q, m, a),
         NEW e, e = assemble_ws_message(a, q[m + 1], m + 1),
         NEW open, NEW d2,
         \/ d2 = d /\ ~open
         \/ \E f \in SentFrames : d2 = Append(d, f) /\ f.by = "peer" /\ f.n = m + 1 /\ f.op = q[m + 1].op
  PROVE  SideFits(q, n, SubSeq(buf, 3, Len(buf)), open, d2, e[2]) /\ e[1] \in Messages /\ (WellFormed(q) => WholeFits(q, e[1]))
<1>1. m \in Nat /\ m + 1 \in 0..Len(q) /\ StagedFits(q, m + 1, n, SubSeq(buf, 3, Len(buf)))  BY StageTaken
<1>2. StepFits(q, m, e[1], e[2])  BY <1>1, AssemblerStep
<1>3. SentFits(q, m + 1, open, d2)
  <2>1. CASE d2 = d /\ ~open
    <3>1. PICK t : t = TRUE  OBVIOUS
    <3>2. SentFits(q, m, t, d) /\ (FALSE => t)  BY <3>1
    <3>3. SentFits(q, m + 1, FALSE, d)  BY ONLY <1>1, <3>2, q \in Seq(Frames), SentLess
    <3> QED  BY ONLY <2>1, <3>3 DEF SentFits
  <2>2. CASE \E f \in SentFrames : d2 = Append(d, f) /\ f.by = "peer" /\ f.n = m + 1 /\ f.op = q[m + 1].op
    <3>1. PICK f \in SentFrames : d2 = Append(d, f) /\ f.by = "peer" /\ f.n = m + 1 /\ f.op = q[m + 1].op  BY <2>2
    <3>2. SentFits(q, m + 1, TRUE, d2)  BY <1>1, <3>1, SentNext
    <3> QED  BY ONLY <3>2 DEF SentFits
  <2> QED  BY <2>1, <2>2
<1>4. AssemblerFits(q, m + 1, e[2]) /\ e[1] \in Messages /\ (WellFormed(q) => WholeFits(q, e[1]))  BY <1>2 DEF StepFits
<1> QED  BY ONLY <1>1, <1>3, <1>4 DEF SideFits

\* One frame is captured and sent on.
LEMMA FrameKeeps ==
  ASSUME WebSocketInv, NEW s \in Sides, RelayFrame(s)
  PROVE  WebSocketInv'
<1>1. PICK to \in Sides : to = Other(s) /\ s = Other(to) /\ to # s /\ \A t \in Sides : t = s \/ t = to  BY SidesAre
<1>2. upg = "relaying" /\ ~doneSide[s] /\ try_parse_ws_frame(s, staged[s]) = "frame"
      /\ UNCHANGED <<Handler, relayPermit, tables, taken>>  BY DEF RelayFrame, Reading
<1>3. PICK q : q = wsAsked.streams[s]  OBVIOUS
<1>4. PICK buf : buf = staged[s]  OBVIOUS
<1>5. PICK d : d = delivered[to]  OBVIOUS
<1>6. PICK k : k = taken[s]  OBVIOUS
<1>7. PICK a : a = assembler[s]  OBVIOUS
<1>8. q \in Seq(Frames) /\ d \in Seq(SentFrames) /\ SideFits(q, k, buf, Relayed(upg) /\ ~doneSide[s], d, a)
  <2>1. q \in Seq(Frames) /\ SideFits(q, k, buf, Relayed(upg) /\ ~doneSide[s], d, a)  BY <1>1, <1>3, <1>4, <1>5, <1>6, <1>7, SideOf
  <2>2. d \in Seq(SentFrames)  BY <1>5, SideOf
  <2> QED  BY <2>1, <2>2
<1>9. PICK m \in 0..Len(q) : StagedFits(q, m, k, buf) /\ SentFits(q, m, Relayed(upg) /\ ~doneSide[s], d) /\ AssemblerFits(q, m, a)
  BY ONLY <1>8 DEF SideFits
<1>10. SentFits(q, m, TRUE, d)
  <2>1. Relayed(upg) /\ ~doneSide[s]  BY <1>2 DEF Relayed
  <2> QED  BY ONLY <1>9, <2>1 DEF SentFits
<1>11. m + 1 \in 1..Len(q) /\ q[m + 1].op # "bad" /\ Len(buf) >= 2 /\ buf[1][1] = m + 1
  <2>1. PICK v : v = try_parse_ws_frame(s, buf)  OBVIOUS
  <2>2. ~head.ext /\ q = Stream(s)  BY <1>3 DEF WebSocketInv, HeadFits, Stream
  <2>3. v = "frame" => m + 1 \in 1..Len(q) /\ q[m + 1].op # "bad" /\ Len(buf) >= 2 /\ buf[1][1] = m + 1
    <3>1. q \in Seq(Frames) /\ StagedFits(q, m, k, buf)  BY ONLY <1>8, <1>9
    <3>2. /\ v = "frame" => m + 1 \in 1..Len(q) /\ q[m + 1].op # "bad" /\ Len(buf) >= 2 /\ buf[1][1] = m + 1
          /\ v = "protocol" => m + 1 \in 1..Len(q) /\ q[m + 1].op = "bad"
      BY ONLY <2>1, <2>2, <3>1, m \in 0..Len(q), s \in Sides, ParsedIs
    <3> QED  BY ONLY <3>2
  <2> QED  BY <1>2, <1>4, <2>1, <2>3
<1>12. PICK n : n = m + 1  OBVIOUS
<1>13. PICK f : f = q[m + 1]  OBVIOUS
<1>14. PICK e : e = assemble_ws_message(a, q[m + 1], m + 1)  OBVIOUS
<1>15. PICK fr : fr = write_ws_frame(to, f.op, n, "peer")  OBVIOUS
<1>16. fr \in SentFrames /\ (fr.masked <=> to = "upstream") /\ fr.by = "peer" /\ fr.n = m + 1 /\ fr.op = q[m + 1].op
  <2>1. PICK by : by = "peer"  OBVIOUS
  <2>2. PICK op : op = f.op  OBVIOUS
  <2>3. f \in Frames  BY <1>8, <1>11, <1>13, ElementOfSeq
  <2>4. op \in SentOps  BY <2>2, <2>3 DEF SentOps, Frames
  <2>5. n \in Nat /\ by \in {"peer", "user", "proxy"} /\ fr = write_ws_frame(to, op, n, by)  BY <1>12, <1>15, <2>1, <2>2
  <2>6. fr \in SentFrames /\ (fr.masked <=> to = "upstream") /\ fr.by = by /\ fr.n = n /\ fr.op = op  BY ONLY <2>4, <2>5, WrittenIs
  <2> QED  BY ONLY <1>12, <1>13, <2>1, <2>2, <2>6
<1>17. /\ staged' = [Cancelled(s) EXCEPT ![s] = SubSeq(@, 3, Len(@))]
       /\ captured' = [captured EXCEPT ![s] = Append(@, e[1])]
       /\ assembler' = [assembler EXCEPT ![s] = e[2]]
       /\ \E ok \in Writes(to) :
             /\ IF ok THEN Deliver(to, fr) ELSE UNCHANGED delivered
             /\ \/ ~ok /\ upg' = "stuck" /\ UNCHANGED doneSide
                \/ f.op = "close" /\ doneSide' = [doneSide EXCEPT ![s] = TRUE] /\ upg' \in {upg, "stuck"}
                \/ f.op # "close" /\ upg' = (IF ok THEN upg ELSE "closing") /\ UNCHANGED doneSide
  <2>1. staged[s][1][1] = n /\ Stream(s)[n] = f /\ assemble_ws_message(assembler[s], f, n) = e
    BY <1>3, <1>4, <1>7, <1>11, <1>12, <1>13, <1>14 DEF Stream
  <2>2. /\ staged' = [Cancelled(s) EXCEPT ![s] = SubSeq(@, 3, Len(@))]
        /\ captured' = [captured EXCEPT ![s] = Append(@, assemble_ws_message(assembler[s], Stream(s)[staged[s][1][1]], staged[s][1][1])[1])]
        /\ assembler' = [assembler EXCEPT ![s] = assemble_ws_message(assembler[s], Stream(s)[staged[s][1][1]], staged[s][1][1])[2]]
        /\ \E ok \in Writes(Other(s)) :
             /\ IF ok THEN Deliver(Other(s), write_ws_frame(Other(s), Stream(s)[staged[s][1][1]].op, staged[s][1][1], "peer")) ELSE UNCHANGED delivered
             /\ \/ ~ok /\ upg' = "stuck" /\ UNCHANGED doneSide
                \/ Stream(s)[staged[s][1][1]].op = "close" /\ doneSide' = [doneSide EXCEPT ![s] = TRUE] /\ upg' \in {upg, "stuck"}
                \/ Stream(s)[staged[s][1][1]].op # "close" /\ upg' = (IF ok THEN upg ELSE "closing") /\ UNCHANGED doneSide
    BY DEF RelayFrame, Stuck
  <2> QED  BY ONLY <1>1, <1>15, <2>1, <2>2
<1>18. PICK ok \in Writes(to) : /\ IF ok THEN Deliver(to, fr) ELSE UNCHANGED delivered
             /\ \/ ~ok /\ upg' = "stuck" /\ UNCHANGED doneSide
                \/ f.op = "close" /\ doneSide' = [doneSide EXCEPT ![s] = TRUE] /\ upg' \in {upg, "stuck"}
                \/ f.op # "close" /\ upg' = (IF ok THEN upg ELSE "closing") /\ UNCHANGED doneSide  BY ONLY <1>17
<1>19. RelayFits(wsAsked.streams, upg, taken, staged, doneSide, delivered, assembler, captured)  BY DEF WebSocketInv
<1>20. /\ taken = [t \in Sides |-> taken[t]] /\ staged = [t \in Sides |-> staged[t]] /\ doneSide \in [Sides -> BOOLEAN]
       /\ delivered = [t \in Sides |-> delivered[t]] /\ assembler = [t \in Sides |-> assembler[t]] /\ captured = [t \in Sides |-> captured[t]]
  BY ONLY <1>19 DEF RelayFits
<1>21. PICK b2 : b2 = SubSeq(buf, 3, Len(buf))  OBVIOUS
<1>22. staged' = [t \in Sides |-> staged'[t]] /\ staged'[s] = b2 /\ staged'[to] = staged[to]
  <2>1. Cancelled(s) = staged  BY ONLY WebSocketInv, s \in Sides, StagedStays
  <2>2. staged' = [staged EXCEPT ![s] = b2]  BY ONLY <1>4, <1>17, <1>21, <2>1
  <2> QED  BY ONLY <1>1, <1>20, <2>2, s \in Sides, to \in Sides
<1>23. PICK c2 : c2 = Append(captured[s], e[1])  OBVIOUS
<1>24. captured' = [t \in Sides |-> captured'[t]] /\ captured'[s] = c2 /\ captured'[to] = captured[to]
  <2>1. captured' = [captured EXCEPT ![s] = c2]  BY ONLY <1>17, <1>23
  <2> QED  BY ONLY <1>1, <1>20, <2>1, s \in Sides, to \in Sides
<1>25. assembler' = [t \in Sides |-> assembler'[t]] /\ assembler'[s] = e[2] /\ assembler'[to] = assembler[to]
  BY ONLY <1>1, <1>17, <1>20, s \in Sides, to \in Sides
<1>26. PICK d2 : d2 = IF ok THEN Append(d, fr) ELSE d  OBVIOUS
<1>27. delivered' = [t \in Sides |-> delivered'[t]] /\ delivered'[to] = d2 /\ delivered'[s] = delivered[s]
  <2>1. CASE ok
    <3>1. delivered' = [delivered EXCEPT ![to] = d2]  BY <1>5, <1>18, <1>26, <2>1 DEF Deliver
    <3> QED  BY ONLY <1>1, <1>20, <3>1, s \in Sides, to \in Sides
  <2>2. CASE ~ok
    <3>1. delivered' = delivered /\ d2 = delivered[to]  BY ONLY <1>5, <1>18, <1>26, <2>2
    <3> QED  BY ONLY <1>20, <3>1
  <2> QED  BY <2>1, <2>2
<1>28. /\ upg' \in {"relaying", "closing", "stuck"} /\ doneSide' \in [Sides -> BOOLEAN] /\ (doneSide[to] => doneSide'[to])
       /\ ~ok => ~(Relayed(upg') /\ ~doneSide'[s])
  <2>1. CASE ~ok /\ upg' = "stuck" /\ UNCHANGED doneSide
    <3>1. ~Relayed("stuck")  BY DEF Relayed
    <3> QED  BY ONLY <1>20, <2>1, <3>1
  <2>2. CASE f.op = "close" /\ doneSide' = [doneSide EXCEPT ![s] = TRUE] /\ upg' \in {upg, "stuck"}
    <3>1. doneSide' \in [Sides -> BOOLEAN]  BY ONLY <1>20, <2>2
    <3>2. doneSide'[s] /\ doneSide'[to] = doneSide[to]  BY ONLY <1>1, <1>20, <2>2, s \in Sides, to \in Sides
    <3> QED  BY ONLY <1>2, <2>2, <3>1, <3>2
  <2>3. CASE f.op # "close" /\ upg' = (IF ok THEN upg ELSE "closing") /\ UNCHANGED doneSide
    <3>1. ~Relayed("closing")  BY DEF Relayed
    <3> QED  BY ONLY <1>2, <1>20, <2>3, <3>1
  <2> QED  BY ONLY <1>18, <2>1, <2>2, <2>3
<1>29. PICK p : p = upg'  OBVIOUS
<1>30. PICK o : o = doneSide'  OBVIOUS
<1>31. PICK open : open = (Relayed(p) /\ ~o[s])  OBVIOUS
<1>32. SideFits(q, k, b2, open, d2, e[2]) /\ e[1] \in Messages /\ (WellFormed(q) => WholeFits(q, e[1]))
  <2>1. \/ d2 = d /\ ~open
        \/ \E x \in SentFrames : d2 = Append(d, x) /\ x.by = "peer" /\ x.n = m + 1 /\ x.op = q[m + 1].op
    <3>1. CASE ok
      <4>1. d2 = Append(d, fr)  BY <1>26, <3>1
      <4> QED  BY ONLY <1>16, <4>1
    <3>2. CASE ~ok
      <4>1. d2 = d  BY <1>26, <3>2
      <4>2. ~open  BY ONLY <1>28, <1>29, <1>30, <1>31, <3>2
      <4> QED  BY <4>1, <4>2
    <3> QED  BY <3>1, <3>2
  <2>2. StagedFits(q, m, k, buf) /\ AssemblerFits(q, m, a)  BY ONLY <1>9
  <2>3. SideFits(q, k, SubSeq(buf, 3, Len(buf)), open, d2, e[2]) /\ e[1] \in Messages /\ (WellFormed(q) => WholeFits(q, e[1]))
    BY ONLY <1>8, <1>10, <1>11, <1>14, <2>1, <2>2, m \in 0..Len(q), TakenFits
  <2> QED  BY ONLY <1>21, <2>3
<1>33. CapturedFits(q, c2)
  <2>1. PICK c : c = captured[s]  OBVIOUS
  <2>2. PICK g : g = e[1]  OBVIOUS
  <2>3. CapturedFits(q, c)  BY <1>3, <2>1, SideOf
  <2>4. g \in Messages /\ (WellFormed(q) => WholeFits(q, g))  BY ONLY <1>32, <2>2
  <2>5. CapturedFits(q, Append(c, g))  BY ONLY <2>3, <2>4, CapturedGrows
  <2> QED  BY ONLY <1>23, <2>1, <2>2, <2>5
<1>34. PICK streams : streams = wsAsked.streams  OBVIOUS
<1>35. DeliveredFits(to, d2, streams)
  <2>1. DeliveredFits(to, d, streams)  BY <1>5, <1>34, SideOf
  <2>2. CASE ok
    <3>1. fr.by # "proxy"  BY <1>16
    <3>2. DeliveredFits(to, Append(d, fr), streams)  BY ONLY <1>16, <2>1, <3>1, DeliveredGrows
    <3> QED  BY <1>26, <2>2, <3>2
  <2>3. CASE ~ok  BY <1>26, <2>1, <2>3
  <2> QED  BY <2>2, <2>3
<1>36. SideFits(streams[to], taken[to], staged[to], Relayed(p) /\ ~o[to], delivered[s], assembler[to])
  <2>1. streams[to] \in Seq(Frames) /\ SideFits(streams[to], taken[to], staged[to], Relayed(upg) /\ ~doneSide[to], delivered[s], assembler[to])
    BY <1>1, <1>34, SideOf
  <2>2. Relayed(upg)  BY <1>2 DEF Relayed
  <2>3. (Relayed(p) /\ ~o[to]) => (Relayed(upg) /\ ~doneSide[to])  BY ONLY <1>28, <1>30, <2>2
  <2> QED  BY ONLY <2>1, <2>3, SideLess
<1>37. CapturedFits(streams[to], captured[to]) /\ DeliveredFits(s, delivered[s], streams)  BY <1>34, SideOf
<1>38. ASSUME NEW t \in Sides
       PROVE  /\ SideFits(streams[t], taken[t], staged'[t], Relayed(p) /\ ~o[t], delivered'[Other(t)], assembler'[t])
              /\ CapturedFits(streams[t], captured'[t]) /\ DeliveredFits(t, delivered'[t], streams)
  <2>1. CASE t = s
    <3>1. streams[s] = q /\ taken[s] = k  BY ONLY <1>3, <1>6, <1>34
    <3>2. SideFits(streams[s], taken[s], staged'[s], Relayed(p) /\ ~o[s], delivered'[to], assembler'[s])
      BY ONLY <1>22, <1>25, <1>27, <1>31, <1>32, <3>1
    <3>3. CapturedFits(streams[s], captured'[s]) /\ DeliveredFits(s, delivered'[s], streams)  BY ONLY <1>24, <1>27, <1>33, <1>37, <3>1
    <3> QED  BY ONLY <1>1, <2>1, <3>2, <3>3
  <2>2. CASE t = to
    <3>1. SideFits(streams[to], taken[to], staged'[to], Relayed(p) /\ ~o[to], delivered'[s], assembler'[to])  BY ONLY <1>22, <1>25, <1>27, <1>36
    <3>2. CapturedFits(streams[to], captured'[to]) /\ DeliveredFits(to, delivered'[to], streams)  BY ONLY <1>24, <1>27, <1>35, <1>37
    <3> QED  BY ONLY <1>1, <2>2, <3>1, <3>2
  <2> QED  BY <1>1, <2>1, <2>2
<1>39. RelayFits(streams, p, taken, staged', o, delivered', assembler', captured')
  <2>1. \A t \in Sides : streams[t] \in Seq(Frames)  BY ONLY <1>19, <1>34 DEF RelayFits
  <2>2. o \in [Sides -> BOOLEAN]  BY ONLY <1>28, <1>30
  <2> QED  BY ONLY <1>20, <1>22, <1>24, <1>25, <1>27, <1>38, <2>1, <2>2 DEF RelayFits
<1>40. wsAsked' = wsAsked /\ taken' = taken  BY <1>2 DEF Handler
<1>41. RelayFits(wsAsked.streams, upg, taken, staged, doneSide, delivered, assembler, captured)'  BY ONLY <1>29, <1>30, <1>34, <1>39, <1>40
<1>42. (injectQueue \in Seq(Injects))' /\ UNCHANGED <<Handler, relayPermit, registry, uiStatus>>  BY <1>2 DEF WebSocketInv, tables
<1> QED  BY ONLY <1>2, <1>28, <1>41, <1>42, WebSocketInv, RelayStepPhase

\* No step disturbs the invariant.
LEMMA WsStep ==
  ASSUME WebSocketInv, [NextWebSocket]_wsVars
  PROVE  WebSocketInv'
<1>1. CASE Establish  BY <1>1, EstablishKeeps
<1>2. CASE Refuse \/ RefuseForLimit \/ RefuseUnbuildable  BY <1>2, RefuseKeeps
<1>3. CASE Register \/ SpawnRelay \/ ClientLeaves \/ OnUpgrade \/ EndRelay \/ mark_closed \/ unregister \/ inject_ws_message  BY <1>3, HandlerStepKeeps
<1>4. CASE RelayInject  BY <1>4, InjectKeeps
<1>5. CASE \E s \in Sides : read_ws_frame(s) \/ RelayFrame(s) \/ ReadFails(s) \/ TellingStuck(s)  BY <1>5, ReadKeeps, FrameKeeps, ReadFailsKeeps, TellingStuckKeeps
<1>6. CASE UNCHANGED wsVars
  <2>1. UNCHANGED <<wsAsked, upg, head, answer, record, relayPermit, registry, uiStatus, taken, staged, doneSide, assembler, captured, delivered, injectQueue>>
    BY <1>6 DEF wsVars
  <2> QED  BY <2>1 DEF WebSocketInv
<1> QED  BY <1>1, <1>2, <1>3, <1>4, <1>5, <1>6 DEF NextWebSocket, RelayNext

WholeMessage(q, g) ==
  \E j \in DOMAIN q :
    LET whole == MessageOf(q, j) IN
    /\ q[j].fin /\ q[j].op \in {"text", "cont"}
    /\ \A k \in DOMAIN g.body : g.body[k] \in whole /\ (k > 1 => g.body[k] > g.body[k - 1])
    /\ g.truncated <=> Cardinality(whole) > AssemblyCap
    /\ Len(g.body) = IF g.truncated THEN AssemblyCap ELSE Cardinality(whole)

\* The invariant says that relay and capture are faithful.
LEMMA WsRelayPromise ==
  ASSUME WebSocketInv
  PROVE  RelayIsFaithful
<1> SUFFICES ASSUME NEW s \in Sides
    PROVE /\ \A i \in FromPeer(s) :
              LET sent == delivered[Other(s)]
                  n    == sent[i].n
              IN /\ n \in DOMAIN Stream(s) /\ sent[i].op = Stream(s)[n].op
                 /\ \A j \in FromPeer(s) : j < i => sent[j].n < n
                 /\ \A k \in 1..(n - 1) : \E j \in FromPeer(s) : j < i /\ sent[j].n = k
          /\ \A i \in DOMAIN delivered[s] : delivered[s][i].masked <=> s = "upstream"
          /\ WellFormed(Stream(s)) =>
              \A i \in DOMAIN captured[s] :
                 LET m == captured[s][i] IN
                 (m.op = "text" /\ m.fin /\ Len(m.body) > 0 /\ m.body[1] > 0) =>
                    \E j \in DOMAIN Stream(s) :
                       LET whole == MessageOf(Stream(s), j) IN
                       /\ Stream(s)[j].fin /\ Stream(s)[j].op \in {"text", "cont"}
                       /\ \A k \in DOMAIN m.body : m.body[k] \in whole /\ (k > 1 => m.body[k] > m.body[k - 1])
                       /\ m.truncated <=> Cardinality(whole) > AssemblyCap
                       /\ Len(m.body) = IF m.truncated THEN AssemblyCap ELSE Cardinality(whole)
          /\ (\A t \in Sides : \A i \in DOMAIN Stream(t) : Stream(t)[i].op # "bad") =>
              \A i \in DOMAIN delivered[s] : delivered[s][i].by # "proxy"
  BY DEF RelayIsFaithful
<1>1. PICK to \in Sides : to = Other(s)  BY SidesAre
<1>2. PICK q : q = wsAsked.streams[s]  OBVIOUS
<1>3. q = Stream(s)  BY <1>2 DEF Stream
<1>4. PICK d : d = delivered[to]  OBVIOUS
<1>5. d \in Seq(SentFrames)  BY <1>4, SideOf
<1>6. DOMAIN d = 1..Len(d)  BY ONLY <1>5
<1>7. PICK S : S = PeerPlaces(d)  OBVIOUS
<1>8. FromPeer(s) = S  BY ONLY <1>1, <1>4, <1>6, <1>7 DEF FromPeer, PeerPlaces
<1>9. q \in Seq(Frames) /\ SideFits(q, taken[s], staged[s], Relayed(upg) /\ ~doneSide[s], d, assembler[s])  BY <1>1, <1>2, <1>4, SideOf
<1>10. PICK m0 \in 0..Len(q) : SentFits(q, m0, Relayed(upg) /\ ~doneSide[s], d)  BY ONLY <1>9 DEF SideFits
<1>11. (\A i \in S : d[i].n \in 1..m0 /\ d[i].op = q[d[i].n].op) /\ (\A i, j \in S : j < i => d[j].n < d[i].n)
       /\ (\A i \in S : \A k \in 1..(d[i].n - 1) : \E j \in S : j < i /\ d[j].n = k)
  BY ONLY <1>7, <1>10 DEF SentFits
<1>12. \A k \in 1..m0 : k \in DOMAIN q
  <2>1. PICK N \in Nat : N = Len(q) /\ DOMAIN q = 1..N  BY <1>9
  <2> QED  BY <2>1
<1>13. ASSUME NEW i \in S
       PROVE /\ d[i].n \in DOMAIN q /\ d[i].op = q[d[i].n].op
             /\ \A j \in S : j < i => d[j].n < d[i].n
             /\ \A k \in 1..(d[i].n - 1) : \E j \in S : j < i /\ d[j].n = k
  BY ONLY <1>11, <1>12, i \in S
<1>14. \A i \in FromPeer(s) :
              LET sent == delivered[Other(s)]
                  n    == sent[i].n
              IN /\ n \in DOMAIN Stream(s) /\ sent[i].op = Stream(s)[n].op
                 /\ \A j \in FromPeer(s) : j < i => sent[j].n < n
                 /\ \A k \in 1..(n - 1) : \E j \in FromPeer(s) : j < i /\ sent[j].n = k
  BY ONLY <1>1, <1>3, <1>4, <1>8, <1>13
<1>15. PICK ds : ds = delivered[s]  OBVIOUS
<1>16. ds \in Seq(SentFrames) /\ DeliveredFits(s, ds, wsAsked.streams)  BY <1>15, SideOf
<1>17. DOMAIN ds = 1..Len(ds)  BY ONLY <1>16
<1>18. \A i \in DOMAIN delivered[s] : delivered[s][i].masked <=> s = "upstream"  BY ONLY <1>15, <1>16, <1>17 DEF DeliveredFits
<1>19. (\A t \in Sides : \A i \in DOMAIN Stream(t) : Stream(t)[i].op # "bad") => \A i \in DOMAIN delivered[s] : delivered[s][i].by # "proxy"
  BY ONLY <1>15, <1>16, <1>17 DEF DeliveredFits, Stream
<1>20. PICK c : c = captured[s]  OBVIOUS
<1>21. CapturedFits(q, c)  BY <1>2, <1>20, SideOf
<1>22. c \in Seq(Messages)  BY ONLY <1>21 DEF CapturedFits
<1>23. DOMAIN c = 1..Len(c)  BY ONLY <1>22
<1>24. ASSUME WellFormed(q), NEW i \in DOMAIN c, NEW g, g = c[i], g.op = "text" /\ g.fin /\ Len(g.body) > 0 /\ g.body[1] > 0
       PROVE WholeMessage(q, g)
  <2>1. WholeFits(q, g)  BY ONLY <1>21, <1>23, <1>24 DEF CapturedFits
  <2>2. PICK j \in DOMAIN q : q[j].fin /\ q[j].op \in {"text", "cont"} /\ Gathered(MessageOf(q, j), g.body, g.truncated)
    BY ONLY <1>24, <2>1 DEF WholeFits
  <2>3. g.body \in Seq(Nat)
    <3>1. PICK O : O = Messages  OBVIOUS
    <3>2. g \in O  BY <1>22, <1>23, <1>24, <3>1, ElementOfSeq
    <3>3. PICK B : B = Seq(Nat)  OBVIOUS
    <3> QED  BY <3>1, <3>2, <3>3 DEF Messages
  <2>4. PICK w : w = g.body  OBVIOUS
  <2>5. DOMAIN w = 1..Len(w)  BY <2>3, <2>4
  <2>6. PICK M : M = MessageOf(q, j)  OBVIOUS
  <2>7. (\A k \in DOMAIN w : w[k] \in M /\ (k > 1 => w[k] > w[k - 1])) /\ (g.truncated <=> Cardinality(M) > AssemblyCap)
        /\ Len(w) = IF g.truncated THEN AssemblyCap ELSE Cardinality(M)
    BY ONLY <2>2, <2>4, <2>5, <2>6 DEF Gathered
  <2> QED  BY ONLY <2>2, <2>4, <2>6, <2>7 DEF WholeMessage
<1>25. WellFormed(Stream(s)) =>
              \A i \in DOMAIN captured[s] :
                 LET m == captured[s][i] IN
                 (m.op = "text" /\ m.fin /\ Len(m.body) > 0 /\ m.body[1] > 0) =>
                    \E j \in DOMAIN Stream(s) :
                       LET whole == MessageOf(Stream(s), j) IN
                       /\ Stream(s)[j].fin /\ Stream(s)[j].op \in {"text", "cont"}
                       /\ \A k \in DOMAIN m.body : m.body[k] \in whole /\ (k > 1 => m.body[k] > m.body[k - 1])
                       /\ m.truncated <=> Cardinality(whole) > AssemblyCap
                       /\ Len(m.body) = IF m.truncated THEN AssemblyCap ELSE Cardinality(whole)
  <2>1. ASSUME WellFormed(Stream(s)), NEW i \in DOMAIN captured[s],
               captured[s][i].op = "text" /\ captured[s][i].fin /\ Len(captured[s][i].body) > 0 /\ captured[s][i].body[1] > 0
        PROVE  WholeMessage(Stream(s), captured[s][i])
    <3>1. PICK g : g = captured[s][i]  OBVIOUS
    <3>2. WellFormed(q) /\ i \in DOMAIN c /\ g = c[i] /\ g.op = "text" /\ g.fin /\ Len(g.body) > 0 /\ g.body[1] > 0
      BY ONLY <1>3, <1>20, <2>1, <3>1
    <3>3. WholeMessage(q, g)  BY ONLY <1>24, <3>2
    <3> QED  BY ONLY <1>3, <3>1, <3>3
  <2> QED  BY ONLY <2>1 DEF WholeMessage
<1> QED  BY ONLY <1>14, <1>18, <1>19, <1>25

\* The invariant says that the upgrade has one outcome.
LEMMA WsOutcomePromise ==
  ASSUME WebSocketInv
  PROVE  UpgradeHasOneOutcome
<1>1. PhaseInv(upg, head, wsAsked.refusal, answer, record, relayPermit, registry, uiStatus)  BY DEF WebSocketInv
<1>2. record = <<>> \/ record = <<101>> \/ record = <<499>> \/ record = <<answer.status>>  BY ONLY <1>1 DEF PhaseInv
<1>3. Len(record) <= 1
  <2>1. CASE record = <<>>  BY ONLY <2>1
  <2>2. CASE record = <<101>>  BY ONLY <2>2
  <2>3. CASE record = <<499>>  BY ONLY <2>3
  <2>4. CASE record = <<answer.status>>
    <3>1. PICK v : v = answer.status  OBVIOUS
    <3>2. record = <<v>>  BY <2>4, <3>1
    <3> QED  BY ONLY <3>2
  <2> QED  BY ONLY <1>2, <2>1, <2>2, <2>3, <2>4
<1>4. upg \notin {"dialing", "head", "recording"} => Len(record) = 1
  <2>1. HAVE upg \notin {"dialing", "head", "recording"}
  <2>2. record = <<101>> \/ record = <<499>> \/ record = <<answer.status>>  BY ONLY <1>1, <2>1 DEF PhaseInv
  <2> QED  BY <2>2
<1>5. answer.status # 0 => record = <<answer.status>>  BY ONLY <1>1 DEF PhaseInv
<1>6. relayPermit <=> upg \in {"recording", "spawned", "relaying", "closing", "stuck"}  BY ONLY <1>1 DEF PhaseInv
<1>7. upg = "answered" => answer.status # 101 /\ ~answer.as.connection  BY ONLY <1>1 DEF PhaseInv
<1>8. upg = "answered" /\ answer.as.status # 0 /\ head.status # 101 => BodyIsAnswered(head, wsAsked.refusal, answer.body)  BY ONLY <1>1 DEF PhaseInv
<1>9. (get_status = "active" \/ uiStatus = "active") /\ upg # "abandoned" => upg \in {"recording", "spawned", "relaying", "closing", "stuck"}
  BY ONLY <1>1 DEF PhaseInv, get_status
<1> QED  BY ONLY <1>3, <1>4, <1>5, <1>6, <1>7, <1>8, <1>9 DEF UpgradeHasOneOutcome, BodyIsAnswered

\* A WebSocket connection is upgraded once and relayed as it is, whatever the peers' streams, the
\* reads, the injections and the answers of the upstream are (ws_upgrade.rs and ws.rs).
THEOREM UpgradesAreFaithful == WebSocketSpec => []UpgradeIsFaithful
<1>1. WebSocketInit => WebSocketInv  BY WsStart
<1>2. WebSocketInv /\ [NextWebSocket]_wsVars => WebSocketInv'  BY WsStep
<1>3. WebSocketInv => UpgradeIsFaithful  BY WsRelayPromise, WsOutcomePromise DEF UpgradeIsFaithful
<1> QED  BY <1>1, <1>2, <1>3, PTL DEF WebSocketSpec

=============================================================================
