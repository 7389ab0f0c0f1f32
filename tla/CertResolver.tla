---------------------------- MODULE CertResolver ----------------------------
(***************************************************************************)
(* Host certificates signed on demand: the cache, the table of per-host    *)
(* slots that makes signing single-flight, the pruning of the table and    *)
(* the flush at a rotation.  A section under one lock is one step; the     *)
(* prune is the only one that nests a second lock.                         *)
(***************************************************************************)
EXTENDS Naturals, FiniteSets, Sequences

CONSTANTS
  Handshakes, \* TLS handshakes resolving a certificate
  TlsHosts,      \* host names
  CacheSize,  \* certificates the cache keeps
  SlotCap,    \* slots the table keeps before it is pruned
  MaxClears   \* bound: flushes

ASSUME ResolverAssumption == {CacheSize, SlotCap, MaxClears} \subseteq Nat

VARIABLES
  hs,       \* each handshake: host, place, slot it uses
  cache,    \* hosts with a certificate, least recently used first
  inflight, \* slot of a host, 0 without
  slots,    \* slots made
  lock,     \* holder of the table and of the cache
  clearing, \* the flush: place and how many were done
  lost      \* hosts whose certificate or slot was flushed or evicted
resolverVars == <<hs, cache, inflight, slots, lock, clearing, lost>>

Cached(h) == \E i \in DOMAIN cache : cache[i] = h
PlaceOf(h) == CHOOSE i \in DOMAIN cache : cache[i] = h
\* The cache once a host is its most recently used one.
SlotTouched(h) ==
  Append(IF Cached(h) THEN SubSeq(cache, 1, PlaceOf(h) - 1) \o SubSeq(cache, PlaceOf(h) + 1, Len(cache)) ELSE cache, h)
SlotFree(l) == lock[l] = "free"
HandshakeStep(t, at) == hs' = [hs EXCEPT ![t].at = at]
SlotTaken(n) == \E t \in Handshakes : hs[t].slot = n /\ hs[t].at \in {"check", "sign", "put", "prune", "prune2"}

\* The name of the ClientHello, or the CONNECT target without one.
StartHandshake(t) ==
  /\ hs[t].at = "new"
  /\ \E h \in TlsHosts : hs' = [hs EXCEPT ![t].host = h, ![t].at = "fast"]
  /\ UNCHANGED <<cache, inflight, slots, lock, clearing, lost>>

FastPath(t) ==
  /\ hs[t].at = "fast" /\ SlotFree("cache")
  /\ IF Cached(hs[t].host) THEN cache' = SlotTouched(hs[t].host) /\ HandshakeStep(t, "done")
     ELSE HandshakeStep(t, "table") /\ UNCHANGED cache
  /\ UNCHANGED <<inflight, slots, lock, clearing, lost>>

TakeSlot(t) ==
  /\ hs[t].at = "table" /\ SlotFree("table")
  /\ LET h == hs[t].host
         n == IF inflight[h] # 0 THEN inflight[h] ELSE slots + 1 IN
     /\ hs' = [hs EXCEPT ![t].slot = n, ![t].at = "slot"]
     /\ inflight' = [inflight EXCEPT ![h] = n]
     /\ slots' = IF inflight[h] # 0 THEN slots ELSE slots + 1
  /\ UNCHANGED <<cache, lock, clearing, lost>>

LockSlot(t) ==
  /\ hs[t].at = "slot" /\ ~SlotTaken(hs[t].slot)
  /\ HandshakeStep(t, "check")
  /\ UNCHANGED <<cache, inflight, slots, lock, clearing, lost>>

\* The cache is read again once the slot is held.
DoubleCheck(t) ==
  /\ hs[t].at = "check" /\ SlotFree("cache")
  /\ IF Cached(hs[t].host) THEN cache' = SlotTouched(hs[t].host) /\ HandshakeStep(t, "done")
     ELSE HandshakeStep(t, "sign") /\ UNCHANGED cache
  /\ UNCHANGED <<inflight, slots, lock, clearing, lost>>

\* Signed under the slot alone; a failed signature ends the handshake without one.
SignHost(t) ==
  /\ hs[t].at = "sign"
  /\ HandshakeStep(t, "put") \/ HandshakeStep(t, "failed")
  /\ UNCHANGED <<cache, inflight, slots, lock, clearing, lost>>

PutInCache(t) ==
  /\ hs[t].at = "put" /\ SlotFree("cache")
  /\ LET all == SlotTouched(hs[t].host)
         kept == IF Len(all) > CacheSize THEN Tail(all) ELSE all IN
     /\ cache' = kept
     /\ lost' = lost \cup {h \in TlsHosts : Cached(h) /\ \A i \in DOMAIN kept : kept[i] # h}
  /\ HandshakeStep(t, "prune")
  /\ UNCHANGED <<inflight, slots, lock, clearing>>

\* Slots of cached hosts are dropped when the table is over its cap; the cache
\* is locked under the table's lock.
PruneTable(t) ==
  /\ hs[t].at = "prune" /\ SlotFree("table")
  /\ IF Cardinality({h \in TlsHosts : inflight[h] # 0}) <= SlotCap
     THEN HandshakeStep(t, "done") /\ UNCHANGED lock
     ELSE HandshakeStep(t, "prune2") /\ lock' = [lock EXCEPT !.table = "prune"]
  /\ UNCHANGED <<cache, inflight, slots, clearing, lost>>
Retained(h) == IF Cached(h) THEN 0 ELSE inflight[h]
PruneCached(t) ==
  /\ hs[t].at = "prune2" /\ SlotFree("cache")
  /\ inflight' = [h \in TlsHosts |-> Retained(h)]
  /\ lock' = [lock EXCEPT !.table = "free"]
  /\ HandshakeStep(t, "done")
  /\ UNCHANGED <<cache, slots, clearing, lost>>

\* The flush takes the table's lock first and lets it go before the cache's.
M_ClearCacheFirst ==
  /\ clearing.at = "idle" /\ clearing.left > 0 /\ SlotFree("cache")
  /\ clearing' = [clearing EXCEPT !.at = "cache", !.left = @ - 1]
  /\ lock' = [lock EXCEPT !.cache = "clear"]
  /\ UNCHANGED <<hs, cache, inflight, slots, lost>>
ClearTable ==
  /\ clearing.at = "idle" /\ clearing.left > 0 /\ SlotFree("table")
  /\ clearing' = [clearing EXCEPT !.at = "cache", !.left = @ - 1]
  /\ inflight' = [h \in TlsHosts |-> 0]
  /\ lost' = lost \cup {h \in TlsHosts : inflight[h] # 0}
  /\ UNCHANGED <<hs, cache, slots, lock>>
ClearCache ==
  /\ clearing.at = "cache" /\ SlotFree("cache")
  /\ cache' = <<>>
  /\ lost' = lost \cup {h \in TlsHosts : Cached(h)}
  /\ clearing' = [clearing EXCEPT !.at = "idle"]
  /\ UNCHANGED <<hs, inflight, slots, lock>>

ResolverInit ==
  /\ hs = [t \in Handshakes |-> [host |-> "", at |-> "new", slot |-> 0]]
  /\ cache = <<>> /\ inflight = [h \in TlsHosts |-> 0] /\ slots = 0
  /\ lock = [table |-> "free", cache |-> "free"]
  /\ clearing = [at |-> "idle", left |-> MaxClears] /\ lost = {}

NextResolver ==
  \/ \E t \in Handshakes : StartHandshake(t) \/ FastPath(t) \/ TakeSlot(t) \/ LockSlot(t) \/ DoubleCheck(t)
                          \/ SignHost(t) \/ PutInCache(t) \/ PruneTable(t) \/ PruneCached(t)
  \/ ClearTable \/ ClearCache

ResolverSpec == ResolverInit /\ [][NextResolver]_resolverVars

-----------------------------------------------------------------------------

Signing(h) == {t \in Handshakes : hs[t].host = h /\ hs[t].at \in {"sign", "put"}}
\* Two handshakes of a cold host never sign for it at the same time, and a host
\* is not signed again while it is cached, as long as neither its certificate
\* nor its slot was thrown away by a flush or an eviction; and the prune, which
\* locks the cache under the table, can always go on.
HostSignedOnce ==
  /\ \A h \in TlsHosts \ lost : Cardinality(Signing(h)) <= 1 /\ (Cached(h) => Signing(h) = {})
  /\ ~(lock.table = "prune" /\ lock.cache = "clear")
=============================================================================
