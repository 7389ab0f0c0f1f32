--------------------------- MODULE ResolverProofs ---------------------------
(***************************************************************************)
(* Proofs about the desktop's shared tables.  CertResolver: for any number *)
(* of handshakes, hosts, cached certificates and flushes, a host is signed *)
(* by one handshake at a time.  RuleTables: whatever rule commands run     *)
(* together, rows and managers agree outside a command's two writes.       *)
(***************************************************************************)
EXTENDS CertResolver, RuleTables, FiniteSetTheorems, SequenceTheorems, TLAPS

InSlot == {"check", "sign", "put", "prune", "prune2"}
UsesSlot == {"slot"} \cup InSlot
Places == {"new", "fast", "table", "done", "failed"} \cup UsesSlot

ResolverTypeOK ==
  /\ hs \in [Handshakes -> [host : TlsHosts \cup {""}, at : Places, slot : Nat]]
  /\ \A t \in Handshakes : hs[t].at # "new" => hs[t].host \in TlsHosts
  /\ cache \in Seq(TlsHosts) /\ inflight \in [TlsHosts -> Nat] /\ slots \in Nat
  /\ lock \in [table : {"free", "prune"}, cache : {"free"}]
  /\ clearing \in [at : {"idle", "cache"}, left : Nat] /\ lost \subseteq TlsHosts

\* The hosts with a certificate in the cache.
Kept == {h \in TlsHosts : Cached(h)}

\* A slot is held by one handshake at a time.
SlotsExclusive ==
  \A t, u \in Handshakes : hs[t].at \in InSlot /\ hs[u].at \in InSlot /\ hs[t].slot = hs[u].slot => t = u

\* As long as a host is neither cached nor lost, everyone who resolves it shares the slot of the table.
SlotShared ==
  \A t \in Handshakes :
    hs[t].at \in UsesSlot /\ hs[t].host \notin lost \cup Kept =>
      hs[t].slot = inflight[hs[t].host] /\ inflight[hs[t].host] # 0

\* A host that is cached and was not lost is not being signed.
CachedNotSigned ==
  \A t \in Handshakes : hs[t].at \in {"sign", "put"} /\ hs[t].host \notin lost => hs[t].host \notin Kept

ResolverInv == ResolverTypeOK /\ SlotsExclusive /\ SlotShared /\ CachedNotSigned

-----------------------------------------------------------------------------
(* The cache as a sequence.                                                *)

\* Two sequences joined.
LEMMA Joined ==
  ASSUME NEW S, NEW front \in Seq(S), NEW back \in Seq(S), NEW r, r = front \o back
  PROVE  /\ r \in Seq(S) /\ Len(r) = Len(front) + Len(back)
         /\ \A i \in 1..Len(front) : r[i] = front[i]
         /\ \A i \in 1..Len(back) : r[Len(front) + i] = back[i]
<1>1. /\ front \o back \in Seq(S) /\ Len(front \o back) = Len(front) + Len(back)
      /\ \A i \in 1..Len(front) + Len(back) : (front \o back)[i] = IF i <= Len(front) THEN front[i] ELSE back[i - Len(front)]
  BY ConcatProperties
<1>2. /\ r \in Seq(S) /\ Len(r) = Len(front) + Len(back)
      /\ \A i \in 1..Len(front) + Len(back) : r[i] = IF i <= Len(front) THEN front[i] ELSE back[i - Len(front)]
  BY <1>1, Zenon
<1>3. Len(front) \in Nat /\ Len(back) \in Nat  BY LenProperties
<1>4. \A i \in 1..Len(front) : r[i] = front[i]  BY <1>2, <1>3
<1>5. ASSUME NEW i \in 1..Len(back) PROVE r[Len(front) + i] = back[i]
  <2>1. Len(front) + i \in 1..Len(front) + Len(back) /\ ~(Len(front) + i <= Len(front)) /\ Len(front) + i - Len(front) = i
    BY <1>3
  <2> QED BY <1>2, <2>1
<1> QED BY <1>2, <1>4, <1>5

\* A sequence without its p-th element.
LEMMA DropAt ==
  ASSUME NEW S, NEW q \in Seq(S), NEW p \in 1..Len(q),
         NEW r, r = SubSeq(q, 1, p - 1) \o SubSeq(q, p + 1, Len(q))
  PROVE  /\ r \in Seq(S) /\ Len(r) = Len(q) - 1
         /\ \A i \in 1..Len(q) - 1 : r[i] = IF i < p THEN q[i] ELSE q[i + 1]
<1> DEFINE front == SubSeq(q, 1, p - 1)
           back == SubSeq(q, p + 1, Len(q))
<1>1. front \in Seq(S) /\ Len(front) = p - 1 /\ \A i \in 1..p - 1 : front[i] = q[i]  BY SubSeqProperties
<1>2. back \in Seq(S) /\ Len(back) = Len(q) - p /\ \A i \in 1..Len(q) - p : back[i] = q[i + p]  BY SubSeqProperties
<1>0. Len(q) \in Nat /\ p \in Nat /\ r = front \o back  BY LenProperties
<1> HIDE DEF front, back
<1>3. /\ r \in Seq(S) /\ Len(r) = Len(front) + Len(back)
      /\ \A i \in 1..Len(front) : r[i] = front[i]
      /\ \A i \in 1..Len(back) : r[Len(front) + i] = back[i]
  <2>1. front \in Seq(S) /\ back \in Seq(S) /\ r = front \o back  BY <1>0, <1>1, <1>2
  <2> QED BY ONLY <2>1, Joined
<1>4. ASSUME NEW i \in 1..Len(q) - 1 PROVE r[i] = IF i < p THEN q[i] ELSE q[i + 1]
  <2>1. CASE i < p
    <3>1. i \in 1..p - 1  BY <1>0, <2>1
    <3>2. r[i] = front[i]  BY ONLY <1>1, <1>3, <3>1
    <3> QED BY <1>1, <2>1, <3>1, <3>2
  <2>2. CASE ~(i < p)
    <3> DEFINE j == i - (p - 1)
    <3>1. j \in 1..Len(q) - p /\ j + p = i + 1 /\ (p - 1) + j = i  BY <1>0, <2>2
    <3> HIDE DEF j
    <3>2. r[(p - 1) + j] = back[j]  BY <1>1, <1>2, <1>3, <3>1
    <3>3. back[j] = q[j + p]  BY <1>2, <3>1
    <3> QED BY <3>1, <3>2, <3>3, <2>2
  <2> QED BY <2>1, <2>2
<1>5. r \in Seq(S) /\ Len(r) = Len(q) - 1  BY ONLY <1>0, <1>1, <1>2, <1>3
<1> QED BY <1>4, <1>5

\* A use moves a host to the end of the cache and drops nothing.
LEMMA TouchKeeps ==
  ASSUME cache \in Seq(TlsHosts), NEW h \in TlsHosts
  PROVE  /\ SlotTouched(h) \in Seq(TlsHosts) /\ SlotTouched(h) # << >>
         /\ \A x \in TlsHosts : (\E i \in DOMAIN SlotTouched(h) : SlotTouched(h)[i] = x) <=> Cached(x) \/ x = h
<1>1. CASE ~Cached(h)
  <2>1. SlotTouched(h) = Append(cache, h)  BY <1>1 DEF SlotTouched
  <2> QED BY <2>1 DEF Cached
<1>2. CASE Cached(h)
  <2> DEFINE p == PlaceOf(h)
             r == SubSeq(cache, 1, p - 1) \o SubSeq(cache, p + 1, Len(cache))
  <2>1. p \in 1..Len(cache) /\ cache[p] = h  BY <1>2 DEF Cached, PlaceOf
  <2>2. SlotTouched(h) = Append(r, h)  BY <1>2 DEF SlotTouched
  <2> HIDE DEF p
  <2>3. /\ r \in Seq(TlsHosts) /\ Len(r) = Len(cache) - 1
        /\ \A i \in 1..Len(cache) - 1 : r[i] = IF i < p THEN cache[i] ELSE cache[i + 1]
    BY <2>1, DropAt
  <2> HIDE DEF r
  <2>4. \A i \in 1..Len(r) : \E j \in DOMAIN cache : cache[j] = r[i]  BY <2>1, <2>3
  <2>5. ASSUME NEW x \in TlsHosts, Cached(x), x # h PROVE \E i \in 1..Len(r) : r[i] = x
    <3>1. PICK j \in 1..Len(cache) : cache[j] = x  BY <2>5 DEF Cached
    <3>2. CASE j < p
      <4>1. j \in 1..Len(r) /\ r[j] = x  BY <2>1, <2>3, <3>1, <3>2
      <4> QED BY <4>1
    <3>3. CASE j > p
      <4>1. j - 1 \in 1..Len(cache) - 1 /\ j - 1 + 1 = j /\ ~(j - 1 < p)  BY <2>1, <3>1, <3>3
      <4>2. r[j - 1] = cache[j]  BY <2>3, <4>1
      <4> QED BY <2>3, <3>1, <4>1, <4>2
    <3> QED BY <2>1, <2>5, <3>1, <3>2, <3>3
  <2>6. \A x \in TlsHosts : (\E i \in 1..Len(r) : r[i] = x) => Cached(x)  BY <2>4 DEF Cached
  <2>7. /\ Append(r, h) \in Seq(TlsHosts) /\ Append(r, h) # << >> /\ DOMAIN Append(r, h) = 1..Len(r) + 1
        /\ (\A i \in 1..Len(r) : Append(r, h)[i] = r[i]) /\ Append(r, h)[Len(r) + 1] = h
    BY <2>3, AppendProperties, LenProperties
  <2>8. \A x \in TlsHosts : (\E i \in DOMAIN Append(r, h) : Append(r, h)[i] = x) <=> (\E i \in 1..Len(r) : r[i] = x) \/ x = h
    BY <2>3, <2>7
  <2> QED BY <1>2, <2>2, <2>5, <2>6, <2>7, <2>8
<1> QED BY <1>1, <1>2

\* A handshake that moves keeps its type.
LEMMA MoveKeepsType ==
  ASSUME ResolverTypeOK, NEW t \in Handshakes, hs[t].at # "new", NEW at \in Places, HandshakeStep(t, at)
  PROVE  /\ hs' \in [Handshakes -> [host : TlsHosts \cup {""}, at : Places, slot : Nat]]
         /\ \A u \in Handshakes : hs'[u].at # "new" => hs'[u].host \in TlsHosts
         /\ \A u \in Handshakes : hs'[u].host = hs[u].host /\ hs'[u].slot = hs[u].slot
         /\ \A u \in Handshakes : hs'[u].at = IF u = t THEN at ELSE hs[u].at
BY DEF ResolverTypeOK, HandshakeStep

\* What is cached once a host was touched, the certificates that fell off the end aside.
LEMMA TouchSame ==
  ASSUME cache \in Seq(TlsHosts), NEW h \in TlsHosts, cache' = SlotTouched(h)
  PROVE  cache' \in Seq(TlsHosts) /\ Kept' = Kept \cup {h}
<1>1. /\ SlotTouched(h) \in Seq(TlsHosts)
      /\ \A x \in TlsHosts : (\E i \in DOMAIN SlotTouched(h) : SlotTouched(h)[i] = x) <=> Cached(x) \/ x = h
  BY TouchKeeps
<1>2. \A x \in TlsHosts : Cached(x)' <=> \E i \in DOMAIN SlotTouched(h) : SlotTouched(h)[i] = x  BY DEF Cached
<1>3. \A x \in TlsHosts : Cached(x)' <=> Cached(x) \/ x = h  BY <1>1, <1>2
<1> QED BY <1>1, <1>3 DEF Kept

\* A step that leaves the cache alone.
LEMMA KeptSame == ASSUME cache' = cache PROVE Kept' = Kept
BY DEF Kept, Cached

-----------------------------------------------------------------------------
(* The invariant holds initially and every step keeps it.                  *)

\* An empty cache, and the cache a restart leaves, satisfies the invariant.
LEMMA ResolverStarts == ResolverInit => ResolverInv
<1> SUFFICES ASSUME ResolverInit PROVE ResolverInv  OBVIOUS
<1>1. ResolverTypeOK
  <2>1. /\ hs \in [Handshakes -> [host : TlsHosts \cup {""}, at : Places, slot : Nat]]
        /\ \A t \in Handshakes : hs[t].at = "new"
    BY DEF ResolverInit, Places
  <2>2. /\ cache \in Seq(TlsHosts) /\ inflight \in [TlsHosts -> Nat] /\ slots \in Nat /\ lost \subseteq TlsHosts
        /\ lock \in [table : {"free", "prune"}, cache : {"free"}]
    BY EmptySeq DEF ResolverInit
  <2>3. clearing \in [at : {"idle", "cache"}, left : Nat]  BY ResolverAssumption DEF ResolverInit
  <2> QED BY <2>1, <2>2, <2>3 DEF ResolverTypeOK
<1>2. \A t \in Handshakes : hs[t].at = "new"  BY DEF ResolverInit
<1>3. SlotsExclusive /\ SlotShared /\ CachedNotSigned  BY <1>2 DEF SlotsExclusive, SlotShared, CachedNotSigned, UsesSlot, InSlot
<1> QED BY <1>1, <1>3 DEF ResolverInv

\* A handshake that moves on and leaves the table alone.  The cache may have
\* gained the handshake's own host, or lost what is counted as lost.
LEMMA MoveKeeps ==
  ASSUME ResolverInv, NEW t \in Handshakes, hs[t].at # "new", NEW at \in Places,
         HandshakeStep(t, at), UNCHANGED <<inflight, slots, clearing>>,
         cache' \in Seq(TlsHosts), lost' \subseteq TlsHosts,
         lock' \in [table : {"free", "prune"}, cache : {"free"}],
         at \in UsesSlot => hs[t].at \in UsesSlot,
         at \in InSlot => hs[t].at \in InSlot \/ ~SlotTaken(hs[t].slot),
         at \in {"sign", "put"} => hs[t].host \in lost \/ hs[t].host \notin Kept,
         lost \subseteq lost', Kept \subseteq Kept' \cup lost',
         Kept' \ Kept # {} => Kept' \ Kept = {hs[t].host} /\ hs[t].at = "put" /\ at = "prune"
  PROVE  ResolverInv'
<1> USE DEF ResolverInv
<1>1. /\ hs' \in [Handshakes -> [host : TlsHosts \cup {""}, at : Places, slot : Nat]]
      /\ \A u \in Handshakes : hs'[u].at # "new" => hs'[u].host \in TlsHosts
      /\ \A u \in Handshakes : hs'[u].host = hs[u].host /\ hs'[u].slot = hs[u].slot
      /\ \A u \in Handshakes : hs'[u].at = IF u = t THEN at ELSE hs[u].at
  BY MoveKeepsType
<1>2. ResolverTypeOK'  BY <1>1 DEF ResolverTypeOK
<1>3. SlotsExclusive'
  <2> SUFFICES ASSUME NEW u \in Handshakes, NEW v \in Handshakes,
                      hs'[u].at \in InSlot, hs'[v].at \in InSlot, hs'[u].slot = hs'[v].slot
               PROVE  u = v
    BY DEF SlotsExclusive
  <2>1. hs[u].slot = hs[v].slot  BY <1>1
  <2>2. CASE at \in InSlot /\ ~SlotTaken(hs[t].slot) /\ (u = t \/ v = t)  BY <1>1, <2>1, <2>2 DEF SlotTaken, InSlot
  <2>3. CASE hs[u].at \in InSlot /\ hs[v].at \in InSlot  BY <2>1, <2>3 DEF SlotsExclusive
  <2> QED BY <1>1, <2>2, <2>3
<1>4. ASSUME NEW u \in Handshakes, hs'[u].at \in UsesSlot, hs'[u].host \notin lost' \cup Kept'
      PROVE  hs'[u].slot = inflight'[hs'[u].host] /\ inflight'[hs'[u].host] # 0
  <2>1. hs[u].at \in UsesSlot /\ hs[u].host \notin lost \cup Kept  BY <1>1, <1>4
  <2> QED BY <1>1, <2>1 DEF SlotShared
<1>5. SlotShared'  BY <1>4 DEF SlotShared
<1>6. ASSUME NEW u \in Handshakes, hs'[u].at \in {"sign", "put"}, hs'[u].host \notin lost', hs'[u].host \in Kept'
      PROVE  FALSE
  <2>1. hs[u].host \notin lost /\ hs[u].host \in Kept' /\ hs'[u].at = (IF u = t THEN at ELSE hs[u].at)  BY <1>1, <1>6
  <2>2. hs[u].host \notin Kept
    <3>1. CASE u = t  BY <1>6, <2>1, <3>1
    <3>2. CASE u # t  BY <1>6, <2>1, <3>2 DEF CachedNotSigned
    <3> QED BY <3>1, <3>2
  <2>3. hs[u].host = hs[t].host /\ hs[t].at = "put" /\ at = "prune" /\ u # t  BY <1>6, <2>1, <2>2
  <2>4. hs[t].slot = inflight[hs[t].host] /\ hs[u].slot = inflight[hs[t].host]
    BY <1>6, <2>1, <2>2, <2>3 DEF SlotShared, UsesSlot, InSlot
  <2> QED BY <1>6, <2>1, <2>3, <2>4 DEF SlotsExclusive, InSlot
<1>7. CachedNotSigned'  BY <1>6 DEF CachedNotSigned
<1> QED BY <1>2, <1>3, <1>5, <1>7

\* A handshake that reads the cache: on a hit it touches the host and is done,
\* on a miss it goes on.
LEMMA ReadKeeps ==
  ASSUME ResolverInv, NEW t \in Handshakes, NEW miss,
         (hs[t].at = "fast" /\ miss = "table") \/ (hs[t].at = "check" /\ miss = "sign"),
         \/ Cached(hs[t].host) /\ cache' = SlotTouched(hs[t].host) /\ HandshakeStep(t, "done")
         \/ ~Cached(hs[t].host) /\ HandshakeStep(t, miss) /\ UNCHANGED cache,
         UNCHANGED <<inflight, slots, lock, clearing, lost>>
  PROVE  ResolverInv'
<1>0. /\ hs[t].at # "new" /\ hs[t].host \in TlsHosts /\ miss \in Places /\ "done" \in Places
      /\ cache \in Seq(TlsHosts) /\ lost \subseteq TlsHosts
      /\ lock \in [table : {"free", "prune"}, cache : {"free"}]
  BY DEF ResolverInv, ResolverTypeOK, Places, UsesSlot, InSlot
<1>1. CASE Cached(hs[t].host)
  <2>1. cache' \in Seq(TlsHosts) /\ Kept' = Kept  BY <1>0, <1>1, TouchSame DEF Kept
  <2> QED BY <1>0, <1>1, <2>1, MoveKeeps DEF UsesSlot, InSlot
<1>2. CASE ~Cached(hs[t].host)
  <2>1. cache' = cache /\ Kept' = Kept /\ hs[t].host \notin Kept  BY <1>2, KeptSame DEF Kept
  <2> QED BY <1>0, <1>2, <2>1, MoveKeeps DEF UsesSlot, InSlot
<1> QED BY <1>1, <1>2

\* A handshake that holds a slot or waits for one moves on by itself.
LEMMA AloneKeeps ==
  ASSUME ResolverInv, NEW t \in Handshakes, UNCHANGED <<cache, inflight, slots, clearing, lost>>,
         lock' \in [table : {"free", "prune"}, cache : {"free"}],
         NEW at, HandshakeStep(t, at),
         \/ hs[t].at = "slot" /\ at = "check" /\ ~SlotTaken(hs[t].slot)
         \/ hs[t].at = "sign" /\ at \in {"put", "failed"}
         \/ hs[t].at = "prune" /\ at \in {"done", "prune2"}
  PROVE  ResolverInv'
<1>1. /\ hs[t].at # "new" /\ at \in Places /\ cache' \in Seq(TlsHosts) /\ lost' \subseteq TlsHosts
  BY DEF ResolverInv, ResolverTypeOK, Places, UsesSlot, InSlot
<1>2. Kept' = Kept  BY KeptSame
<1>3. at \in {"sign", "put"} => hs[t].host \in lost \/ hs[t].host \notin Kept  BY DEF ResolverInv, CachedNotSigned
<1> QED BY <1>1, <1>2, <1>3, MoveKeeps DEF UsesSlot, InSlot

\* A handshake arrives.
LEMMA StartKeeps == ASSUME ResolverInv, NEW t \in Handshakes, StartHandshake(t) PROVE ResolverInv'
<1> USE DEF ResolverInv
<1>1. PICK h \in TlsHosts : hs' = [hs EXCEPT ![t].host = h, ![t].at = "fast"]  BY DEF StartHandshake
<1>2. /\ hs' \in [Handshakes -> [host : TlsHosts \cup {""}, at : Places, slot : Nat]]
      /\ hs'[t].at = "fast" /\ hs'[t].host = h
      /\ \A u \in Handshakes \ {t} : hs'[u] = hs[u]
  BY <1>1 DEF ResolverTypeOK, Places
<1>3. UNCHANGED <<cache, inflight, slots, lock, clearing, lost>> /\ Kept' = Kept  BY KeptSame DEF StartHandshake
<1>4. ResolverTypeOK'  BY <1>2, <1>3 DEF ResolverTypeOK
<1>5. \A u \in Handshakes : hs'[u].at \in UsesSlot => u # t /\ hs'[u] = hs[u]  BY <1>2 DEF UsesSlot, InSlot
<1>6. SlotsExclusive'  BY <1>5 DEF SlotsExclusive, UsesSlot
<1>7. SlotShared'  BY <1>3, <1>5 DEF SlotShared
<1>8. CachedNotSigned'  BY <1>3, <1>5 DEF CachedNotSigned, UsesSlot, InSlot
<1> QED BY <1>4, <1>6, <1>7, <1>8

\* A handshake takes the slot of its host, a new one when there was none.
LEMMA TakeKeeps == ASSUME ResolverInv, NEW t \in Handshakes, TakeSlot(t) PROVE ResolverInv'
<1> USE DEF ResolverInv
<1>0. PICK h \in TlsHosts : h = hs[t].host  BY DEF TakeSlot, ResolverTypeOK
<1>1. PICK n \in Nat \ {0} :
        /\ hs' = [hs EXCEPT ![t].slot = n, ![t].at = "slot"]
        /\ inflight' = [inflight EXCEPT ![h] = n] /\ slots' \in Nat
        /\ (inflight[h] # 0 => n = inflight[h])
        /\ UNCHANGED <<cache, lock, clearing, lost>>
  <2>1. CASE inflight[h] # 0  BY <1>0, <2>1 DEF TakeSlot, ResolverTypeOK
  <2>2. CASE inflight[h] = 0
    <3>1. slots \in Nat  BY DEF ResolverTypeOK
    <3>2. slots + 1 \in Nat \ {0}  BY <3>1
    <3> QED BY <1>0, <2>2, <3>2 DEF TakeSlot
  <2> QED BY <2>1, <2>2
<1>2. /\ hs' \in [Handshakes -> [host : TlsHosts \cup {""}, at : Places, slot : Nat]]
      /\ hs'[t].at = "slot" /\ hs'[t].host = h /\ hs'[t].slot = n
      /\ \A u \in Handshakes \ {t} : hs'[u] = hs[u]
  BY <1>0, <1>1 DEF ResolverTypeOK, Places, UsesSlot
<1>3. /\ inflight' \in [TlsHosts -> Nat] /\ inflight'[h] = n
      /\ \A x \in TlsHosts \ {h} : inflight'[x] = inflight[x]
  BY <1>0, <1>1 DEF ResolverTypeOK
<1>4. ResolverTypeOK'  BY <1>0, <1>1, <1>2, <1>3 DEF ResolverTypeOK
<1>5. Kept' = Kept  BY <1>1, KeptSame
<1>6. \A u \in Handshakes : hs'[u].at \in InSlot => u # t /\ hs'[u] = hs[u]  BY <1>2 DEF InSlot
<1>7. SlotsExclusive'  BY <1>6 DEF SlotsExclusive
<1>8. CachedNotSigned'
  <2>1. \A u \in Handshakes : hs'[u].at \in {"sign", "put"} => hs'[u] = hs[u]  BY <1>6 DEF InSlot
  <2>2. lost' = lost  BY <1>1
  <2> QED BY <1>5, <2>1, <2>2 DEF CachedNotSigned
<1>9. ASSUME NEW u \in Handshakes, hs'[u].at \in UsesSlot, hs'[u].host \notin lost' \cup Kept'
      PROVE  hs'[u].slot = inflight'[hs'[u].host] /\ inflight'[hs'[u].host] # 0
  <2>1. CASE u = t  BY <1>2, <1>3, <2>1
  <2>2. CASE u # t
    <3>1. hs'[u] = hs[u] /\ hs[u].host \in TlsHosts /\ hs[u].host \notin lost \cup Kept /\ hs[u].at \in UsesSlot
      BY <1>1, <1>2, <1>5, <1>9, <2>2 DEF ResolverTypeOK, UsesSlot, InSlot
    <3>2. hs[u].slot = inflight[hs[u].host] /\ inflight[hs[u].host] # 0  BY <3>1 DEF SlotShared
    <3> QED BY <1>1, <1>3, <3>1, <3>2
  <2> QED BY <2>1, <2>2
<1>10. SlotShared'  BY <1>9 DEF SlotShared
<1> QED BY <1>4, <1>7, <1>8, <1>10

\* The put: the host becomes the most recently used one, and what the cache
\* then has no room for is counted as lost.
LEMMA PutKeeps == ASSUME ResolverInv, NEW t \in Handshakes, PutInCache(t) PROVE ResolverInv'
<1> DEFINE all == SlotTouched(hs[t].host)
<1>0. /\ hs[t].at = "put" /\ hs[t].host \in TlsHosts /\ "prune" \in Places
      /\ cache \in Seq(TlsHosts) /\ lost \subseteq TlsHosts
      /\ lock \in [table : {"free", "prune"}, cache : {"free"}]
  BY DEF PutInCache, ResolverInv, ResolverTypeOK, Places, UsesSlot, InSlot
<1>1. /\ all \in Seq(TlsHosts) /\ all # << >>
      /\ \A x \in TlsHosts : (\E i \in DOMAIN all : all[i] = x) <=> Cached(x) \/ x = hs[t].host
  BY <1>0, TouchKeeps
<1> DEFINE kept == IF Len(all) > CacheSize THEN Tail(all) ELSE all
<1>2. /\ cache' = kept /\ HandshakeStep(t, "prune") /\ UNCHANGED <<inflight, slots, lock, clearing>>
      /\ lost' = lost \cup {h \in TlsHosts : Cached(h) /\ \A i \in DOMAIN kept : kept[i] # h}
  BY DEF PutInCache
<1> HIDE DEF all
<1>3. kept \in Seq(TlsHosts) /\ \A i \in DOMAIN kept : \E j \in DOMAIN all : kept[i] = all[j]
  <2>1. CASE Len(all) > CacheSize
    <3>1. /\ Tail(all) \in Seq(TlsHosts) /\ Len(Tail(all)) = Len(all) - 1 /\ DOMAIN Tail(all) = 1..Len(all) - 1
          /\ \A i \in 1..Len(all) - 1 : Tail(all)[i] = all[i + 1] /\ i + 1 \in DOMAIN all
      BY <1>1
    <3> QED BY <2>1, <3>1
  <2> QED BY <1>1, <2>1
<1> HIDE DEF kept
<1>4. Kept' = {h \in TlsHosts : \E i \in DOMAIN kept : kept[i] = h}  BY <1>2 DEF Kept, Cached
<1>5. Kept' \subseteq Kept \cup {hs[t].host}  BY <1>0, <1>1, <1>3, <1>4 DEF Kept
<1>6. Kept \subseteq Kept' \cup lost' /\ lost \subseteq lost' /\ lost' \subseteq TlsHosts  BY <1>0, <1>2, <1>4 DEF Kept
<1> QED BY <1>0, <1>2, <1>3, <1>5, <1>6, MoveKeeps DEF UsesSlot, InSlot

\* The prune drops the slots of cached hosts alone.
LEMMA PruneKeeps == ASSUME ResolverInv, NEW t \in Handshakes, PruneCached(t) PROVE ResolverInv'
<1> USE DEF ResolverInv
<1>1. /\ hs[t].at = "prune2" /\ HandshakeStep(t, "done") /\ "done" \in Places
      /\ inflight' = [h \in TlsHosts |-> IF Cached(h) THEN 0 ELSE inflight[h]]
      /\ UNCHANGED <<cache, slots, clearing, lost>>
  BY DEF PruneCached, Retained, Places
<1>2. lock' \in [table : {"free", "prune"}, cache : {"free"}]  BY DEF PruneCached, ResolverTypeOK
<1>3. /\ hs' \in [Handshakes -> [host : TlsHosts \cup {""}, at : Places, slot : Nat]]
      /\ \A u \in Handshakes : hs'[u].at # "new" => hs'[u].host \in TlsHosts
      /\ \A u \in Handshakes : hs'[u].host = hs[u].host /\ hs'[u].slot = hs[u].slot
      /\ \A u \in Handshakes : hs'[u].at = IF u = t THEN "done" ELSE hs[u].at
  BY <1>1, MoveKeepsType
<1>4. /\ Kept' = Kept /\ inflight' \in [TlsHosts -> Nat]
      /\ \A h \in TlsHosts \ Kept : inflight'[h] = inflight[h]
  BY <1>1, KeptSame DEF Kept, ResolverTypeOK
<1>5. ResolverTypeOK'  BY <1>1, <1>2, <1>3, <1>4 DEF ResolverTypeOK
<1>6. SlotsExclusive'
  <2>1. \A u \in Handshakes : hs'[u].at \in InSlot => hs[u].at \in InSlot /\ hs'[u].slot = hs[u].slot  BY <1>1, <1>3 DEF InSlot
  <2> QED BY <2>1 DEF SlotsExclusive
<1>7. ASSUME NEW u \in Handshakes, hs'[u].at \in UsesSlot, hs'[u].host \notin lost' \cup Kept'
      PROVE  hs'[u].slot = inflight'[hs'[u].host] /\ inflight'[hs'[u].host] # 0
  <2>1. hs[u].at \in UsesSlot /\ hs[u].host \notin lost \cup Kept /\ hs[u].host \in TlsHosts
    BY <1>1, <1>3, <1>4, <1>7 DEF UsesSlot, InSlot
  <2> QED BY <1>3, <1>4, <2>1 DEF SlotShared
<1>8. SlotShared'  BY <1>7 DEF SlotShared
<1>9. CachedNotSigned'  BY <1>1, <1>3, <1>4 DEF CachedNotSigned
<1> QED BY <1>5, <1>6, <1>8, <1>9

\* The two halves of a flush: whatever is thrown away is counted as lost.
LEMMA ClearKeeps == ASSUME ResolverInv, ClearTable \/ ClearCache PROVE ResolverInv'
<1> USE DEF ResolverInv
<1>1. CASE ClearTable
  <2>1. /\ inflight' = [h \in TlsHosts |-> 0] /\ lost' = lost \cup {h \in TlsHosts : inflight[h] # 0}
        /\ UNCHANGED <<hs, cache, slots, lock>> /\ Kept' = Kept
    BY <1>1, KeptSame DEF ClearTable
  <2>2. clearing' \in [at : {"idle", "cache"}, left : Nat]
    <3>1. clearing \in [at : {"idle", "cache"}, left : Nat] /\ clearing.left > 0  BY <1>1 DEF ClearTable, ResolverTypeOK
    <3>2. clearing' = [clearing EXCEPT !.at = "cache", !.left = @ - 1] /\ clearing.left - 1 \in Nat  BY <1>1, <3>1 DEF ClearTable
    <3> QED BY <3>1, <3>2
  <2>3. ResolverTypeOK'  BY <2>1, <2>2 DEF ResolverTypeOK
  <2>4. SlotsExclusive' /\ CachedNotSigned'  BY <2>1 DEF SlotsExclusive, CachedNotSigned
  <2>5. \A u \in Handshakes : hs[u].at \in UsesSlot => hs[u].host \in TlsHosts  BY DEF ResolverTypeOK, UsesSlot, InSlot
  <2>6. SlotShared'  BY <2>1, <2>5 DEF SlotShared
  <2> QED BY <2>3, <2>4, <2>6
<1>2. CASE ClearCache
  <2>1. /\ cache' = << >> /\ lost' = lost \cup Kept /\ UNCHANGED <<hs, inflight, slots, lock>>  BY <1>2 DEF ClearCache, Kept
  <2>2. Kept' = {}  BY <2>1 DEF Kept, Cached
  <2>3. clearing' \in [at : {"idle", "cache"}, left : Nat]  BY <1>2 DEF ClearCache, ResolverTypeOK
  <2>4. ResolverTypeOK'
    <3>1. cache' \in Seq(TlsHosts) /\ lost' \subseteq TlsHosts  BY <2>1, EmptySeq DEF ResolverTypeOK, Kept
    <3> QED BY <2>1, <2>3, <3>1 DEF ResolverTypeOK
  <2>5. SlotsExclusive' /\ SlotShared' /\ CachedNotSigned'  BY <2>1, <2>2 DEF SlotsExclusive, SlotShared, CachedNotSigned
  <2> QED BY <2>4, <2>5
<1> QED BY <1>1, <1>2

\* Every step of the resolver keeps the invariant.
LEMMA ResolverStepKeeps == ResolverInv /\ [NextResolver]_resolverVars => ResolverInv'
<1> SUFFICES ASSUME ResolverInv, [NextResolver]_resolverVars PROVE ResolverInv'  OBVIOUS
<1>1. CASE UNCHANGED resolverVars
  BY <1>1 DEF resolverVars, ResolverInv, ResolverTypeOK, SlotsExclusive, SlotShared, CachedNotSigned, Kept, Cached
<1>2. ASSUME NEW t \in Handshakes, FastPath(t) \/ DoubleCheck(t) PROVE ResolverInv'
  <2>1. UNCHANGED <<inflight, slots, lock, clearing, lost>>  BY <1>2 DEF FastPath, DoubleCheck
  <2>2. CASE FastPath(t)
    <3>1. /\ hs[t].at = "fast"
          /\ \/ Cached(hs[t].host) /\ cache' = SlotTouched(hs[t].host) /\ HandshakeStep(t, "done")
             \/ ~Cached(hs[t].host) /\ HandshakeStep(t, "table") /\ UNCHANGED cache
      BY <2>2 DEF FastPath
    <3> QED BY <2>1, <3>1, ReadKeeps
  <2>3. CASE DoubleCheck(t)
    <3>1. /\ hs[t].at = "check"
          /\ \/ Cached(hs[t].host) /\ cache' = SlotTouched(hs[t].host) /\ HandshakeStep(t, "done")
             \/ ~Cached(hs[t].host) /\ HandshakeStep(t, "sign") /\ UNCHANGED cache
      BY <2>3 DEF DoubleCheck
    <3> QED BY <2>1, <3>1, ReadKeeps
  <2> QED BY <1>2, <2>2, <2>3
<1>3. ASSUME NEW t \in Handshakes, LockSlot(t) \/ SignHost(t) PROVE ResolverInv'
  <2>1. lock' \in [table : {"free", "prune"}, cache : {"free"}]  BY <1>3 DEF LockSlot, SignHost, ResolverInv, ResolverTypeOK
  <2>2. UNCHANGED <<cache, inflight, slots, clearing, lost>>  BY <1>3 DEF LockSlot, SignHost
  <2>3. CASE LockSlot(t)  BY <2>1, <2>2, <2>3, AloneKeeps DEF LockSlot
  <2>4. CASE SignHost(t)  BY <2>1, <2>2, <2>4, AloneKeeps DEF SignHost
  <2> QED BY <1>3, <2>3, <2>4
<1>4. ASSUME NEW t \in Handshakes, PruneTable(t) PROVE ResolverInv'
  <2>1. lock' \in [table : {"free", "prune"}, cache : {"free"}]  BY <1>4 DEF PruneTable, ResolverInv, ResolverTypeOK
  <2>2. PICK at \in {"done", "prune2"} : HandshakeStep(t, at)  BY <1>4 DEF PruneTable
  <2>3. hs[t].at = "prune" /\ UNCHANGED <<cache, inflight, slots, clearing, lost>>  BY <1>4 DEF PruneTable
  <2> QED BY <2>1, <2>2, <2>3, AloneKeeps
<1>5. ASSUME NEW t \in Handshakes, StartHandshake(t) \/ TakeSlot(t) \/ PutInCache(t) \/ PruneCached(t) PROVE ResolverInv'
  BY <1>5, StartKeeps, TakeKeeps, PutKeeps, PruneKeeps
<1>6. CASE ClearTable \/ ClearCache  BY <1>6, ClearKeeps
<1> QED BY <1>1, <1>2, <1>3, <1>4, <1>5, <1>6 DEF NextResolver

\* In every behaviour of the resolver (tls resolver.rs), for any number of
\* handshakes and hosts and any size of the cache and of the slot table, the
\* state has its type, a slot is held by one handshake, and a cold host has one slot.
THEOREM ResolverInvariant == ResolverSpec => []ResolverInv
BY ResolverStarts, ResolverStepKeeps, PTL DEF ResolverSpec

\* A cold host is signed by one handshake at a time and a cached one by none,
\* unless a flush or an eviction threw its certificate or its slot away; and
\* the prune, which locks the cache under the table, never meets a flush that
\* holds the cache: the double check under the slot and the lock order of
\* resolver.rs, for every number of handshakes.
THEOREM HostsSignedOnce == ResolverSpec => []HostSignedOnce
<1>1. ResolverInv => HostSignedOnce
  <2> SUFFICES ASSUME ResolverInv PROVE HostSignedOnce  OBVIOUS
  <2>1. lock.cache # "clear"  BY DEF ResolverInv, ResolverTypeOK
  <2>2. ASSUME NEW h \in TlsHosts \ lost PROVE Cardinality(Signing(h)) <= 1 /\ (Cached(h) => Signing(h) = {})
    <3>1. Cached(h) => Signing(h) = {}  BY DEF ResolverInv, CachedNotSigned, Signing, Kept
    <3>2. \A t, u \in Signing(h) : t = u
      <4> SUFFICES ASSUME NEW t \in Signing(h), NEW u \in Signing(h) PROVE t = u  OBVIOUS
      <4>1. /\ t \in Handshakes /\ u \in Handshakes /\ hs[t].host = h /\ hs[u].host = h
            /\ hs[t].at \in {"sign", "put"} /\ hs[u].at \in {"sign", "put"}
        BY DEF Signing
      <4>2. hs[t].host \notin lost \cup Kept  BY <3>1, <4>1 DEF Kept
      <4>3. hs[t].slot = inflight[h] /\ hs[u].slot = inflight[h]  BY <4>1, <4>2 DEF ResolverInv, SlotShared, UsesSlot, InSlot
      <4> QED BY <4>1, <4>3 DEF ResolverInv, SlotsExclusive, InSlot
    <3>3. CASE Signing(h) = {}  BY <3>1, <3>3, FS_EmptySet
    <3>4. CASE Signing(h) # {}
      <4>1. PICK t : Signing(h) = {t}  BY <3>2, <3>4
      <4> QED BY <3>1, <4>1, FS_Singleton
    <3> QED BY <3>3, <3>4
  <2> QED BY <2>1, <2>2 DEF HostSignedOnce
<1> QED BY <1>1, ResolverInvariant, PTL

---------------------------------------------------------------------------
(* RuleTables.  A command of the locked kinds is alone; of the others it   *)
(* is alone as long as no two crossed.  Between its two writes the manager *)
(* owes the rows one known change, which the second write pays.            *)

\* A rule as a row or a manager may hold it, and a patch of a bulk command.
RuleShapes ==
  [form : {"none", "plain", "actions", "single", "array", "object"}, v : Nat,
   mt : {"none", "default", "contains", "exact", ""}, flaw : {"none", "blank", "mode", "target", "source"}, on : BOOLEAN]
Patches == [id : RuleIds, on : BOOLEAN]
TableActs == {"none", "save", "delete", "bulk", "activate", "replace"}
TablePhases == {"rest", "lock", "check", "read", "write", "publish", "activate"}

TablesTypes ==
  /\ ruleKind \in Kinds
  /\ ruleRows \in [RuleIds -> RuleShapes] /\ memory \in [RuleIds -> RuleShapes]
  /\ owner \in [RuleIds -> {"user", "agent", "temp"}]
  /\ DOMAIN ops = Editors
  /\ \A o \in Editors :
       /\ ops[o] = [pc |-> ops[o].pc, act |-> ops[o].act, id |-> ops[o].id, rule |-> ops[o].rule,
                    list |-> ops[o].list, ok |-> ops[o].ok]
       /\ ops[o].pc \in TablePhases /\ ops[o].act \in TableActs /\ ops[o].rule \in RuleShapes
  /\ diverged \in BOOLEAN

\* A command acts as its kind allows, on what its act names; past its checks it holds what it needs.
ActsOf(k) ==
  IF k = "breakpoint" THEN {"none", "replace"} ELSE IF k = "profile" THEN {"none", "save", "activate"}
  ELSE {"none", "save", "delete", "bulk"}
Deciding == {"check", "read", "write", "publish", "activate"}
HoldsRows(o) == ops[o].pc \in {"read", "write"} \/ (ops[o].pc = "publish" /\ ops[o].act = "bulk")
InTheWindow(o) == ops[o].pc \in {"publish", "activate"}

LocksHeld(o) ==
  /\ ruleKind \in Locked /\ ops[o].pc \in Deciding => mutex = o
  /\ HoldsRows(o) => dbHolder = o

CommandShape(o) ==
  /\ ops[o].act \in ActsOf(ruleKind)
  /\ ops[o].act \in {"save", "delete"} => ops[o].id \in RuleIds
  /\ ops[o].act = "save" => ops[o].rule.v # 0 /\ (ruleKind # "profile" => ops[o].rule.mt # "")
  /\ ops[o].act = "replace" =>
       /\ ops[o].list[1] \in [RuleIds -> RuleShapes]
       /\ \A i \in RuleIds : ops[o].list[1][i].mt # ""
  /\ ops[o].act = "bulk" => ops[o].list \in Seq(Patches)
  /\ ops[o].pc \in {"read", "write"} => ops[o].act = "bulk"
  /\ ops[o].pc = "publish" => ops[o].act # "none"
  /\ ops[o].pc = "activate" => ops[o].act = "save" /\ ruleKind = "profile" /\ ops[o].rule.on

\* What a command that passed its checks has been checked for.
CommandChecked(o) ==
  /\ ops[o].act = "save" /\ InTheWindow(o) => ops[o].rule.flaw \notin Flaws
  /\ ops[o].act = "bulk" /\ (ops[o].pc = "write" \/ InTheWindow(o)) =>
       /\ ops[o].rule.flaw \notin Flaws /\ ops[o].rule.mt # "" /\ ops[o].list # << >>
       /\ ops[o].id = ops[o].list[1].id
  /\ ruleKind \in Locked /\ HoldsRows(o) => \A k \in 1..Len(ops[o].list) : owner[ops[o].list[k].id] = "user"

OpsInv == \A o \in Editors : LocksHeld(o) /\ CommandShape(o) /\ CommandChecked(o)

RowsInv ==
  /\ \A i \in RuleIds : ruleRows[i].flaw \notin Flaws /\ memory[i].flaw \notin Flaws
  /\ ruleKind # "profile" => \A i \in RuleIds : memory[i].mt # ""
  /\ ruleKind = "profile" =>
       /\ \A i, j \in RuleIds : ruleRows[i].on /\ ruleRows[j].on => i = j
       /\ \A i \in RuleIds : ruleRows[i].v = 0 => ruleRows[i] = NoRule
  /\ \A i \in RuleIds : (owner[i] # "user" => ruleKind \in Locked) /\ (owner[i] = "agent" => ruleRows[i] = OldRow)

RunsInv ==
  /\ DOMAIN runs = TracedSessions /\ DOMAIN runEntries = TracedSessions /\ DOMAIN due = TracedSessions
  /\ DOMAIN matched = TracedSessions
  /\ \A s \in TracedSessions :
       /\ runs[s] = due[s]
       /\ ruleKind \in {"script", "rewrite"} => runEntries[s] = runs[s]
       /\ matched[s] # {} => HasRuns

\* As long as no two unlocked commands crossed, one command at a time is between its two writes,
\* and no bulk command is about to write beside it.
SoloInv ==
  ~diverged => \A o, p \in Editors : o # p /\ InTheWindow(o) => ~InTheWindow(p) /\ ops[p].pc # "write"

Agrees(i) == owner[i] # "temp" => Effect(memory[i]) = Effect(RuleOf(ruleRows[i]))
SameButSwitch(i) == memory[i].v = ruleRows[i].v /\ Effect(memory[i]).mt = Effect(ruleRows[i]).mt

\* What the manager still owes the rows while a command is between its two writes.
Owed(o) ==
  /\ ops[o].act \in {"save", "bulk"} /\ ~(ruleKind = "profile" /\ ops[o].rule.on) =>
       ruleRows[ops[o].id] = RowOf(ops[o].rule) /\ \A j \in RuleIds \ {ops[o].id} : Agrees(j)
  /\ ops[o].act = "delete" => ruleRows[ops[o].id] = NoRule /\ \A j \in RuleIds \ {ops[o].id} : Agrees(j)
  /\ ops[o].act = "replace" => \A j \in RuleIds : ruleRows[j] = RowOf(ops[o].list[1][j])
  /\ ops[o].act = "activate" =>
       /\ \A j \in RuleIds : SameButSwitch(j) /\ ruleRows[j].on = (j = ops[o].id)
       /\ ops[o].id \in RuleIds => memory[ops[o].id] # NoRule
  /\ ops[o].act = "save" /\ ruleKind = "profile" /\ ops[o].rule.on =>
       /\ ruleRows[ops[o].id] = ops[o].rule
       /\ \A j \in RuleIds \ {ops[o].id} : SameButSwitch(j) /\ ~ruleRows[j].on
       /\ ops[o].pc = "activate" => memory[ops[o].id] = ops[o].rule

AgreeInv ==
  ~diverged =>
    /\ (\A o \in Editors : ~InTheWindow(o)) => \A i \in RuleIds : Agrees(i)
    /\ \A o \in Editors : InTheWindow(o) => Owed(o)

TablesInv == TablesTypes /\ OpsInv /\ RowsInv /\ RunsInv /\ SoloInv /\ AgreeInv
\* Saving a row replaces it and leaves the run history alone; an enabled profile switches the others off.
LEMMA SaveRowEffect ==
  ASSUME ruleKind \in Kinds \ {"breakpoint"}, NEW i \in RuleIds, NEW r, SaveRow(i, r)
  PROVE  /\ runs' = runs /\ runEntries' = runEntries
         /\ ruleRows' = IF ruleKind = "profile"
                        THEN [j \in RuleIds |-> IF j = i THEN r
                                 ELSE IF r.on THEN [ruleRows[j] EXCEPT !.on = FALSE] ELSE ruleRows[j]]
                        ELSE [ruleRows EXCEPT ![i] = r]
BY DEF Kinds, SaveRow, save_rewrite_row, save_map_row, save_dns_row, save_script_row, save_throttle_row,
       save_throttle_profile, UpdateOrInsert

\* Deleting a row forgets it; the run history follows for scripts and throttling only.
LEMMA DeleteRowEffect ==
  ASSUME ruleKind \in Kinds \ {"breakpoint", "profile"}, NEW i \in RuleIds, DeleteRow(i)
  PROVE  /\ ruleRows' = [ruleRows EXCEPT ![i] = NoRule]
         /\ ruleKind \notin {"script", "throttle"} => runs' = runs
         /\ ruleKind # "script" => runEntries' = runEntries
         /\ ruleKind = "script" => /\ runs' = [s \in TracedSessions |-> runs[s] \ {i}]
                                   /\ runEntries' = [s \in TracedSessions |-> runEntries[s] \ {i}]
         /\ ruleKind = "throttle" =>
              runs' = [s \in TracedSessions |-> IF i \in runs[s] THEN (runs[s] \ {i}) \cup {"null"} ELSE runs[s]]
BY DEF Kinds, DeleteRow, delete_rewrite_row, delete_map_row, delete_dns_row, delete_script_row, delete_throttle_row, RowGone

\* Saving to a manager replaces the one rule, whatever the kind.
LEMMA ManagerSaveEffect ==
  ASSUME ruleKind \in Kinds \ {"breakpoint"}, NEW m, NEW i, NEW r
  PROVE  ManagerSave(m, i, r) = [m EXCEPT ![i] = r]
BY DEF Kinds, ManagerSave, rewrite_manager_save, map_manager_save, dns_manager_save, script_manager_save,
       throttle_manager_save, profile_manager_save

\* Encoding a rule and decoding it again keeps what the rule does, and both keep its flaw, its
\* content and its switch.
LEMMA RowOfEffect ==
  ASSUME ruleKind \in Kinds, NEW r \in RuleShapes
  PROVE  /\ RowOf(r) \in RuleShapes
         /\ RowOf(r).flaw = r.flaw /\ RowOf(r).v = r.v /\ RowOf(r).on = r.on
         /\ ruleKind = "profile" => RowOf(r) = r
         /\ ruleKind # "profile" => RowOf(r).mt = IF r.mt = "default" THEN "contains" ELSE r.mt
<1>1. CASE r = NoRule
  <2>1. RowOf(r) = r  BY <1>1 DEF RowOf
  <2>2. r.mt = "none"  BY <1>1 DEF NoRule
  <2> QED  BY <2>1, <2>2
<1>2. CASE r # NoRule /\ ruleKind = "profile"  BY <1>2 DEF RowOf
<1>3. CASE r # NoRule /\ ruleKind = "rewrite"
  <2>1. RowOf(r) = [r EXCEPT !.form = "array", !.mt = RowMatch(r.mt)]  BY <1>3 DEF RowOf, rewrite_rule_to_row
  <2> QED  BY <1>3, <2>1 DEF RuleShapes, RowMatch
<1>4. CASE r # NoRule /\ ruleKind \notin {"profile", "rewrite"}
  <2>1. RowOf(r) = [r EXCEPT !.mt = RowMatch(r.mt)]
    BY <1>4 DEF Kinds, RowOf, map_rule_to_row, dns_rule_to_row, script_rule_to_row, throttle_rule_to_row, breakpoint_rule_to_row
  <2> QED  BY <1>4, <2>1 DEF RuleShapes, RowMatch
<1> QED  BY <1>1, <1>2, <1>3, <1>4

\* Decoding a row keeps its flaw, its content and its switch; an empty match type becomes the default one.
LEMMA RuleOfEffect ==
  ASSUME ruleKind \in Kinds, NEW r \in RuleShapes
  PROVE  /\ RuleOf(r) \in RuleShapes
         /\ RuleOf(r).flaw = r.flaw /\ RuleOf(r).v = r.v /\ RuleOf(r).on = r.on
         /\ ruleKind = "profile" => RuleOf(r) = r
         /\ ruleKind # "profile" => RuleOf(r).mt = IF r.mt = "" THEN "default" ELSE r.mt
         /\ r = NoRule => RuleOf(r) = NoRule
<1>1. CASE r = NoRule
  <2>1. RuleOf(r) = r  BY <1>1 DEF RuleOf
  <2>2. r.mt = "none"  BY <1>1 DEF NoRule
  <2> QED  BY <1>1, <2>1, <2>2
<1>2. CASE r # NoRule /\ ruleKind = "profile"  BY <1>2 DEF RuleOf
<1>3. CASE r # NoRule /\ ruleKind = "rewrite"
  <2>1. RuleOf(r) = [r EXCEPT !.form = IF r.form = "array" THEN "actions" ELSE "single", !.mt = RuleMatch(r.mt)]
    BY <1>3 DEF RuleOf, rewrite_row_to_rule
  <2> QED  BY <1>3, <2>1 DEF RuleShapes, RuleMatch
<1>4. CASE r # NoRule /\ ruleKind \notin {"profile", "rewrite"}
  <2>1. RuleOf(r) = [r EXCEPT !.mt = RuleMatch(r.mt)]
    BY <1>4 DEF Kinds, RuleOf, map_row_to_rule, dns_mapping_row_to_rule, script_row_to_rule, throttle_row_to_rule, breakpoint_row_to_rule
  <2> QED  BY <1>4, <2>1 DEF RuleShapes, RuleMatch
<1> QED  BY <1>1, <1>2, <1>3, <1>4

\* What is stored for a rule is loaded as a rule that does the same.
LEMMA StoredAsMeant ==
  ASSUME ruleKind \in Kinds, NEW r \in RuleShapes, ruleKind # "profile" => r.mt # ""
  PROVE  Effect(RuleOf(RowOf(r))) = Effect(r)
<1>1. PICK w \in RuleShapes : w = RowOf(r)  BY RowOfEffect
<1>2. /\ w.v = r.v /\ w.on = r.on /\ (ruleKind = "profile" => w = r)
      /\ ruleKind # "profile" => w.mt = IF r.mt = "default" THEN "contains" ELSE r.mt
  BY RowOfEffect, <1>1
<1>3. PICK u \in RuleShapes : u = RuleOf(w)  BY RuleOfEffect
<1>4. /\ u.v = w.v /\ u.on = w.on /\ (ruleKind = "profile" => u = w)
      /\ ruleKind # "profile" => u.mt = IF w.mt = "" THEN "default" ELSE w.mt
  BY RuleOfEffect, <1>3
<1>5. Effect(u) = Effect(r)  BY <1>2, <1>4 DEF Effect
<1> QED  BY <1>1, <1>3, <1>5

\* What start-up loads from the rows.
LEMMA LoadEffect ==
  ASSUME ruleKind \in Kinds, ruleRows \in [RuleIds -> RuleShapes], NEW decodes \in BOOLEAN, init_from_db(decodes)
  PROVE  memory' = [i \in RuleIds |-> IF decodes THEN RuleOf(ruleRows[i]) ELSE NoRule]
<1>1. CASE ruleKind = "profile"  BY <1>1 DEF init_from_db, load_all_throttle_profiles, RuleOf
<1>2. CASE ruleKind = "rewrite"  BY <1>2 DEF init_from_db, load_all_rewrite_rules, Loaded, RuleOf
<1>3. CASE ruleKind = "map"  BY <1>3 DEF init_from_db, load_all_map_rules, Loaded, RuleOf
<1>4. CASE ruleKind = "dns"  BY <1>4 DEF init_from_db, load_all_dns_mappings, Loaded, RuleOf
<1>5. CASE ruleKind = "script"  BY <1>5 DEF init_from_db, load_all_script_rules, Loaded, RuleOf
<1>6. CASE ruleKind = "throttle"  BY <1>6 DEF init_from_db, load_all_throttle_rules, Loaded, RuleOf
<1>7. CASE ruleKind = "breakpoint"  BY <1>7 DEF init_from_db, load_breakpoint_rules, Loaded, RuleOf
<1> QED  BY <1>1, <1>2, <1>3, <1>4, <1>5, <1>6, <1>7 DEF Kinds
\* Decoding and encoding mean the same in the next state.
LEMMA DecodedNext ==
  ASSUME ruleKind' = ruleKind, NEW i \in RuleIds, NEW w, ruleRows'[i] = w
  PROVE  RuleOf(ruleRows[i])' = RuleOf(w)
BY DEF RuleOf, rewrite_row_to_rule, map_row_to_rule, dns_mapping_row_to_rule, script_row_to_rule, throttle_row_to_rule,
       breakpoint_row_to_rule

\* The rule a command carries is encoded the same in the next state.
LEMMA EncodedNext ==
  ASSUME ruleKind' = ruleKind, NEW o \in Editors, NEW w, ops'[o].rule = w
  PROVE  RowOf(ops[o].rule)' = RowOf(w)
BY DEF RowOf, rewrite_rule_to_row, map_rule_to_row, dns_rule_to_row, script_rule_to_row, throttle_rule_to_row,
       breakpoint_rule_to_row

\* So are the rules of a breakpoint table.
LEMMA TableEncodedNext ==
  ASSUME ruleKind' = ruleKind, NEW o \in Editors, NEW j \in RuleIds, NEW w, ops'[o].list[1][j] = w
  PROVE  RowOf(ops[o].list[1][j])' = RowOf(w)
BY DEF RowOf, rewrite_rule_to_row, map_rule_to_row, dns_rule_to_row, script_rule_to_row, throttle_rule_to_row,
       breakpoint_rule_to_row

\* A rule of the next state agrees with its row when the two have the same effect.
LEMMA AgreesNext ==
  ASSUME ruleKind' = ruleKind, NEW i \in RuleIds, NEW w, ruleRows'[i] = w,
         owner'[i] # "temp" => Effect(memory'[i]) = Effect(RuleOf(w))
  PROVE  Agrees(i)'
<1>1. RuleOf(ruleRows[i])' = RuleOf(w)  BY DecodedNext
<1> QED  BY <1>1 DEF Agrees, Effect

\* A rule nobody touched agrees as before.
LEMMA AgreesKept ==
  ASSUME ruleKind' = ruleKind, NEW i \in RuleIds, ruleRows'[i] = ruleRows[i], memory'[i] = memory[i],
         owner'[i] = owner[i], Agrees(i)
  PROVE  Agrees(i)'
<1>1. PICK w : w = ruleRows[i]  OBVIOUS
<1>2. owner[i] # "temp" => Effect(memory[i]) = Effect(RuleOf(w))  BY <1>1 DEF Agrees
<1> QED  BY <1>1, <1>2, AgreesNext

\* A command that does not move, over unchanged tables, owes what it owed.
LEMMA OwedKept ==
  ASSUME ruleKind' = ruleKind, NEW o \in Editors, ops'[o] = ops[o], ruleRows' = ruleRows, memory' = memory, owner' = owner,
         CommandShape(o), Owed(o)
  PROVE  Owed(o)'
<1>1. RowOf(ops[o].rule)' = RowOf(ops[o].rule)
  <2>1. PICK w : w = ops[o].rule  OBVIOUS
  <2>2. RowOf(ops[o].rule)' = RowOf(w)  BY <2>1, EncodedNext
  <2> QED  BY <2>1, <2>2
<1>2. \A j \in RuleIds : RowOf(ops[o].list[1][j])' = RowOf(ops[o].list[1][j])
  <2> TAKE j \in RuleIds
  <2>1. PICK w : w = ops[o].list[1][j]  OBVIOUS
  <2>2. RowOf(ops[o].list[1][j])' = RowOf(w)  BY <2>1, TableEncodedNext
  <2> QED  BY <2>1, <2>2
<1>3. \A j \in RuleIds : Agrees(j) => Agrees(j)'  BY AgreesKept
<1>4. \A j \in RuleIds : SameButSwitch(j) => SameButSwitch(j)'  BY DEF SameButSwitch, Effect
<1> QED  BY <1>1, <1>2, <1>3, <1>4 DEF Owed

\* What is known of a command that does not move, when the rules' owners change only to the user.
LEMMA CommandKept ==
  ASSUME NEW p \in Editors, ops'[p] = ops[p], ruleKind' = ruleKind, CommandShape(p), CommandChecked(p),
         \A i \in RuleIds : owner'[i] = owner[i] \/ owner'[i] = "user"
  PROVE  CommandShape(p)' /\ CommandChecked(p)'
<1>1. CommandShape(p)'  BY DEF CommandShape, ActsOf
<1>2. Flaws' = Flaws  BY DEF Flaws
<1>3. HoldsRows(p) => ops[p].list \in Seq(Patches)  BY DEF CommandShape, HoldsRows
<1>4. ruleKind \in Locked /\ HoldsRows(p) => \A k \in 1..Len(ops[p].list) : owner'[ops[p].list[k].id] = "user"
  <2> SUFFICES ASSUME ruleKind \in Locked, HoldsRows(p), NEW k \in 1..Len(ops[p].list)
               PROVE  owner'[ops[p].list[k].id] = "user"
    OBVIOUS
  <2>1. owner[ops[p].list[k].id] = "user"  BY DEF CommandChecked
  <2>2. ops[p].list[k].id \in RuleIds
    <3>1. PICK l \in Seq(Patches) : l = ops[p].list  BY <1>3
    <3>2. l[k] \in Patches  BY <3>1
    <3> QED  BY <3>1, <3>2 DEF Patches
  <2> QED  BY <2>1, <2>2
<1>5. CommandChecked(p)'  BY <1>2, <1>4 DEF CommandChecked, HoldsRows, InTheWindow
<1> QED  BY <1>1, <1>5

\* Unchanged tables keep their soundness.
LEMMA RowsKept ==
  ASSUME RowsInv, ruleKind' = ruleKind, ruleRows' = ruleRows, memory' = memory, owner' = owner
  PROVE  RowsInv'
<1>1. Flaws' = Flaws /\ OldRow' = OldRow  BY DEF Flaws, OldRow
<1> QED  BY <1>1 DEF RowsInv

\* An unchanged history stays the one that is due.
LEMMA RunsKept ==
  ASSUME RunsInv, UNCHANGED <<ruleKind, runs, runEntries, matched, due>>
  PROVE  RunsInv'
BY DEF RunsInv, HasRuns

\* A step of one command that stays outside the window and writes no rule.
LEMMA OutsideStep ==
  ASSUME TablesInv, NEW o \in Editors,
         UNCHANGED <<ruleKind, ruleRows, memory, owner, runs, runEntries, matched, due>>,
         DOMAIN ops' = Editors, \A p \in Editors \ {o} : ops'[p] = ops[p],
         ~InTheWindow(o), ops'[o].pc \notin {"publish", "activate"},
         ops'[o] = [pc |-> ops'[o].pc, act |-> ops'[o].act, id |-> ops'[o].id, rule |-> ops'[o].rule,
                    list |-> ops'[o].list, ok |-> ops'[o].ok],
         ops'[o].pc \in TablePhases, ops'[o].act \in TableActs, ops'[o].rule \in RuleShapes,
         CommandShape(o)', CommandChecked(o)', \A p \in Editors : LocksHeld(p)',
         diverged' \in BOOLEAN, diverged => diverged',
         ~diverged' /\ ops'[o].pc = "write" => \A p \in Editors \ {o} : ~InTheWindow(p)
  PROVE  TablesInv'
<1> USE DEF TablesInv
<1>1. TablesTypes'  BY DEF TablesTypes
<1>2. \A p \in Editors \ {o} : CommandShape(p)' /\ CommandChecked(p)'  BY CommandKept DEF OpsInv
<1>3. OpsInv'  BY <1>2 DEF OpsInv
<1>4. RowsInv' /\ RunsInv'  BY RowsKept, RunsKept
<1>5. SoloInv'  BY DEF SoloInv, InTheWindow
<1>6. ~diverged' => \A p \in Editors : InTheWindow(p)' => Owed(p)'
  <2> SUFFICES ASSUME ~diverged', NEW p \in Editors, InTheWindow(p)'  PROVE Owed(p)'  OBVIOUS
  <2>1. p # o /\ InTheWindow(p)  BY DEF InTheWindow
  <2>2. Owed(p) /\ CommandShape(p)  BY <2>1 DEF AgreeInv, OpsInv
  <2> QED  BY <2>1, <2>2, OwedKept
<1>7. ~diverged' /\ (\A p \in Editors : ~InTheWindow(p)') => \A i \in RuleIds : Agrees(i)'
  <2> SUFFICES ASSUME ~diverged', \A p \in Editors : ~InTheWindow(p)', NEW i \in RuleIds  PROVE Agrees(i)'  OBVIOUS
  <2>1. \A p \in Editors : ~InTheWindow(p)  BY DEF InTheWindow
  <2>2. Agrees(i)  BY <2>1 DEF AgreeInv
  <2> QED  BY <2>2, AgreesKept
<1>8. AgreeInv'  BY <1>6, <1>7 DEF AgreeInv
<1> QED  BY <1>1, <1>3, <1>4, <1>5, <1>8
\* What the checks and the initial rows are made of.
LEMMA InputShapes ==
  ASSUME ruleKind \in Kinds
  PROVE  /\ \A r \in Inputs : r \in RuleShapes /\ r.v # 0 /\ r.mt # ""
         /\ NoRule \in RuleShapes /\ OldRow \in RuleShapes
         /\ InputRule(1, "default", "none", TRUE) \in RuleShapes /\ InputRule(2, "exact", "none", TRUE) \in RuleShapes
<1>1. NoRule \in RuleShapes  BY DEF NoRule, RuleShapes
<1>2. OldRow \in RuleShapes  BY DEF OldRow, RuleShapes
<1>3. RuleForm \in {"actions", "plain"}  BY DEF RuleForm
<1>4. Flaws \subseteq {"blank", "mode", "target", "source"}  BY DEF Flaws
<1>5. PICK form \in {"actions", "plain"} : form = RuleForm  BY <1>3
<1>6. ASSUME NEW r \in Inputs PROVE r \in RuleShapes /\ r.v # 0 /\ r.mt # ""
  <2>1. \/ \E c \in {<<1, "default">>, <<2, "exact">>}, b \in BOOLEAN :
              r = [form |-> form, v |-> c[1], mt |-> c[2], flaw |-> "none", on |-> b]
        \/ \E f \in Flaws : r = [form |-> form, v |-> 2, mt |-> "default", flaw |-> f, on |-> TRUE]
    BY <1>5 DEF Inputs, InputRule
  <2>2. CASE \E c \in {<<1, "default">>, <<2, "exact">>}, b \in BOOLEAN :
               r = [form |-> form, v |-> c[1], mt |-> c[2], flaw |-> "none", on |-> b]
    <3>1. PICK c \in {<<1, "default">>, <<2, "exact">>}, b \in BOOLEAN :
            r = [form |-> form, v |-> c[1], mt |-> c[2], flaw |-> "none", on |-> b]
      BY <2>2
    <3>2. PICK v \in Nat, mt \in {"default", "exact"} : v = c[1] /\ mt = c[2] /\ v # 0  OBVIOUS
    <3>3. r = [form |-> form, v |-> v, mt |-> mt, flaw |-> "none", on |-> b]  BY <3>1, <3>2
    <3> QED  BY <3>2, <3>3 DEF RuleShapes
  <2>3. CASE \E f \in Flaws : r = [form |-> form, v |-> 2, mt |-> "default", flaw |-> f, on |-> TRUE]
    BY <2>3, <1>4 DEF RuleShapes
  <2> QED  BY <2>1, <2>2, <2>3
<1>7. InputRule(1, "default", "none", TRUE) \in RuleShapes /\ InputRule(2, "exact", "none", TRUE) \in RuleShapes
  BY <1>5 DEF InputRule, RuleShapes
<1> QED  BY <1>1, <1>2, <1>6, <1>7

\* What a command may be asked for.
AskedShape(q) ==
  /\ q = [pc |-> "rest", act |-> q.act, id |-> q.id, rule |-> q.rule, list |-> q.list, ok |-> TRUE]
  /\ q.act \in ActsOf(ruleKind) /\ q.rule \in RuleShapes
  /\ q.act \in {"save", "delete"} => q.id \in RuleIds
  /\ q.act = "save" => q.rule.v # 0 /\ q.rule.mt # ""
  /\ q.act = "replace" => q.list[1] \in [RuleIds -> RuleShapes] /\ \A i \in RuleIds : q.list[1][i].mt # ""
  /\ q.act = "bulk" => q.list \in Seq(Patches)

\* The requests of each kind, one arm at a time.
BreakpointRequests ==
  {[AtRest EXCEPT !.act = "replace", !.list = <<t>>] :
     t \in [RuleIds -> {NoRule, InputRule(1, "default", "none", TRUE), InputRule(2, "exact", "none", TRUE)}]}
Saving(i, r) == [AtRest EXCEPT !.act = "save", !.id = i, !.rule = r]
SaveRequests == {Saving(i, r) : i \in RuleIds, r \in Inputs}
ActivateRequests == {[AtRest EXCEPT !.act = "activate", !.id = i] : i \in RuleIds \cup {"none"}}
DeleteRequests == {[AtRest EXCEPT !.act = "delete", !.id = i] : i \in RuleIds}
ShortBulk == {<<[id |-> i, on |-> FALSE]>> : i \in RuleIds}
LongBulk == {<<[id |-> i, on |-> b], [id |-> j, on |-> FALSE]>> : i \in RuleIds, j \in RuleIds, b \in {TRUE}}
BulkRequests == {[AtRest EXCEPT !.act = "bulk", !.list = l] : l \in ShortBulk \cup LongBulk}

\* The requests of one kind are the arms of that kind.
LEMMA RequestsByKind ==
  Requests = IF ruleKind = "breakpoint" THEN BreakpointRequests
             ELSE IF ruleKind = "profile" THEN SaveRequests \cup ActivateRequests
             ELSE SaveRequests \cup DeleteRequests \cup BulkRequests
<1>1. Requests = CASE ruleKind = "breakpoint" -> BreakpointRequests
                   [] ruleKind = "profile" -> SaveRequests \cup ActivateRequests
                   [] OTHER -> SaveRequests \cup DeleteRequests \cup BulkRequests
  BY DEF Requests, BreakpointRequests, SaveRequests, Saving, ActivateRequests, DeleteRequests, BulkRequests, ShortBulk, LongBulk
<1> QED  BY <1>1

\* Every request is one that its kind's commands can carry out.
LEMMA RequestShape ==
  ASSUME ruleKind \in Kinds, NEW q \in Requests
  PROVE  AskedShape(q)
<1>0. /\ \A r \in Inputs : r \in RuleShapes /\ r.v # 0 /\ r.mt # ""
      /\ NoRule \in RuleShapes /\ NoRule.mt # ""
      /\ InputRule(1, "default", "none", TRUE) \in RuleShapes /\ InputRule(2, "exact", "none", TRUE) \in RuleShapes
      /\ InputRule(1, "default", "none", TRUE).mt # "" /\ InputRule(2, "exact", "none", TRUE).mt # ""
  BY InputShapes DEF NoRule, InputRule
<1>1. CASE ruleKind = "breakpoint"
  <2>1. q \in BreakpointRequests  BY <1>1, RequestsByKind
  <2>2. PICK t \in [RuleIds -> {NoRule, InputRule(1, "default", "none", TRUE), InputRule(2, "exact", "none", TRUE)}] :
          q = [AtRest EXCEPT !.act = "replace", !.list = <<t>>]
    BY <2>1 DEF BreakpointRequests
  <2>3. t \in [RuleIds -> RuleShapes] /\ \A i \in RuleIds : t[i].mt # ""  BY <1>0
  <2>4. q = [pc |-> "rest", act |-> "replace", id |-> "none", rule |-> NoRule, list |-> <<t>>, ok |-> TRUE]  BY <2>2 DEF AtRest
  <2> QED  BY <1>0, <1>1, <2>3, <2>4 DEF AskedShape, ActsOf
<1>2. ASSUME ruleKind # "breakpoint", q \in SaveRequests PROVE AskedShape(q)
  <2>1. PICK i \in RuleIds, r \in Inputs : q = Saving(i, r)  BY <1>2 DEF SaveRequests
  <2>2. q = [pc |-> "rest", act |-> "save", id |-> i, rule |-> r, list |-> << >>, ok |-> TRUE]  BY <2>1 DEF Saving, AtRest
  <2>3. r \in RuleShapes /\ r.v # 0 /\ r.mt # ""  BY <1>0
  <2> QED  BY <1>2, <2>2, <2>3 DEF AskedShape, ActsOf
<1>3. ASSUME ruleKind = "profile", q \in ActivateRequests PROVE AskedShape(q)
  <2>1. PICK i \in RuleIds \cup {"none"} : q = [AtRest EXCEPT !.act = "activate", !.id = i]  BY <1>3 DEF ActivateRequests
  <2>2. q = [pc |-> "rest", act |-> "activate", id |-> i, rule |-> NoRule, list |-> << >>, ok |-> TRUE]  BY <2>1 DEF AtRest
  <2> QED  BY <1>0, <1>3, <2>2 DEF AskedShape, ActsOf
<1>4. ASSUME ruleKind \notin {"profile", "breakpoint"}, q \in DeleteRequests PROVE AskedShape(q)
  <2>1. PICK i \in RuleIds : q = [AtRest EXCEPT !.act = "delete", !.id = i]  BY <1>4 DEF DeleteRequests
  <2>2. q = [pc |-> "rest", act |-> "delete", id |-> i, rule |-> NoRule, list |-> << >>, ok |-> TRUE]  BY <2>1 DEF AtRest
  <2> QED  BY <1>0, <1>4, <2>2 DEF AskedShape, ActsOf
<1>5. ASSUME ruleKind \notin {"profile", "breakpoint"}, q \in BulkRequests PROVE AskedShape(q)
  <2>1. PICK l \in ShortBulk \cup LongBulk : q = [AtRest EXCEPT !.act = "bulk", !.list = l]  BY <1>5 DEF BulkRequests
  <2>2. q = [pc |-> "rest", act |-> "bulk", id |-> "none", rule |-> NoRule, list |-> l, ok |-> TRUE]  BY <2>1 DEF AtRest
  <2>3. l \in Seq(Patches)
    <3>1. CASE l \in ShortBulk
      <4>1. PICK i \in RuleIds : l = <<[id |-> i, on |-> FALSE]>>  BY <3>1 DEF ShortBulk
      <4>2. [id |-> i, on |-> FALSE] \in Patches  BY DEF Patches
      <4> QED  BY <4>1, <4>2
    <3>2. CASE l \in LongBulk
      <4>1. PICK i \in RuleIds, j \in RuleIds, b \in {TRUE} : l = <<[id |-> i, on |-> b], [id |-> j, on |-> FALSE]>>
        BY <3>2 DEF LongBulk
      <4>2. [id |-> i, on |-> b] \in Patches /\ [id |-> j, on |-> FALSE] \in Patches  BY DEF Patches
      <4> QED  BY <4>1, <4>2
    <3> QED  BY <3>1, <3>2
  <2> QED  BY <1>0, <1>5, <2>2, <2>3 DEF AskedShape, ActsOf
<1>6. \/ ruleKind = "breakpoint" \/ q \in SaveRequests
      \/ ruleKind = "profile" /\ q \in ActivateRequests
      \/ ruleKind # "profile" /\ (q \in DeleteRequests \/ q \in BulkRequests)
  BY RequestsByKind
<1> QED  BY <1>1, <1>2, <1>3, <1>4, <1>5, <1>6

\* A command that is back at rest.
LEMMA AtRestShape ==
  ASSUME ruleKind \in Kinds, NEW o \in Editors, ops'[o] = AtRest, ruleKind' = ruleKind
  PROVE  /\ ops'[o] = [pc |-> ops'[o].pc, act |-> ops'[o].act, id |-> ops'[o].id, rule |-> ops'[o].rule,
                       list |-> ops'[o].list, ok |-> ops'[o].ok]
         /\ ops'[o].pc = "rest" /\ ops'[o].act = "none" /\ ops'[o].rule \in RuleShapes
         /\ CommandShape(o)' /\ CommandChecked(o)'
<1>1. NoRule \in RuleShapes  BY InputShapes
<1>2. ops'[o].pc = "rest" /\ ops'[o].act = "none" /\ ops'[o].rule = NoRule  BY DEF AtRest
<1>3. ops'[o] = [pc |-> ops'[o].pc, act |-> ops'[o].act, id |-> ops'[o].id, rule |-> ops'[o].rule,
                 list |-> ops'[o].list, ok |-> ops'[o].ok]
  BY DEF AtRest
<1>4. CommandShape(o)'  BY <1>2 DEF CommandShape, ActsOf
<1>5. CommandChecked(o)'  BY <1>2 DEF CommandChecked, InTheWindow, HoldsRows
<1> QED  BY <1>1, <1>2, <1>3, <1>4, <1>5
\* A command that gives up its lock and rests leaves the others theirs.
LEMMA LocksAfterDone ==
  ASSUME TablesInv, NEW o \in Editors, EditDone(o), ruleKind' = ruleKind,
         dbHolder' = dbHolder \/ (HoldsRows(o) /\ dbHolder' = NobodyHolds)
  PROVE  /\ \A p \in Editors : LocksHeld(p)'
         /\ DOMAIN ops' = Editors /\ ops'[o] = AtRest /\ \A p \in Editors \ {o} : ops'[p] = ops[p]
<1>1. DOMAIN ops' = Editors /\ ops'[o] = AtRest /\ \A p \in Editors \ {o} : ops'[p] = ops[p]
  BY DEF TablesInv, TablesTypes, EditDone
<1>2. LocksHeld(o)'  BY <1>1 DEF LocksHeld, AtRest, Deciding, HoldsRows
<1>3. ASSUME NEW p \in Editors \ {o} PROVE LocksHeld(p)'
  <2>1. LocksHeld(p) /\ LocksHeld(o)  BY DEF TablesInv, OpsInv
  <2>2. ops'[p] = ops[p]  BY <1>1
  <2>3. ruleKind \in Locked /\ ops[p].pc \in Deciding => mutex' = p  BY <2>1 DEF LocksHeld, EditDone, ReleaseMutex
  <2>4. HoldsRows(p) => dbHolder' = p  BY <2>1 DEF LocksHeld
  <2> QED  BY <2>2, <2>3, <2>4 DEF LocksHeld, HoldsRows
<1> QED  BY <1>1, <1>2, <1>3

\* Asking for something writes nothing.
LEMMA AskKeeps ==
  ASSUME TablesInv, NEW o \in Editors, Ask(o)
  PROVE  TablesInv'
<1>0. ruleKind \in Kinds /\ DOMAIN ops = Editors  BY DEF TablesInv, TablesTypes
<1>1. PICK q \in Requests : ops' = [ops EXCEPT ![o] = [q EXCEPT !.pc = "lock"]]  BY DEF Ask
<1>2. AskedShape(q)  BY <1>0, RequestShape
<1>3. PICK w : w = [q EXCEPT !.pc = "lock"]  OBVIOUS
<1>4. w = [pc |-> "lock", act |-> q.act, id |-> q.id, rule |-> q.rule, list |-> q.list, ok |-> TRUE]
  <2>1. PICK a, i, r, l : /\ q = [pc |-> "rest", act |-> a, id |-> i, rule |-> r, list |-> l, ok |-> TRUE]
                          /\ q.act = a /\ q.id = i /\ q.rule = r /\ q.list = l
    BY <1>2 DEF AskedShape
  <2> QED  BY <1>3, <2>1
<1>5. ops'[o] = w /\ DOMAIN ops' = Editors /\ \A p \in Editors \ {o} : ops'[p] = ops[p]  BY <1>0, <1>1, <1>3
<1>6. CommandShape(o)'
  <2>1. ruleKind' = ruleKind  BY DEF Ask
  <2>2. w.pc = "lock" /\ w.act = q.act /\ w.id = q.id /\ w.rule = q.rule /\ w.list = q.list  BY <1>4
  <2> QED  BY <1>2, <1>5, <2>1, <2>2 DEF CommandShape, ActsOf, AskedShape
<1>7. w.pc = "lock" /\ w.act = q.act /\ w.rule = q.rule /\ ops[o].pc = "rest"  BY <1>4 DEF Ask
<1>8. CommandChecked(o)'  BY <1>5, <1>7 DEF CommandChecked, InTheWindow, HoldsRows
<1>9. \A p \in Editors : LocksHeld(p)'
  <2>1. \A p \in Editors : LocksHeld(p)  BY DEF TablesInv, OpsInv
  <2> QED  BY <1>5, <1>7, <2>1 DEF LocksHeld, HoldsRows, Deciding, Ask
<1>10. ActsOf(ruleKind) \subseteq TableActs  BY DEF ActsOf, TableActs
<1>11. /\ UNCHANGED <<ruleKind, ruleRows, memory, owner, runs, runEntries, matched, due>>
       /\ ~InTheWindow(o) /\ ops'[o].pc = "lock" /\ ops'[o].pc \in TablePhases
       /\ ops'[o].act \in TableActs /\ ops'[o].rule \in RuleShapes
       /\ diverged' = diverged /\ diverged \in BOOLEAN
  BY <1>2, <1>5, <1>7, <1>10 DEF Ask, InTheWindow, TablePhases, AskedShape, TablesInv, TablesTypes
<1>12. ops'[o] = [pc |-> ops'[o].pc, act |-> ops'[o].act, id |-> ops'[o].id, rule |-> ops'[o].rule,
                  list |-> ops'[o].list, ok |-> ops'[o].ok]
  BY <1>4, <1>5
<1> QED  BY <1>5, <1>6, <1>8, <1>9, <1>11, <1>12, OutsideStep

\* Giving up before anything was written leaves everything as it was.
LEMMA RestKeeps ==
  ASSUME TablesInv, NEW o \in Editors, EditDone(o), ~InTheWindow(o),
         dbHolder' = dbHolder \/ (HoldsRows(o) /\ dbHolder' = NobodyHolds),
         UNCHANGED <<ruleKind, ruleRows, memory, owner, runs, runEntries, matched, diverged, due>>
  PROVE  TablesInv'
<1>0. ruleKind \in Kinds /\ diverged \in BOOLEAN  BY DEF TablesInv, TablesTypes
<1>1. /\ \A p \in Editors : LocksHeld(p)'
      /\ DOMAIN ops' = Editors /\ ops'[o] = AtRest /\ \A p \in Editors \ {o} : ops'[p] = ops[p]
  BY LocksAfterDone
<1>2. /\ ops'[o] = [pc |-> ops'[o].pc, act |-> ops'[o].act, id |-> ops'[o].id, rule |-> ops'[o].rule,
                    list |-> ops'[o].list, ok |-> ops'[o].ok]
      /\ ops'[o].pc = "rest" /\ ops'[o].act = "none" /\ ops'[o].rule \in RuleShapes
      /\ CommandShape(o)' /\ CommandChecked(o)'
  BY <1>0, <1>1, AtRestShape
<1>3. ops'[o].pc \in TablePhases /\ ops'[o].act \in TableActs  BY <1>2 DEF TablePhases, TableActs
<1> QED  BY <1>0, <1>1, <1>2, <1>3, OutsideStep

\* A refused edit, a failed write and the end of a bulk command give up in that way.
LEMMA GivingUpKeeps ==
  ASSUME TablesInv, NEW o \in Editors, RefuseEdit(o) \/ PersistFails(o) \/ BulkEnds(o)
  PROVE  TablesInv'
<1>1. CASE RefuseEdit(o) \/ PersistFails(o)  BY <1>1, RestKeeps DEF RefuseEdit, PersistFails, InTheWindow
<1>2. CASE BulkEnds(o)  BY <1>2, RestKeeps DEF BulkEnds, InTheWindow, HoldsRows
<1> QED  BY <1>1, <1>2
\* What every action relies on: the record a command is.
LEMMA MovedCommand ==
  ASSUME TablesInv, NEW o \in Editors, NEW pc, ops' = [ops EXCEPT ![o].pc = pc]
  PROVE  /\ DOMAIN ops' = Editors /\ \A p \in Editors \ {o} : ops'[p] = ops[p]
         /\ ops'[o].pc = pc /\ ops'[o].act = ops[o].act /\ ops'[o].id = ops[o].id
         /\ ops'[o].rule = ops[o].rule /\ ops'[o].list = ops[o].list
         /\ ops'[o] = [pc |-> ops'[o].pc, act |-> ops'[o].act, id |-> ops'[o].id, rule |-> ops'[o].rule,
                       list |-> ops'[o].list, ok |-> ops'[o].ok]
<1>1. DOMAIN ops = Editors  BY DEF TablesInv, TablesTypes
<1>2. ops[o] = [pc |-> ops[o].pc, act |-> ops[o].act, id |-> ops[o].id, rule |-> ops[o].rule,
                list |-> ops[o].list, ok |-> ops[o].ok]
  BY DEF TablesInv, TablesTypes
<1>3. PICK c0, a, i, r, l, k : /\ ops[o] = [pc |-> c0, act |-> a, id |-> i, rule |-> r, list |-> l, ok |-> k]
                               /\ ops[o].act = a /\ ops[o].id = i /\ ops[o].rule = r /\ ops[o].list = l
  BY <1>2
<1>4. ops'[o] = [ops[o] EXCEPT !.pc = pc]  BY <1>1
<1>5. ops'[o] = [pc |-> pc, act |-> a, id |-> i, rule |-> r, list |-> l, ok |-> k]  BY <1>3, <1>4
<1>6. DOMAIN ops' = Editors /\ \A p \in Editors \ {o} : ops'[p] = ops[p]  BY <1>1
<1> QED  BY <1>3, <1>5, <1>6

\* A command that only moves on still asks for the same.
LEMMA ShapeMoved ==
  ASSUME NEW o \in Editors, CommandShape(o), ruleKind' = ruleKind, ops'[o].act = ops[o].act, ops'[o].id = ops[o].id,
         ops'[o].rule = ops[o].rule, ops'[o].list = ops[o].list,
         ops'[o].pc \in {"read", "write"} => ops[o].act = "bulk",
         ops'[o].pc = "publish" => ops[o].act # "none",
         ops'[o].pc = "activate" => ops[o].act = "save" /\ ruleKind = "profile" /\ ops[o].rule.on
  PROVE  CommandShape(o)'
BY DEF CommandShape, ActsOf

\* Moving on to the checks, or to the patches, keeps what the command was asked for.
LEMMA LockKeeps ==
  ASSUME TablesInv, NEW o \in Editors, AutomationLock(o)
  PROVE  TablesInv'
<1>1. ops[o].pc = "lock" /\ ops' = [ops EXCEPT ![o].pc = "check"] /\ ruleKind' = ruleKind
      /\ UNCHANGED <<ruleKind, ruleRows, memory, owner, runs, runEntries, matched, due, dbHolder, diverged>>
  BY DEF AutomationLock, Goes
<1>2. /\ DOMAIN ops' = Editors /\ \A p \in Editors \ {o} : ops'[p] = ops[p]
      /\ ops'[o].pc = "check" /\ ops'[o].act = ops[o].act /\ ops'[o].id = ops[o].id
      /\ ops'[o].rule = ops[o].rule /\ ops'[o].list = ops[o].list
      /\ ops'[o] = [pc |-> ops'[o].pc, act |-> ops'[o].act, id |-> ops'[o].id, rule |-> ops'[o].rule,
                    list |-> ops'[o].list, ok |-> ops'[o].ok]
  BY <1>1, MovedCommand
<1>3. /\ ops[o].act \in TableActs /\ ops[o].rule \in RuleShapes /\ CommandShape(o) /\ diverged \in BOOLEAN
      /\ \A p \in Editors : LocksHeld(p)
  BY DEF TablesInv, TablesTypes, OpsInv
<1>4. CommandShape(o)'  BY <1>1, <1>2, <1>3, ShapeMoved
<1>5. CommandChecked(o)'  BY <1>2 DEF CommandChecked, InTheWindow, HoldsRows
<1>6. \A p \in Editors : LocksHeld(p)'
  <2>1. LocksHeld(o)'  BY <1>1, <1>2 DEF LocksHeld, HoldsRows, AutomationLock, TakesLock
  <2>2. ASSUME NEW p \in Editors \ {o} PROVE LocksHeld(p)'
    BY <1>1, <1>2, <1>3, TablesAssumption DEF LocksHeld, HoldsRows, AutomationLock, TakesLock
  <2> QED  BY <2>1, <2>2
<1>7. ~InTheWindow(o) /\ ops'[o].pc \in TablePhases  BY <1>1, <1>2 DEF InTheWindow, TablePhases
<1> QED  BY <1>1, <1>2, <1>3, <1>4, <1>5, <1>6, <1>7, OutsideStep

\* A bulk command takes the connection after all its patches were allowed.
LEMMA BulkBeginKeeps ==
  ASSUME TablesInv, NEW o \in Editors, BulkBegin(o)
  PROVE  TablesInv'
<1>1. /\ ops[o].pc = "check" /\ ops[o].act = "bulk" /\ ops' = [ops EXCEPT ![o].pc = "read"]
      /\ dbHolder = NobodyHolds /\ dbHolder' = o /\ BulkAllowed(ops[o].list)
      /\ UNCHANGED <<ruleKind, ruleRows, memory, owner, runs, runEntries, matched, due, mutex, diverged>>
  BY DEF BulkBegin, Goes
<1>2. /\ DOMAIN ops' = Editors /\ \A p \in Editors \ {o} : ops'[p] = ops[p]
      /\ ops'[o].pc = "read" /\ ops'[o].act = ops[o].act /\ ops'[o].id = ops[o].id
      /\ ops'[o].rule = ops[o].rule /\ ops'[o].list = ops[o].list
      /\ ops'[o] = [pc |-> ops'[o].pc, act |-> ops'[o].act, id |-> ops'[o].id, rule |-> ops'[o].rule,
                    list |-> ops'[o].list, ok |-> ops'[o].ok]
  BY <1>1, MovedCommand
<1>3. /\ ops[o].act \in TableActs /\ ops[o].rule \in RuleShapes /\ CommandShape(o) /\ diverged \in BOOLEAN
      /\ \A p \in Editors : LocksHeld(p)
  BY DEF TablesInv, TablesTypes, OpsInv
<1>4. CommandShape(o)'  BY <1>1, <1>2, <1>3, ShapeMoved
<1>5. CommandChecked(o)'  BY <1>1, <1>2 DEF CommandChecked, InTheWindow, HoldsRows, BulkAllowed, ensure_rule_is_user_editable
<1>6. \A p \in Editors : LocksHeld(p)'
  <2>1. LocksHeld(o)'  BY <1>1, <1>2, <1>3 DEF LocksHeld, HoldsRows, Deciding
  <2>2. ASSUME NEW p \in Editors \ {o} PROVE LocksHeld(p)'  BY <1>1, <1>2, <1>3, TablesAssumption DEF LocksHeld, HoldsRows
  <2> QED  BY <2>1, <2>2
<1>7. ~InTheWindow(o) /\ ops'[o].pc \in TablePhases  BY <1>1, <1>2 DEF InTheWindow, TablePhases
<1> QED  BY <1>1, <1>2, <1>3, <1>4, <1>5, <1>6, <1>7, OutsideStep

\* Of the locked kinds only the holder of the lock decides anything; of the others a command that
\* crossed nobody is alone.
LEMMA AloneUnlessCrossed ==
  ASSUME TablesInv, NEW o \in Editors, ops[o].pc \in Deciding, ~Crossed(o)
  PROVE  \A p \in Editors \ {o} : ~InTheWindow(p)
<1> SUFFICES ASSUME NEW p \in Editors \ {o}, InTheWindow(p) PROVE FALSE  OBVIOUS
<1>1. CASE ruleKind \in Locked
  <2>1. mutex = o /\ mutex = p  BY <1>1 DEF TablesInv, OpsInv, LocksHeld, InTheWindow, Deciding
  <2> QED  BY <2>1
<1>2. CASE ruleKind \notin Locked  BY <1>2 DEF Crossed, InTheWindow
<1> QED  BY <1>1, <1>2

\* A patch is read from the manager, or skipped; from then on the command is alone or the tables diverged.
LEMMA BulkReadKeeps ==
  ASSUME TablesInv, NEW o \in Editors, BulkRead(o)
  PROVE  TablesInv'
<1>1. /\ ops[o].pc = "read" /\ ops[o].list # << >> /\ diverged' = (diverged \/ Crossed(o))
      /\ UNCHANGED <<ruleKind, ruleRows, memory, owner, runs, runEntries, matched, due, mutex, dbHolder>>
  BY DEF BulkRead
<1>2. /\ DOMAIN ops = Editors /\ diverged \in BOOLEAN /\ ruleKind \in Kinds /\ memory \in [RuleIds -> RuleShapes]
      /\ ops[o].rule \in RuleShapes /\ CommandShape(o) /\ CommandChecked(o)
      /\ \A p \in Editors : LocksHeld(p)
  BY DEF TablesInv, TablesTypes, OpsInv
<1>3. ops[o].act = "bulk" /\ ops[o].list \in Seq(Patches)  BY <1>1, <1>2 DEF CommandShape
<1>4. PICK l \in Seq(Patches) : l = ops[o].list  BY <1>3
<1>5. l # << >> /\ Head(l) = l[1] /\ l[1] \in Patches /\ Tail(l) \in Seq(Patches)  BY <1>1, <1>4
<1>6. PICK u \in Patches : u = l[1]  BY <1>5
<1>7. PICK c0, i, r, k : ops[o] = [pc |-> c0, act |-> "bulk", id |-> i, rule |-> r, list |-> l, ok |-> k] /\ r = ops[o].rule
  <2>1. ops[o] = [pc |-> ops[o].pc, act |-> ops[o].act, id |-> ops[o].id, rule |-> ops[o].rule,
                  list |-> ops[o].list, ok |-> ops[o].ok]
    BY DEF TablesInv, TablesTypes
  <2> QED  BY <2>1, <1>3, <1>4
<1>8. \A p \in Editors \ {o} : ops'[p] = ops[p]  BY <1>2 DEF BulkRead
<1>9. DOMAIN ops' = Editors  BY <1>2 DEF BulkRead
<1>10. ruleKind \in Locked => \A j \in 1..Len(l) : owner[l[j].id] = "user"  BY <1>1, <1>2, <1>4 DEF CommandChecked, HoldsRows
<1>11. ruleKind \notin {"breakpoint", "profile"}  BY <1>2, <1>3 DEF CommandShape, ActsOf
<1>12. diverged' \in BOOLEAN /\ (diverged => diverged')  BY <1>1
<1>13. ~diverged' => \A p \in Editors \ {o} : ~InTheWindow(p)
  <2>1. ops[o].pc \in Deciding  BY <1>1 DEF Deciding
  <2> QED  BY <1>1, <2>1, AloneUnlessCrossed
<1>14. CASE memory[u.id] = NoRule
  <2>1. ops'[o] = [ops[o] EXCEPT !.list = Tail(@)]  BY <1>2, <1>4, <1>5, <1>6, <1>14 DEF BulkRead
  <2>2. ops'[o] = [pc |-> c0, act |-> "bulk", id |-> i, rule |-> r, list |-> Tail(l), ok |-> k] /\ c0 = "read"
    BY <1>1, <1>7, <2>1
  <2>3. PICK t \in Seq(Patches) : t = Tail(l)  BY <1>5
  <2>4. ops'[o].pc = "read" /\ ops'[o].act = "bulk" /\ ops'[o].list = t /\ ops'[o].rule \in RuleShapes
        /\ ops'[o] = [pc |-> ops'[o].pc, act |-> ops'[o].act, id |-> ops'[o].id, rule |-> ops'[o].rule,
                      list |-> ops'[o].list, ok |-> ops'[o].ok]
    BY <1>2, <1>7, <2>2, <2>3
  <2>5. CommandShape(o)'  BY <1>1, <1>2, <1>3, <2>4 DEF CommandShape, ActsOf
  <2>6. ruleKind \in Locked => \A j \in 1..Len(t) : owner[t[j].id] = "user"
    <3>1. Len(t) = Len(l) - 1 /\ \A j \in 1..Len(t) : t[j] = l[j + 1]  BY <1>5, <2>3
    <3> QED  BY <1>10, <3>1
  <2>7. CommandChecked(o)'  BY <1>1, <2>4, <2>6 DEF CommandChecked, InTheWindow, HoldsRows
  <2>8. \A p \in Editors : LocksHeld(p)'  BY <1>1, <1>2, <1>8, <2>4 DEF LocksHeld, HoldsRows, Deciding
  <2>9. ~InTheWindow(o) /\ ops'[o].pc \in TablePhases /\ ops'[o].act \in TableActs
    BY <1>1, <2>4 DEF InTheWindow, TablePhases, TableActs
  <2> QED  BY <1>1, <1>8, <1>9, <1>12, <2>4, <2>5, <2>7, <2>8, <2>9, OutsideStep
<1>15. CASE memory[u.id] # NoRule
  <2>0. u.id \in RuleIds /\ u.on \in BOOLEAN  BY DEF Patches
  <2>1. PICK m \in RuleShapes : m = memory[u.id]  BY <1>2, <2>0
  <2>2. PICK n \in RuleShapes : n = apply_rule_patch(m, u) /\ n.flaw = m.flaw /\ n.mt = m.mt
    <3>1. PICK b \in BOOLEAN : b = u.on  BY <2>0
    <3>2. [m EXCEPT !.on = b] \in RuleShapes /\ [m EXCEPT !.on = b].flaw = m.flaw /\ [m EXCEPT !.on = b].mt = m.mt
      BY DEF RuleShapes
    <3> QED  BY <3>1, <3>2 DEF apply_rule_patch
  <2>3. ops'[o] = [ops[o] EXCEPT !.pc = "write", !.id = u.id, !.rule = n]
    BY <1>2, <1>4, <1>5, <1>6, <1>15, <2>1, <2>2 DEF BulkRead
  <2>4. ops'[o] = [pc |-> "write", act |-> "bulk", id |-> u.id, rule |-> n, list |-> l, ok |-> k]
    <3>1. PICK x : x = u.id  OBVIOUS
    <3>2. ops'[o] = [[pc |-> c0, act |-> "bulk", id |-> i, rule |-> r, list |-> l, ok |-> k]
                       EXCEPT !.pc = "write", !.id = x, !.rule = n]
      BY <1>7, <2>3, <3>1
    <3>3. ops'[o] = [pc |-> "write", act |-> "bulk", id |-> x, rule |-> n, list |-> l, ok |-> k]  BY <3>2
    <3> QED  BY <3>1, <3>3
  <2>5. ops'[o].pc = "write" /\ ops'[o].act = "bulk" /\ ops'[o].list = l /\ ops'[o].rule = n /\ ops'[o].id = u.id
        /\ ops'[o] = [pc |-> ops'[o].pc, act |-> ops'[o].act, id |-> ops'[o].id, rule |-> ops'[o].rule,
                      list |-> ops'[o].list, ok |-> ops'[o].ok]
    BY <2>4
  <2>6. CommandShape(o)'  BY <1>1, <1>2, <1>3, <2>5 DEF CommandShape, ActsOf
  <2>7. n.flaw \notin Flaws /\ n.mt # ""  BY <1>11, <2>0, <2>1, <2>2 DEF TablesInv, RowsInv
  <2>8. Flaws' = Flaws  BY <1>1 DEF Flaws
  <2>9. CommandChecked(o)'  BY <1>1, <1>5, <1>6, <1>10, <2>5, <2>7, <2>8 DEF CommandChecked, InTheWindow, HoldsRows
  <2>10. \A p \in Editors : LocksHeld(p)'  BY <1>1, <1>2, <1>8, <2>5 DEF LocksHeld, HoldsRows, Deciding
  <2>11. ~InTheWindow(o) /\ ops'[o].pc \in TablePhases /\ ops'[o].act \in TableActs /\ ops'[o].pc \notin {"publish", "activate"}
    BY <1>1, <2>5 DEF InTheWindow, TablePhases, TableActs
  <2>12. ops'[o].rule \in RuleShapes  BY <2>5
  <2> QED  BY <1>1, <1>8, <1>9, <1>12, <1>13, <2>5, <2>6, <2>9, <2>10, <2>11, <2>12, OutsideStep
<1> QED  BY <1>14, <1>15
\* A command writes its rows: it alone is then between its two writes.
LEMMA WindowOpens ==
  ASSUME TablesInv, NEW o \in Editors, ops[o].pc \in {"check", "write"}, ops' = [ops EXCEPT ![o].pc = "publish"],
         UNCHANGED <<ruleKind, memory, owner, matched, mutex, dbHolder>>,
         ops[o].act # "none", ops[o].pc = "check" => ops[o].act # "bulk", dbHolder \in {NobodyHolds, o},
         ruleRows' \in [RuleIds -> RuleShapes], diverged' \in BOOLEAN, diverged => diverged',
         ~diverged' => \A p \in Editors \ {o} : ~InTheWindow(p),
         CommandChecked(o)', RowsInv', RunsInv', ~diverged' => Owed(o)'
  PROVE  TablesInv'
<1>1. /\ DOMAIN ops' = Editors /\ \A p \in Editors \ {o} : ops'[p] = ops[p]
      /\ ops'[o].pc = "publish" /\ ops'[o].act = ops[o].act /\ ops'[o].id = ops[o].id
      /\ ops'[o].rule = ops[o].rule /\ ops'[o].list = ops[o].list
      /\ ops'[o] = [pc |-> ops'[o].pc, act |-> ops'[o].act, id |-> ops'[o].id, rule |-> ops'[o].rule,
                    list |-> ops'[o].list, ok |-> ops'[o].ok]
  BY MovedCommand
<1>2. /\ \A p \in Editors : CommandShape(p) /\ CommandChecked(p) /\ LocksHeld(p)
      /\ TablesTypes
  BY DEF TablesInv, OpsInv
<1>3. TablesTypes'  BY <1>1, <1>2 DEF TablesTypes, TablePhases
<1>4. CommandShape(o)'  BY <1>1, <1>2, ShapeMoved
<1>5. \A p \in Editors \ {o} : CommandShape(p)' /\ CommandChecked(p)'  BY <1>1, <1>2, CommandKept
<1>6. LocksHeld(o)'  BY <1>1, <1>2 DEF LocksHeld, HoldsRows, Deciding
<1>7. \A p \in Editors \ {o} : LocksHeld(p)'  BY <1>1, <1>2 DEF LocksHeld, HoldsRows
<1>8. OpsInv'  BY <1>4, <1>5, <1>6, <1>7 DEF OpsInv
<1>9. \A p \in Editors \ {o} : ops[p].pc # "write"  BY <1>2, TablesAssumption DEF LocksHeld, HoldsRows
<1>10. SoloInv'  BY <1>1, <1>9 DEF SoloInv, InTheWindow
<1>11. AgreeInv'  BY <1>1 DEF AgreeInv, InTheWindow
<1> QED  BY <1>3, <1>8, <1>10, <1>11 DEF TablesInv

\* What the rows must still be after one of them changed.
LEMMA RowsChanged ==
  ASSUME TablesInv, NEW i \in RuleIds, NEW w \in RuleShapes, UNCHANGED <<ruleKind, memory, owner>>,
         ruleRows' = [ruleRows EXCEPT ![i] = w], ruleKind # "profile", w.flaw \notin Flaws, owner[i] # "agent"
  PROVE  RowsInv' /\ ruleRows' \in [RuleIds -> RuleShapes]
<1>1. Flaws' = Flaws /\ OldRow' = OldRow  BY DEF Flaws, OldRow
<1>2. RowsInv /\ ruleRows \in [RuleIds -> RuleShapes]  BY DEF TablesInv, TablesTypes
<1>3. ruleRows' \in [RuleIds -> RuleShapes] /\ ruleRows'[i] = w /\ \A j \in RuleIds \ {i} : ruleRows'[j] = ruleRows[j]  BY <1>2
<1> QED  BY <1>1, <1>2, <1>3 DEF RowsInv

\* A rule that passed the checks of its command has none of the flaws of its kind.
LEMMA AllowedIsSound ==
  ASSUME ruleKind \in Kinds, NEW i, NEW r, SaveAllowed(i, r), r.flaw \in {"none", "blank", "mode", "target", "source"}
  PROVE  r.flaw \notin Flaws /\ (ruleKind \in Locked => owner[i] = "user")
BY DEF Kinds, SaveAllowed, Flaws, Locked, ensure_rule_is_user_editable, validate_map_rule, validate_dns_mapping, compile_script_rule

\* One row was written as the rule says, and the others agree as before.
LEMMA OwedAfterSave ==
  ASSUME TablesInv, NEW o \in Editors, NEW i \in RuleIds, i = ops[o].id, ops[o].act \in {"save", "bulk"}, ruleKind # "profile",
         UNCHANGED <<ruleKind, memory, owner>>, ops' = [ops EXCEPT ![o].pc = "publish"],
         ruleRows' = [ruleRows EXCEPT ![i] = RowOf(ops[o].rule)], \A j \in RuleIds : Agrees(j)
  PROVE  Owed(o)'
<1>1. /\ ops'[o].act = ops[o].act /\ ops'[o].id = i /\ ops'[o].rule = ops[o].rule  BY MovedCommand
<1>2. PICK r \in RuleShapes : r = ops[o].rule  BY DEF TablesInv, TablesTypes
<1>3. RowOf(ops[o].rule)' = RowOf(r)  BY <1>1, <1>2, EncodedNext
<1>4. ruleRows'[i] = RowOf(r) /\ \A j \in RuleIds \ {i} : ruleRows'[j] = ruleRows[j]
  <2>1. PICK w : w = RowOf(ops[o].rule)  OBVIOUS
  <2>2. ruleRows \in [RuleIds -> RuleShapes]  BY DEF TablesInv, TablesTypes
  <2> QED  BY <1>2, <2>1, <2>2
<1>5. \A j \in RuleIds \ {i} : Agrees(j)'  BY <1>4, AgreesKept
<1> QED  BY <1>1, <1>3, <1>4, <1>5 DEF Owed

\* Saving a rule of any kind but a profile writes its one row.
LEMMA SaveKeeps ==
  ASSUME TablesInv, NEW o \in Editors, PersistSave(o), ruleKind # "profile"
  PROVE  TablesInv'
<1>1. /\ ops[o].pc = "check" /\ ops[o].act = "save" /\ dbHolder = NobodyHolds /\ ops' = [ops EXCEPT ![o].pc = "publish"]
      /\ diverged' = (diverged \/ Crossed(o)) /\ due' = due
      /\ UNCHANGED <<ruleKind, memory, owner, matched, mutex, dbHolder>>
  BY DEF PersistSave, Persisting, Goes
<1>2. /\ ruleKind \in Kinds /\ diverged \in BOOLEAN /\ CommandShape(o) /\ ops[o].rule \in RuleShapes
  BY DEF TablesInv, TablesTypes, OpsInv
<1>3. PICK i \in RuleIds : i = ops[o].id  BY <1>1, <1>2 DEF CommandShape
<1>4. PICK r \in RuleShapes : r = ops[o].rule  BY <1>2
<1>5. PICK w \in RuleShapes : w = RowOf(r) /\ w.flaw = r.flaw  BY <1>2, RowOfEffect
<1>6. ruleKind # "breakpoint"  BY <1>1, <1>2 DEF CommandShape, ActsOf
<1>7. SaveAllowed(i, r) /\ SaveRow(i, w)  BY <1>3, <1>4, <1>5 DEF PersistSave
<1>8. r.flaw \notin Flaws /\ (ruleKind \in Locked => owner[i] = "user")
  <2>1. r.flaw \in {"none", "blank", "mode", "target", "source"}  BY DEF RuleShapes
  <2> QED  BY <1>2, <1>7, <2>1, AllowedIsSound
<1>9. runs' = runs /\ runEntries' = runEntries /\ ruleRows' = [ruleRows EXCEPT ![i] = w]
  <2>1. ruleKind \in Kinds \ {"breakpoint"}  BY <1>2, <1>6
  <2> QED  BY <1>7, <2>1, SaveRowEffect
<1>10. owner[i] # "agent"  BY <1>8 DEF TablesInv, RowsInv
<1>11. RowsInv' /\ ruleRows' \in [RuleIds -> RuleShapes]  BY <1>1, <1>5, <1>8, <1>9, <1>10, RowsChanged
<1>12. RunsInv'  BY <1>1, <1>9, RunsKept DEF TablesInv
<1>13. ~diverged' => \A p \in Editors \ {o} : ~InTheWindow(p)  BY <1>1, AloneUnlessCrossed DEF Deciding
<1>14. ~diverged' => Owed(o)'
  <2> SUFFICES ASSUME ~diverged' PROVE Owed(o)'  OBVIOUS
  <2>1. \A p \in Editors : ~InTheWindow(p)  BY <1>1, <1>13 DEF InTheWindow
  <2>2. \A j \in RuleIds : Agrees(j)  BY <1>1, <2>1 DEF TablesInv, AgreeInv
  <2> QED  BY <1>1, <1>3, <1>4, <1>5, <1>9, <2>2, OwedAfterSave
<1>15. CommandChecked(o)'
  <2>1. ops'[o].act = "save" /\ ops'[o].rule = r /\ ops'[o].pc = "publish"  BY <1>1, <1>4, MovedCommand
  <2>2. Flaws' = Flaws  BY <1>1 DEF Flaws
  <2> QED  BY <1>8, <2>1, <2>2 DEF CommandChecked, HoldsRows, InTheWindow
<1>16. diverged' \in BOOLEAN /\ (diverged => diverged') /\ dbHolder \in {NobodyHolds, o}  BY <1>1
<1>17. ops[o].act # "none" /\ ops[o].pc \in {"check", "write"} /\ (ops[o].pc = "check" => ops[o].act # "bulk")  BY <1>1
<1> QED  BY <1>1, <1>11, <1>12, <1>13, <1>14, <1>15, <1>16, <1>17, WindowOpens
\* A command that writes its rows in one statement: what is left to show is what it did to them.
LEMMA PersistOpens ==
  ASSUME TablesInv, NEW o \in Editors, NEW act \in TableActs \ {"none", "bulk", "save"}, Persisting(o, act),
         ruleRows' \in [RuleIds -> RuleShapes], RowsInv', RunsInv',
         ~diverged => ((\A j \in RuleIds : Agrees(j)) => Owed(o)')
  PROVE  TablesInv'
<1>1. /\ ops[o].pc = "check" /\ ops[o].act = act /\ dbHolder = NobodyHolds /\ ops' = [ops EXCEPT ![o].pc = "publish"]
      /\ diverged' = (diverged \/ Crossed(o))
      /\ UNCHANGED <<ruleKind, memory, owner, matched, mutex, dbHolder>>
  BY DEF Persisting, Goes
<1>2. diverged \in BOOLEAN  BY DEF TablesInv, TablesTypes
<1>3. ~diverged' => \A p \in Editors \ {o} : ~InTheWindow(p)  BY <1>1, AloneUnlessCrossed DEF Deciding
<1>4. ~diverged' => Owed(o)'
  <2> SUFFICES ASSUME ~diverged' PROVE Owed(o)'  OBVIOUS
  <2>1. \A p \in Editors : ~InTheWindow(p)  BY <1>1, <1>3 DEF InTheWindow
  <2>2. \A j \in RuleIds : Agrees(j)  BY <1>1, <2>1 DEF TablesInv, AgreeInv
  <2> QED  BY <1>1, <2>2
<1>5. CommandChecked(o)'
  <2>1. ops'[o].act = act /\ ops'[o].pc = "publish"  BY <1>1, MovedCommand
  <2> QED  BY <2>1 DEF CommandChecked, HoldsRows
<1>6. diverged' \in BOOLEAN /\ (diverged => diverged') /\ dbHolder \in {NobodyHolds, o}  BY <1>1
<1>7. ops[o].act # "none" /\ ops[o].pc \in {"check", "write"} /\ (ops[o].pc = "check" => ops[o].act # "bulk")  BY <1>1
<1> QED  BY <1>1, <1>3, <1>4, <1>5, <1>6, <1>7, WindowOpens

\* Deleting a rule takes its runs with it, exactly as the history that is due.
LEMMA RunsAfterDelete ==
  ASSUME RunsInv, ruleKind \in Kinds \ {"breakpoint", "profile"}, NEW i \in RuleIds, DeleteRow(i),
         ruleKind' = ruleKind, matched' = matched,
         due' = [s \in TracedSessions |->
                  IF i \notin due[s] \/ ruleKind \notin {"script", "throttle"} THEN due[s]
                  ELSE (due[s] \ {i}) \cup (IF ruleKind = "throttle" THEN {"null"} ELSE {})]
  PROVE  RunsInv'
<1>1. /\ DOMAIN runs = TracedSessions /\ DOMAIN runEntries = TracedSessions /\ DOMAIN due = TracedSessions
      /\ DOMAIN matched = TracedSessions
      /\ \A s \in TracedSessions :
           /\ runs[s] = due[s]
           /\ ruleKind \in {"script", "rewrite"} => runEntries[s] = runs[s]
           /\ matched[s] # {} => HasRuns
  BY DEF RunsInv
<1>2. DOMAIN due' = TracedSessions /\ DOMAIN matched' = TracedSessions /\ HasRuns' = HasRuns  BY <1>1 DEF HasRuns
<1>3. CASE ruleKind \notin {"script", "throttle"}
  <2>1. runs' = runs /\ runEntries' = runEntries  BY <1>3, DeleteRowEffect
  <2>2. \A s \in TracedSessions : due'[s] = due[s]  BY <1>3
  <2> QED  BY <1>1, <1>2, <2>1, <2>2 DEF RunsInv
<1>4. CASE ruleKind = "script"
  <2>1. /\ runs' = [s \in TracedSessions |-> runs[s] \ {i}]
        /\ runEntries' = [s \in TracedSessions |-> runEntries[s] \ {i}]
    BY <1>4, DeleteRowEffect
  <2>2. \A s \in TracedSessions : due'[s] = due[s] \ {i}  BY <1>4
  <2>3. \A s \in TracedSessions : runs'[s] = due'[s] /\ runEntries'[s] = runs'[s]  BY <1>1, <1>4, <2>1, <2>2
  <2>4. DOMAIN runs' = TracedSessions /\ DOMAIN runEntries' = TracedSessions  BY <2>1
  <2> QED  BY <1>1, <1>2, <2>3, <2>4 DEF RunsInv
<1>5. CASE ruleKind = "throttle"
  <2>1. /\ runs' = [s \in TracedSessions |-> IF i \in runs[s] THEN (runs[s] \ {i}) \cup {"null"} ELSE runs[s]]
        /\ runEntries' = runEntries
    BY <1>5, DeleteRowEffect
  <2>2. \A s \in TracedSessions : runs'[s] = due'[s]
    <3> SUFFICES ASSUME NEW s \in TracedSessions PROVE runs'[s] = due'[s]  OBVIOUS
    <3>1. runs'[s] = IF i \in due[s] THEN (due[s] \ {i}) \cup {"null"} ELSE due[s]  BY <1>1, <2>1
    <3>2. due'[s] = IF i \in due[s] THEN (due[s] \ {i}) \cup {"null"} ELSE due[s]  BY <1>5
    <3> QED  BY <3>1, <3>2
  <2>3. DOMAIN runs' = TracedSessions /\ DOMAIN runEntries' = TracedSessions  BY <1>1, <2>1
  <2> QED  BY <1>1, <1>2, <1>5, <2>2, <2>3 DEF RunsInv
<1> QED  BY <1>3, <1>4, <1>5

\* A deleted rule was not an automation's; its row is gone and the others agree as before.
LEMMA DeleteKeeps ==
  ASSUME TablesInv, NEW o \in Editors, PersistDelete(o)
  PROVE  TablesInv'
<1>1. /\ ops[o].pc = "check" /\ ops[o].act = "delete" /\ ops' = [ops EXCEPT ![o].pc = "publish"]
      /\ UNCHANGED <<ruleKind, memory, owner, matched>> /\ Persisting(o, "delete")
  BY DEF PersistDelete, Persisting, Goes
<1>2. ruleKind \in Kinds /\ CommandShape(o) /\ ruleRows \in [RuleIds -> RuleShapes]  BY DEF TablesInv, TablesTypes, OpsInv
<1>3. PICK i \in RuleIds : i = ops[o].id  BY <1>1, <1>2 DEF CommandShape
<1>4. ruleKind \in Kinds \ {"breakpoint", "profile"}  BY <1>1, <1>2 DEF CommandShape, ActsOf
<1>5. DeleteRow(i) /\ DeleteAllowed(i)  BY <1>3 DEF PersistDelete
<1>6. ruleRows' = [ruleRows EXCEPT ![i] = NoRule]  BY <1>4, <1>5, DeleteRowEffect
<1>7. owner[i] # "agent"  BY <1>5 DEF DeleteAllowed, TablesInv, RowsInv
<1>8. NoRule \in RuleShapes /\ NoRule.flaw \notin Flaws
  <2>1. NoRule \in RuleShapes  BY <1>2, InputShapes
  <2>2. NoRule.flaw = "none"  BY DEF NoRule
  <2> QED  BY <2>1, <2>2 DEF Flaws
<1>9. RowsInv' /\ ruleRows' \in [RuleIds -> RuleShapes]  BY <1>1, <1>4, <1>6, <1>7, <1>8, RowsChanged
<1>10. RunsInv'
  <2>1. due' = [s \in TracedSessions |->
                  IF i \notin due[s] \/ ruleKind \notin {"script", "throttle"} THEN due[s]
                  ELSE (due[s] \ {i}) \cup (IF ruleKind = "throttle" THEN {"null"} ELSE {})]
    BY <1>3 DEF PersistDelete
  <2> QED  BY <1>1, <1>4, <1>5, <2>1, RunsAfterDelete DEF TablesInv
<1>11. (\A j \in RuleIds : Agrees(j)) => Owed(o)'
  <2> SUFFICES ASSUME \A j \in RuleIds : Agrees(j) PROVE Owed(o)'  OBVIOUS
  <2>1. ops'[o].act = "delete" /\ ops'[o].id = i  BY <1>1, <1>3, MovedCommand
  <2>2. ruleRows'[i] = NoRule /\ \A j \in RuleIds \ {i} : ruleRows'[j] = ruleRows[j]  BY <1>2, <1>6
  <2>3. \A j \in RuleIds \ {i} : Agrees(j)'  BY <1>1, <2>2, AgreesKept
  <2> QED  BY <2>1, <2>2, <2>3 DEF Owed
<1>12. "delete" \in TableActs \ {"none", "bulk", "save"}  BY DEF TableActs
<1> QED  BY <1>1, <1>9, <1>10, <1>11, <1>12, PersistOpens

\* The whole breakpoint table is written as the editor holds it.
LEMMA ReplaceKeeps ==
  ASSUME TablesInv, NEW o \in Editors, set_breakpoint_rules(o)
  PROVE  TablesInv'
<1>1. /\ ops[o].pc = "check" /\ ops[o].act = "replace" /\ ops' = [ops EXCEPT ![o].pc = "publish"]
      /\ UNCHANGED <<ruleKind, memory, owner, matched, runs, runEntries, due>> /\ Persisting(o, "replace")
      /\ replace_breakpoint_rules(ops[o].list[1])
  BY DEF set_breakpoint_rules, Persisting, Goes, replace_breakpoint_rules
<1>2. ruleKind \in Kinds /\ CommandShape(o) /\ ruleRows \in [RuleIds -> RuleShapes]  BY DEF TablesInv, TablesTypes, OpsInv
<1>3. ruleKind = "breakpoint"  BY <1>1, <1>2 DEF CommandShape, ActsOf
<1>4. PICK t \in [RuleIds -> RuleShapes] : t = ops[o].list[1]  BY <1>1, <1>2 DEF CommandShape
<1>5. ruleRows' = [j \in RuleIds |-> RowOf(t[j])]  BY <1>1, <1>4 DEF replace_breakpoint_rules
<1>6. \A j \in RuleIds : RowOf(t[j]) \in RuleShapes
  <2> SUFFICES ASSUME NEW j \in RuleIds PROVE RowOf(t[j]) \in RuleShapes  OBVIOUS
  <2>1. PICK r \in RuleShapes : r = t[j]  OBVIOUS
  <2>2. RowOf(r) \in RuleShapes  BY <1>2, RowOfEffect
  <2> QED  BY <2>1, <2>2
<1>7. ruleRows' \in [RuleIds -> RuleShapes]  BY <1>5, <1>6
<1>8. RowsInv'
  <2>1. Flaws' = {} /\ Flaws = {} /\ ruleKind \notin Locked  BY <1>1, <1>3 DEF Flaws, Locked
  <2>2. \A j \in RuleIds : memory[j].mt # "" /\ owner[j] = "user"  BY <1>3, <2>1 DEF TablesInv, RowsInv
  <2> QED  BY <1>1, <1>3, <2>1, <2>2 DEF RowsInv
<1>9. RunsInv'  BY <1>1, RunsKept DEF TablesInv
<1>10. Owed(o)'
  <2>1. ops'[o].act = "replace" /\ ops'[o].list = ops[o].list  BY <1>1, MovedCommand
  <2>2. \A j \in RuleIds : ruleRows'[j] = RowOf(ops[o].list[1][j])'
    <3> SUFFICES ASSUME NEW j \in RuleIds PROVE ruleRows'[j] = RowOf(ops[o].list[1][j])'  OBVIOUS
    <3>1. PICK r : r = t[j]  OBVIOUS
    <3>2. ops'[o].list[1][j] = r  BY <1>4, <2>1, <3>1
    <3>3. RowOf(ops[o].list[1][j])' = RowOf(r)  BY <1>1, <3>2, TableEncodedNext
    <3>4. ruleRows'[j] = RowOf(t[j])  BY <1>5
    <3> QED  BY <3>1, <3>3, <3>4
  <2> QED  BY <2>1, <2>2 DEF Owed
<1>11. "replace" \in TableActs \ {"none", "bulk", "save"}  BY DEF TableActs
<1> QED  BY <1>1, <1>7, <1>8, <1>9, <1>10, <1>11, PersistOpens
\* Of the profiles nobody but the user owns any, and a profile that agrees with its row differs in nothing.
LEMMA ProfileRows ==
  ASSUME TablesInv, ruleKind = "profile"
  PROVE  /\ Flaws = {} /\ \A j \in RuleIds : owner[j] = "user"
         /\ \A j \in RuleIds : Agrees(j) => SameButSwitch(j)
         /\ \A j \in RuleIds : ruleRows[j] \in RuleShapes /\ memory[j] \in RuleShapes
<1>1. Flaws = {}  BY DEF Flaws
<1>2. \A j \in RuleIds : owner[j] = "user"  BY DEF TablesInv, RowsInv, Locked
<1>3. \A j \in RuleIds : ruleRows[j] \in RuleShapes /\ memory[j] \in RuleShapes  BY DEF TablesInv, TablesTypes
<1>4. ASSUME NEW j \in RuleIds, Agrees(j) PROVE SameButSwitch(j)
  <2>1. RuleOf(ruleRows[j]) = ruleRows[j]  BY DEF RuleOf
  <2>2. Effect(memory[j]) = Effect(ruleRows[j])  BY <1>2, <1>4, <2>1 DEF Agrees
  <2> QED  BY <2>2 DEF SameButSwitch, Effect
<1> QED  BY <1>1, <1>2, <1>3, <1>4

\* Switching a row keeps all of it but its switch.
LEMMA SwitchedRow ==
  ASSUME NEW r \in RuleShapes, NEW b \in BOOLEAN
  PROVE  /\ [r EXCEPT !.on = b] \in RuleShapes /\ [r EXCEPT !.on = b].v = r.v /\ [r EXCEPT !.on = b].mt = r.mt
         /\ [r EXCEPT !.on = b].on = b /\ (r = NoRule /\ ~b => [r EXCEPT !.on = b] = NoRule)
<1>1. /\ [r EXCEPT !.on = b] \in RuleShapes /\ [r EXCEPT !.on = b].v = r.v /\ [r EXCEPT !.on = b].mt = r.mt
      /\ [r EXCEPT !.on = b].on = b
  BY DEF RuleShapes
<1>2. ASSUME r = NoRule, ~b PROVE [r EXCEPT !.on = b] = NoRule
  <2>1. PICK c \in BOOLEAN : c = FALSE  OBVIOUS
  <2>2. r = [form |-> "none", v |-> 0, mt |-> "none", flaw |-> "none", on |-> c]  BY <1>2, <2>1 DEF NoRule
  <2>3. b = c  BY <1>2, <2>1
  <2>4. [r EXCEPT !.on = c] = r  BY <2>2
  <2> QED  BY <1>2, <2>3, <2>4
<1> QED  BY <1>1, <1>2

\* The rows of the profiles after the switches of some were set, one being on at most.
LEMMA SwitchedRows ==
  ASSUME TablesInv, ruleKind = "profile", UNCHANGED <<ruleKind, memory, owner>>, DOMAIN ruleRows' = RuleIds,
         \A j \in RuleIds : ruleRows'[j] \in RuleShapes /\ (ruleRows'[j].v = 0 => ruleRows'[j] = NoRule),
         \A i, j \in RuleIds : ruleRows'[i].on /\ ruleRows'[j].on => i = j,
         ruleRows' = [j \in RuleIds |-> ruleRows'[j]]
  PROVE  RowsInv' /\ ruleRows' \in [RuleIds -> RuleShapes]
<1>1. Flaws' = {}  BY DEF Flaws
<1>2. \A j \in RuleIds : owner[j] = "user"  BY ProfileRows
<1>3. RowsInv'  BY <1>1, <1>2 DEF RowsInv
<1> QED  BY <1>3

\* Activating a profile switches all the others off.
LEMMA ActivateKeeps ==
  ASSUME TablesInv, NEW o \in Editors, PersistActive(o)
  PROVE  TablesInv'
<1>1. /\ ops[o].pc = "check" /\ ops[o].act = "activate" /\ ops' = [ops EXCEPT ![o].pc = "publish"]
      /\ UNCHANGED <<ruleKind, memory, owner, matched, runs, runEntries, due>> /\ Persisting(o, "activate")
  BY DEF PersistActive, Persisting, Goes, set_active_throttle_profile
<1>2. ruleKind \in Kinds /\ CommandShape(o) /\ ruleRows \in [RuleIds -> RuleShapes]  BY DEF TablesInv, TablesTypes, OpsInv
<1>3. ruleKind = "profile"  BY <1>1, <1>2 DEF CommandShape, ActsOf
<1>4. PICK i : i = ops[o].id  OBVIOUS
<1>5. /\ i \in RuleIds => ruleRows[i] # NoRule
      /\ ruleRows' = [j \in RuleIds |-> [ruleRows[j] EXCEPT !.on = (j = i)]]
  BY <1>4 DEF PersistActive, set_active_throttle_profile
<1>6. \A j \in RuleIds : (ruleRows[j].v = 0 => ruleRows[j] = NoRule) /\ ruleRows[j] \in RuleShapes
  BY <1>2, <1>3 DEF TablesInv, RowsInv
<1>7. ASSUME NEW j \in RuleIds
      PROVE  /\ ruleRows'[j] \in RuleShapes /\ ruleRows'[j].v = ruleRows[j].v /\ ruleRows'[j].mt = ruleRows[j].mt
             /\ ruleRows'[j].on = (j = i) /\ (ruleRows'[j].v = 0 => ruleRows'[j] = NoRule)
  <2>1. PICK r \in RuleShapes : r = ruleRows[j]  BY <1>6
  <2>2. PICK b \in BOOLEAN : b = (j = i)  OBVIOUS
  <2>3. ruleRows'[j] = [r EXCEPT !.on = b]  BY <1>5, <2>1, <2>2
  <2>4. r.v = 0 => r = NoRule /\ ~b  BY <1>5, <1>6, <2>1, <2>2
  <2>5. ruleRows'[j] \in RuleShapes /\ ruleRows'[j].v = r.v /\ ruleRows'[j].mt = r.mt /\ ruleRows'[j].on = b
        /\ (r = NoRule /\ ~b => ruleRows'[j] = NoRule)
    BY <2>3, SwitchedRow
  <2> QED  BY <2>1, <2>2, <2>4, <2>5
<1>8. RowsInv' /\ ruleRows' \in [RuleIds -> RuleShapes]
  <2>1. DOMAIN ruleRows' = RuleIds /\ ruleRows' = [j \in RuleIds |-> ruleRows'[j]]  BY <1>5
  <2>2. \A j \in RuleIds : ruleRows'[j] \in RuleShapes /\ (ruleRows'[j].v = 0 => ruleRows'[j] = NoRule)  BY <1>7
  <2>3. \A j, k \in RuleIds : ruleRows'[j].on /\ ruleRows'[k].on => j = k
    <3> SUFFICES ASSUME NEW j \in RuleIds, NEW k \in RuleIds, ruleRows'[j].on, ruleRows'[k].on PROVE j = k  OBVIOUS
    <3>1. j = i  BY <1>7
    <3>2. k = i  BY <1>7
    <3> QED  BY <3>1, <3>2
  <2> QED  BY <1>1, <1>3, <2>1, <2>2, <2>3, SwitchedRows
<1>9. RunsInv'  BY <1>1, RunsKept DEF TablesInv
<1>10. (\A j \in RuleIds : Agrees(j)) => Owed(o)'
  <2> SUFFICES ASSUME \A j \in RuleIds : Agrees(j) PROVE Owed(o)'  OBVIOUS
  <2>1. ops'[o].act = "activate" /\ ops'[o].id = i  BY <1>1, <1>4, MovedCommand
  <2>2. \A j \in RuleIds : SameButSwitch(j)  BY <1>3, ProfileRows
  <2>3. \A j \in RuleIds : SameButSwitch(j)'  BY <1>1, <1>7, <2>2 DEF SameButSwitch, Effect
  <2>4. i \in RuleIds => memory[i] # NoRule
    <3>1. NoRule.v = 0  BY DEF NoRule
    <3> QED  BY <1>5, <1>6, <2>2, <3>1 DEF SameButSwitch
  <2>5. \A j \in RuleIds : ruleRows'[j].on = (j = i)  BY <1>7
  <2> QED  BY <1>1, <2>1, <2>3, <2>4, <2>5 DEF Owed
<1>11. "activate" \in TableActs \ {"none", "bulk", "save"}  BY DEF TableActs
<1> QED  BY <1>1, <1>8, <1>9, <1>10, <1>11, PersistOpens

\* Saving a profile that is on switches the others off; one that is off leaves them.
LEMMA ProfileSaveKeeps ==
  ASSUME TablesInv, NEW o \in Editors, PersistSave(o), ruleKind = "profile"
  PROVE  TablesInv'
<1>1. /\ ops[o].pc = "check" /\ ops[o].act = "save" /\ dbHolder = NobodyHolds /\ ops' = [ops EXCEPT ![o].pc = "publish"]
      /\ diverged' = (diverged \/ Crossed(o)) /\ due' = due
      /\ UNCHANGED <<ruleKind, memory, owner, matched, mutex, dbHolder>>
  BY DEF PersistSave, Persisting, Goes
<1>2. /\ ruleKind \in Kinds /\ diverged \in BOOLEAN /\ CommandShape(o) /\ ops[o].rule \in RuleShapes
      /\ ruleRows \in [RuleIds -> RuleShapes]
  BY DEF TablesInv, TablesTypes, OpsInv
<1>3. PICK i \in RuleIds : i = ops[o].id  BY <1>1, <1>2 DEF CommandShape
<1>4. PICK r \in RuleShapes : r = ops[o].rule  BY <1>2
<1>5. RowOf(r) = r /\ r.v # 0  BY <1>1, <1>2, <1>4 DEF RowOf, CommandShape
<1>6. /\ runs' = runs /\ runEntries' = runEntries
      /\ ruleRows' = [j \in RuleIds |-> IF j = i THEN r ELSE IF r.on THEN [ruleRows[j] EXCEPT !.on = FALSE] ELSE ruleRows[j]]
  <2>1. SaveRow(i, r)  BY <1>3, <1>4, <1>5 DEF PersistSave
  <2>2. ruleKind \in Kinds \ {"breakpoint"}  BY <1>2
  <2> QED  BY <2>1, <2>2, SaveRowEffect
<1>7. /\ \A j \in RuleIds : (ruleRows[j].v = 0 => ruleRows[j] = NoRule) /\ ruleRows[j] \in RuleShapes
      /\ \A j, k \in RuleIds : ruleRows[j].on /\ ruleRows[k].on => j = k
  BY <1>2 DEF TablesInv, RowsInv
<1>8. r.on \in BOOLEAN  BY DEF RuleShapes
<1>9. ASSUME NEW j \in RuleIds \ {i}
      PROVE  /\ ruleRows'[j] \in RuleShapes /\ ruleRows'[j].v = ruleRows[j].v /\ ruleRows'[j].mt = ruleRows[j].mt
             /\ (r.on => ~ruleRows'[j].on) /\ (ruleRows'[j].v = 0 => ruleRows'[j] = NoRule)
             /\ (~r.on => ruleRows'[j] = ruleRows[j])
  <2>1. PICK q \in RuleShapes : q = ruleRows[j]  BY <1>7
  <2>2. CASE r.on
    <3>1. PICK b \in BOOLEAN : b = FALSE  OBVIOUS
    <3>2. ruleRows'[j] = [q EXCEPT !.on = b]  BY <1>6, <2>1, <2>2, <3>1
    <3>3. ruleRows'[j] \in RuleShapes /\ ruleRows'[j].v = q.v /\ ruleRows'[j].mt = q.mt /\ ruleRows'[j].on = b
          /\ (q = NoRule /\ ~b => ruleRows'[j] = NoRule)
      BY <3>2, SwitchedRow
    <3> QED  BY <1>7, <2>1, <2>2, <3>1, <3>3
  <2>3. CASE ~r.on
    <3>1. ruleRows'[j] = q  BY <1>6, <2>1, <2>3
    <3> QED  BY <1>7, <2>1, <2>3, <3>1
  <2> QED  BY <1>8, <2>2, <2>3
<1>10. ruleRows'[i] = r  BY <1>6
<1>11. RowsInv' /\ ruleRows' \in [RuleIds -> RuleShapes]
  <2>1. DOMAIN ruleRows' = RuleIds /\ ruleRows' = [j \in RuleIds |-> ruleRows'[j]]  BY <1>6
  <2>2. \A j \in RuleIds : ruleRows'[j] \in RuleShapes /\ (ruleRows'[j].v = 0 => ruleRows'[j] = NoRule)  BY <1>5, <1>9, <1>10
  <2>3. ASSUME NEW j \in RuleIds, NEW k \in RuleIds, ruleRows'[j].on, ruleRows'[k].on PROVE j = k  BY <1>7, <1>9, <1>10, <2>3
  <2> QED  BY <1>1, <2>1, <2>2, <2>3, SwitchedRows
<1>12. RunsInv'  BY <1>1, <1>6, RunsKept DEF TablesInv
<1>13. ~diverged' => \A p \in Editors \ {o} : ~InTheWindow(p)  BY <1>1, AloneUnlessCrossed DEF Deciding
<1>14. /\ ops'[o].act = "save" /\ ops'[o].rule = r /\ ops'[o].pc = "publish" /\ ops'[o].id = i  BY <1>1, <1>3, <1>4, MovedCommand
<1>15. ~diverged' => Owed(o)'
  <2> SUFFICES ASSUME ~diverged' PROVE Owed(o)'  OBVIOUS
  <2>1. \A p \in Editors : ~InTheWindow(p)  BY <1>1, <1>13 DEF InTheWindow
  <2>2. \A j \in RuleIds : Agrees(j)  BY <1>1, <2>1 DEF TablesInv, AgreeInv
  <2>3. CASE r.on
    <3>1. \A j \in RuleIds : SameButSwitch(j)  BY <2>2, ProfileRows
    <3>2. \A j \in RuleIds \ {i} : SameButSwitch(j)' /\ ~ruleRows'[j].on  BY <1>1, <1>9, <2>3, <3>1 DEF SameButSwitch, Effect
    <3> QED  BY <1>1, <1>10, <1>14, <2>3, <3>2 DEF Owed
  <2>4. CASE ~r.on
    <3>1. \A j \in RuleIds \ {i} : Agrees(j)'  BY <1>1, <1>9, <2>2, <2>4, AgreesKept
    <3>2. RowOf(ops[o].rule)' = r  BY <1>1, <1>5, <1>14, EncodedNext
    <3> QED  BY <1>1, <1>10, <1>14, <2>4, <3>1, <3>2 DEF Owed
  <2> QED  BY <1>8, <2>3, <2>4
<1>16. CommandChecked(o)'
  <2>1. Flaws' = {}  BY <1>1 DEF Flaws
  <2> QED  BY <1>14, <2>1 DEF CommandChecked, HoldsRows, InTheWindow
<1>17. diverged' \in BOOLEAN /\ (diverged => diverged') /\ dbHolder \in {NobodyHolds, o}  BY <1>1
<1>18. ops[o].act # "none" /\ ops[o].pc \in {"check", "write"} /\ (ops[o].pc = "check" => ops[o].act # "bulk")  BY <1>1
<1> QED  BY <1>1, <1>11, <1>12, <1>13, <1>15, <1>16, <1>17, <1>18, WindowOpens

\* A bulk command writes the row of one patch; nobody crossed it since it read the rule.
LEMMA BulkWriteKeeps ==
  ASSUME TablesInv, NEW o \in Editors, BulkWrite(o)
  PROVE  TablesInv'
<1>1. /\ ops[o].pc = "write" /\ ops' = [ops EXCEPT ![o].pc = "publish"]
      /\ UNCHANGED <<ruleKind, memory, owner, matched, mutex, dbHolder, diverged, due>>
  BY DEF BulkWrite, Goes
<1>2. /\ ruleKind \in Kinds /\ diverged \in BOOLEAN /\ CommandShape(o) /\ CommandChecked(o) /\ LocksHeld(o)
      /\ ops[o].rule \in RuleShapes /\ ruleRows \in [RuleIds -> RuleShapes]
  BY DEF TablesInv, TablesTypes, OpsInv
<1>3. ops[o].act = "bulk" /\ ops[o].list \in Seq(Patches) /\ ruleKind \notin {"breakpoint", "profile"}
  BY <1>1, <1>2 DEF CommandShape, ActsOf
<1>4. /\ ops[o].rule.flaw \notin Flaws /\ ops[o].rule.mt # "" /\ ops[o].list # << >> /\ ops[o].id = ops[o].list[1].id
      /\ ruleKind \in Locked => \A k \in 1..Len(ops[o].list) : owner[ops[o].list[k].id] = "user"
      /\ dbHolder = o
  BY <1>1, <1>2, <1>3 DEF CommandChecked, HoldsRows, LocksHeld
<1>5. PICK l \in Seq(Patches) : l = ops[o].list  BY <1>3
<1>6. l[1] \in Patches /\ 1 \in 1..Len(l)
  <2>1. l # << >>  BY <1>4, <1>5
  <2> QED  BY <2>1
<1>7. PICK i \in RuleIds : i = ops[o].id /\ i = l[1].id  BY <1>4, <1>5, <1>6 DEF Patches
<1>8. PICK r \in RuleShapes : r = ops[o].rule  BY <1>2
<1>9. PICK w \in RuleShapes : w = RowOf(r) /\ w.flaw = r.flaw  BY <1>2, RowOfEffect
<1>10. runs' = runs /\ runEntries' = runEntries /\ ruleRows' = [ruleRows EXCEPT ![i] = w]
  BY <1>2, <1>3, <1>7, <1>8, <1>9
     DEF BulkWrite, Kinds, bulk_patch_rewrite, bulk_patch_map, bulk_patch_dns, bulk_patch_script, bulk_patch_throttle,
         save_rewrite_row, save_map_row, save_dns_row, save_script_row, save_throttle_row, UpdateOrInsert
<1>11. owner[i] # "agent"
  <2>1. ruleKind \in Locked => owner[i] = "user"  BY <1>4, <1>5, <1>6, <1>7
  <2> QED  BY <2>1 DEF TablesInv, RowsInv
<1>12. RowsInv' /\ ruleRows' \in [RuleIds -> RuleShapes]  BY <1>1, <1>3, <1>4, <1>8, <1>9, <1>10, <1>11, RowsChanged
<1>13. RunsInv'  BY <1>1, <1>10, RunsKept DEF TablesInv
<1>14. ~diverged' => \A p \in Editors \ {o} : ~InTheWindow(p)  BY <1>1 DEF TablesInv, SoloInv
<1>15. ~diverged' => Owed(o)'
  <2> SUFFICES ASSUME ~diverged' PROVE Owed(o)'  OBVIOUS
  <2>1. \A p \in Editors : ~InTheWindow(p)  BY <1>1, <1>14 DEF InTheWindow
  <2>2. \A j \in RuleIds : Agrees(j)  BY <1>1, <2>1 DEF TablesInv, AgreeInv
  <2>3. ops[o].act \in {"save", "bulk"} /\ ruleKind # "profile" /\ i = ops[o].id  BY <1>3, <1>7
  <2>4. ruleRows' = [ruleRows EXCEPT ![i] = RowOf(ops[o].rule)]  BY <1>8, <1>9, <1>10
  <2> QED  BY <1>1, <2>2, <2>3, <2>4, OwedAfterSave
<1>16. CommandChecked(o)'
  <2>1. Flaws' = Flaws  BY <1>1 DEF Flaws
  <2>2. ops'[o].act = "bulk" /\ ops'[o].rule = ops[o].rule /\ ops'[o].pc = "publish" /\ ops'[o].list = ops[o].list
        /\ ops'[o].id = ops[o].id
    BY <1>1, <1>3, MovedCommand
  <2>3. ruleKind \in Locked => \A k \in 1..Len(ops'[o].list) : owner'[ops'[o].list[k].id] = "user"  BY <1>1, <1>4, <2>2
  <2>4. /\ ops'[o].rule.flaw \notin Flaws /\ ops'[o].rule.mt # "" /\ ops'[o].list # << >>
        /\ ops'[o].id = ops'[o].list[1].id
    BY <1>4, <2>2
  <2> QED  BY <1>1, <2>1, <2>2, <2>3, <2>4 DEF CommandChecked
<1>17. diverged' \in BOOLEAN /\ (diverged => diverged') /\ dbHolder \in {NobodyHolds, o}  BY <1>1, <1>2, <1>4
<1>18. ops[o].act # "none" /\ ops[o].pc \in {"check", "write"} /\ (ops[o].pc = "check" => ops[o].act # "bulk")  BY <1>1, <1>3
<1> QED  BY <1>1, <1>12, <1>13, <1>14, <1>15, <1>16, <1>17, <1>18, WindowOpens
\* A command writes its manager: nobody is then between two writes.
LEMMA WindowCloses ==
  ASSUME TablesInv, NEW o \in Editors, InTheWindow(o),
         UNCHANGED <<ruleKind, ruleRows, runs, runEntries, matched, diverged, due>>,
         memory' \in [RuleIds -> RuleShapes], owner' \in [RuleIds -> {"user", "agent", "temp"}],
         \A i \in RuleIds : owner'[i] = owner[i] \/ owner'[i] = "user",
         \A i \in RuleIds : memory'[i].flaw \notin Flaws /\ (ruleKind # "profile" => memory'[i].mt # ""),
         DOMAIN ops' = Editors, \A p \in Editors \ {o} : ops'[p] = ops[p],
         ops'[o].pc \in {"rest", "read"}, ops'[o].act \in TableActs, ops'[o].rule \in RuleShapes,
         ops'[o] = [pc |-> ops'[o].pc, act |-> ops'[o].act, id |-> ops'[o].id, rule |-> ops'[o].rule,
                    list |-> ops'[o].list, ok |-> ops'[o].ok],
         CommandShape(o)', CommandChecked(o)', \A p \in Editors : LocksHeld(p)',
         ~diverged => \A i \in RuleIds : Agrees(i)'
  PROVE  TablesInv'
<1>1. TablesTypes'
  <2>1. ops'[o].pc \in TablePhases  BY DEF TablePhases
  <2> QED  BY <2>1 DEF TablesInv, TablesTypes
<1>2. \A p \in Editors \ {o} : CommandShape(p)' /\ CommandChecked(p)'  BY CommandKept DEF TablesInv, OpsInv
<1>3. OpsInv'  BY <1>2 DEF OpsInv
<1>4. RowsInv'
  <2>1. Flaws' = Flaws /\ OldRow' = OldRow  BY DEF Flaws, OldRow
  <2>2. RowsInv  BY DEF TablesInv
  <2> QED  BY <2>1, <2>2 DEF RowsInv
<1>5. RunsInv'  BY RunsKept DEF TablesInv
<1>6. ~diverged => \A p \in Editors \ {o} : ~InTheWindow(p)  BY DEF TablesInv, SoloInv
<1>7. ~diverged' => \A p \in Editors : ~InTheWindow(p)'  BY <1>6 DEF InTheWindow
<1>8. SoloInv' /\ AgreeInv'  BY <1>7 DEF SoloInv, AgreeInv
<1> QED  BY <1>1, <1>3, <1>4, <1>5, <1>8 DEF TablesInv

\* The same when the command then rests.
LEMMA PublishedAtRest ==
  ASSUME TablesInv, NEW o \in Editors, InTheWindow(o), EditDone(o), dbHolder' = dbHolder,
         UNCHANGED <<ruleKind, ruleRows, runs, runEntries, matched, diverged, due>>,
         memory' \in [RuleIds -> RuleShapes], owner' \in [RuleIds -> {"user", "agent", "temp"}],
         \A i \in RuleIds : owner'[i] = owner[i] \/ owner'[i] = "user",
         \A i \in RuleIds : memory'[i].flaw \notin Flaws /\ (ruleKind # "profile" => memory'[i].mt # ""),
         ~diverged => \A i \in RuleIds : Agrees(i)'
  PROVE  TablesInv'
<1>0. ruleKind \in Kinds  BY DEF TablesInv, TablesTypes
<1>1. /\ \A p \in Editors : LocksHeld(p)'
      /\ DOMAIN ops' = Editors /\ ops'[o] = AtRest /\ \A p \in Editors \ {o} : ops'[p] = ops[p]
  BY LocksAfterDone
<1>2. /\ ops'[o] = [pc |-> ops'[o].pc, act |-> ops'[o].act, id |-> ops'[o].id, rule |-> ops'[o].rule,
                    list |-> ops'[o].list, ok |-> ops'[o].ok]
      /\ ops'[o].pc = "rest" /\ ops'[o].act = "none" /\ ops'[o].rule \in RuleShapes
      /\ CommandShape(o)' /\ CommandChecked(o)'
  BY <1>0, <1>1, AtRestShape
<1>3. ops'[o].pc \in {"rest", "read"} /\ ops'[o].act \in TableActs  BY <1>2 DEF TableActs
<1> QED  BY <1>1, <1>2, <1>3, WindowCloses

\* The manager takes the rule whose row was written.
LEMMA ManagerCatchesUp ==
  ASSUME TablesInv, NEW o \in Editors, NEW i \in RuleIds, i = ops[o].id, NEW r \in RuleShapes, r = ops[o].rule,
         ops[o].act \in {"save", "bulk"}, ~(ruleKind = "profile" /\ r.on), InTheWindow(o),
         memory' = [memory EXCEPT ![i] = r], UNCHANGED <<ruleKind, ruleRows, owner>>,
         ruleKind # "profile" => r.mt # "", ~diverged
  PROVE  \A j \in RuleIds : Agrees(j)'
<1>1. Owed(o) /\ memory \in [RuleIds -> RuleShapes] /\ ruleKind \in Kinds  BY DEF TablesInv, AgreeInv, TablesTypes
<1>2. ruleRows[i] = RowOf(r) /\ \A j \in RuleIds \ {i} : Agrees(j)  BY <1>1 DEF Owed
<1>3. memory'[i] = r /\ \A j \in RuleIds \ {i} : memory'[j] = memory[j]  BY <1>1
<1>4. \A j \in RuleIds \ {i} : Agrees(j)'  BY <1>2, <1>3, AgreesKept
<1>5. Agrees(i)'
  <2>1. PICK w : w = RowOf(r)  OBVIOUS
  <2>2. Effect(r) = Effect(RuleOf(w))  BY <1>1, <2>1, StoredAsMeant
  <2>3. ruleRows'[i] = w  BY <1>2, <2>1
  <2> QED  BY <1>3, <2>2, <2>3, AgreesNext
<1> QED  BY <1>4, <1>5

\* The other rules of the manager are as they were.
LEMMA ManagerRules ==
  ASSUME TablesInv, NEW i \in RuleIds, NEW r \in RuleShapes, memory' = [memory EXCEPT ![i] = r], r.flaw \notin Flaws,
         ruleKind # "profile" => r.mt # ""
  PROVE  /\ memory' \in [RuleIds -> RuleShapes]
         /\ \A j \in RuleIds : memory'[j].flaw \notin Flaws /\ (ruleKind # "profile" => memory'[j].mt # "")
<1>1. memory \in [RuleIds -> RuleShapes] /\ RowsInv  BY DEF TablesInv, TablesTypes
<1>2. memory'[i] = r /\ \A j \in RuleIds \ {i} : memory'[j] = memory[j]  BY <1>1
<1> QED  BY <1>1, <1>2 DEF RowsInv

\* A saved rule is published: the command is done, unless an enabled profile is still to be made the active one.
LEMMA PublishSavedKeeps ==
  ASSUME TablesInv, NEW o \in Editors, PublishRule(o), ops[o].act = "save"
  PROVE  TablesInv'
<1>1. /\ ops[o].pc = "publish" /\ InTheWindow(o) /\ owner' = owner
      /\ UNCHANGED <<ruleKind, ruleRows, runs, runEntries, matched, dbHolder, diverged, due>>
  BY DEF PublishRule, InTheWindow
<1>2. /\ ruleKind \in Kinds /\ CommandShape(o) /\ CommandChecked(o) /\ ops[o].rule \in RuleShapes
      /\ owner \in [RuleIds -> {"user", "agent", "temp"}] /\ memory \in [RuleIds -> RuleShapes] /\ LocksHeld(o)
  BY DEF TablesInv, TablesTypes, OpsInv
<1>3. PICK i \in RuleIds : i = ops[o].id  BY <1>2 DEF CommandShape
<1>4. PICK r \in RuleShapes : r = ops[o].rule  BY <1>2
<1>5. r.flaw \notin Flaws /\ r.v # 0 /\ (ruleKind # "profile" => r.mt # "") /\ ruleKind # "breakpoint"
  BY <1>1, <1>2, <1>4 DEF CommandChecked, CommandShape, ActsOf
<1>6. memory' = [memory EXCEPT ![i] = r]
  <2>1. memory' = ManagerSave(memory, i, r)  BY <1>3, <1>4 DEF PublishRule
  <2>2. ruleKind \in Kinds \ {"breakpoint"}  BY <1>2, <1>5
  <2>3. PICK m : m = memory  OBVIOUS
  <2>4. ManagerSave(m, i, r) = [m EXCEPT ![i] = r]  BY <2>2, ManagerSaveEffect
  <2> QED  BY <2>1, <2>3, <2>4
<1>7. /\ memory' \in [RuleIds -> RuleShapes]
      /\ \A j \in RuleIds : memory'[j].flaw \notin Flaws /\ (ruleKind # "profile" => memory'[j].mt # "")
  BY <1>5, <1>6, ManagerRules
<1>8. CASE ~(ruleKind = "profile" /\ r.on)
  <2>1. EditDone(o)  BY <1>4, <1>8 DEF PublishRule
  <2>2. ~diverged => \A j \in RuleIds : Agrees(j)'  BY <1>1, <1>3, <1>4, <1>5, <1>6, <1>8, ManagerCatchesUp
  <2> QED  BY <1>1, <1>2, <1>7, <2>1, <2>2, PublishedAtRest
<1>9. CASE ruleKind = "profile" /\ r.on
  <2>1. ops' = [ops EXCEPT ![o].pc = "activate"] /\ mutex' = mutex  BY <1>4, <1>9 DEF PublishRule, Goes
  <2>2. /\ DOMAIN ops' = Editors /\ \A p \in Editors \ {o} : ops'[p] = ops[p]
        /\ ops'[o].pc = "activate" /\ ops'[o].act = ops[o].act /\ ops'[o].id = ops[o].id
        /\ ops'[o].rule = ops[o].rule /\ ops'[o].list = ops[o].list
        /\ ops'[o] = [pc |-> ops'[o].pc, act |-> ops'[o].act, id |-> ops'[o].id, rule |-> ops'[o].rule,
                      list |-> ops'[o].list, ok |-> ops'[o].ok]
    BY <2>1, MovedCommand
  <2>3. TablesTypes'
    <3>1. ops'[o].pc \in TablePhases  BY <2>2 DEF TablePhases
    <3> QED  BY <1>1, <1>7, <2>2, <3>1 DEF TablesInv, TablesTypes
  <2>4. CommandShape(o)'  BY <1>1, <1>2, <1>4, <1>9, <2>2, ShapeMoved
  <2>5. Flaws' = Flaws /\ OldRow' = OldRow  BY <1>1 DEF Flaws, OldRow
  <2>6. CommandChecked(o)'  BY <1>4, <1>5, <2>2, <2>5 DEF CommandChecked, HoldsRows
  <2>7. \A p \in Editors \ {o} : CommandShape(p)' /\ CommandChecked(p)'  BY <1>1, <2>2, CommandKept DEF TablesInv, OpsInv
  <2>8. LocksHeld(o)'  BY <1>9, <1>1, <2>2 DEF LocksHeld, HoldsRows, Locked
  <2>9. \A p \in Editors \ {o} : LocksHeld(p)'  BY <1>1, <2>1, <2>2 DEF TablesInv, OpsInv, LocksHeld, HoldsRows
  <2>10. OpsInv'  BY <2>4, <2>6, <2>7, <2>8, <2>9 DEF OpsInv
  <2>11. RowsInv'
    <3>1. RowsInv  BY DEF TablesInv
    <3> QED  BY <1>1, <1>7, <2>5, <3>1 DEF RowsInv
  <2>12. RunsInv'  BY <1>1, RunsKept DEF TablesInv
  <2>13. SoloInv'  BY <1>1, <2>2 DEF TablesInv, SoloInv, InTheWindow
  <2>14. ~diverged => Owed(o)'
    <3> SUFFICES ASSUME ~diverged PROVE Owed(o)'  OBVIOUS
    <3>1. Owed(o)  BY <1>1 DEF TablesInv, AgreeInv
    <3>2. ruleRows[i] = r /\ \A j \in RuleIds \ {i} : SameButSwitch(j) /\ ~ruleRows[j].on  BY <1>3, <1>4, <1>9, <3>1 DEF Owed
    <3>3. memory'[i] = r /\ \A j \in RuleIds \ {i} : memory'[j] = memory[j]  BY <1>2, <1>6
    <3>4. \A j \in RuleIds \ {i} : SameButSwitch(j)' /\ ~ruleRows'[j].on  BY <1>1, <3>2, <3>3 DEF SameButSwitch, Effect
    <3> QED  BY <1>1, <1>3, <1>4, <1>9, <2>2, <3>2, <3>3, <3>4 DEF Owed
  <2>15. AgreeInv'
    <3>1. InTheWindow(o)'  BY <2>2 DEF InTheWindow
    <3>2. ~diverged => \A p \in Editors \ {o} : ~InTheWindow(p)  BY <1>1 DEF TablesInv, SoloInv
    <3>3. ~diverged' => \A p \in Editors \ {o} : ~InTheWindow(p)'  BY <1>1, <2>2, <3>2 DEF InTheWindow
    <3> QED  BY <1>1, <2>14, <3>1, <3>3 DEF AgreeInv
  <2> QED  BY <2>3, <2>10, <2>11, <2>12, <2>13, <2>15 DEF TablesInv
<1> QED  BY <1>8, <1>9
\* A deleted rule leaves its manager, and with it the agent registry.
LEMMA PublishDeletedKeeps ==
  ASSUME TablesInv, NEW o \in Editors, PublishRule(o), ops[o].act = "delete"
  PROVE  TablesInv'
<1>1. /\ ops[o].pc = "publish" /\ InTheWindow(o) /\ EditDone(o)
      /\ UNCHANGED <<ruleKind, ruleRows, runs, runEntries, matched, dbHolder, diverged, due>>
  BY DEF PublishRule, InTheWindow
<1>2. /\ ruleKind \in Kinds /\ CommandShape(o)
      /\ owner \in [RuleIds -> {"user", "agent", "temp"}] /\ memory \in [RuleIds -> RuleShapes]
  BY DEF TablesInv, TablesTypes, OpsInv
<1>3. PICK i \in RuleIds : i = ops[o].id  BY <1>2 DEF CommandShape
<1>4. memory' = [memory EXCEPT ![i] = NoRule] /\ owner' = [owner EXCEPT ![i] = "user"]  BY <1>3 DEF PublishRule
<1>5. NoRule \in RuleShapes /\ NoRule.flaw \notin Flaws /\ NoRule.mt # ""
  <2>1. NoRule \in RuleShapes  BY <1>2, InputShapes
  <2>2. NoRule.flaw = "none" /\ NoRule.mt = "none"  BY DEF NoRule
  <2> QED  BY <2>1, <2>2 DEF Flaws
<1>6. /\ memory' \in [RuleIds -> RuleShapes]
      /\ \A j \in RuleIds : memory'[j].flaw \notin Flaws /\ (ruleKind # "profile" => memory'[j].mt # "")
  BY <1>4, <1>5, ManagerRules
<1>7. /\ owner' \in [RuleIds -> {"user", "agent", "temp"}]
      /\ \A j \in RuleIds : owner'[j] = owner[j] \/ owner'[j] = "user"
  BY <1>2, <1>4
<1>8. ~diverged => \A j \in RuleIds : Agrees(j)'
  <2> SUFFICES ASSUME ~diverged PROVE \A j \in RuleIds : Agrees(j)'  OBVIOUS
  <2>1. Owed(o)  BY <1>1 DEF TablesInv, AgreeInv
  <2>2. ruleRows[i] = NoRule /\ \A j \in RuleIds \ {i} : Agrees(j)  BY <1>3, <2>1 DEF Owed
  <2>3. /\ memory'[i] = NoRule
        /\ \A j \in RuleIds \ {i} : memory'[j] = memory[j] /\ owner'[j] = owner[j]
    BY <1>2, <1>4
  <2>4. \A j \in RuleIds \ {i} : Agrees(j)'  BY <1>1, <2>2, <2>3, AgreesKept
  <2>5. Agrees(i)'
    <3>1. RuleOf(NoRule) = NoRule  BY DEF RuleOf
    <3>2. ruleRows'[i] = NoRule  BY <1>1, <2>2
    <3> QED  BY <1>1, <2>3, <3>1, <3>2, AgreesNext
  <2> QED  BY <2>4, <2>5
<1> QED  BY <1>1, <1>6, <1>7, <1>8, PublishedAtRest

\* The manager holds the breakpoint table the editor holds.
LEMMA PublishReplacedKeeps ==
  ASSUME TablesInv, NEW o \in Editors, PublishRule(o), ops[o].act = "replace"
  PROVE  TablesInv'
<1>1. /\ ops[o].pc = "publish" /\ InTheWindow(o) /\ EditDone(o) /\ owner' = owner /\ memory' = ops[o].list[1]
      /\ UNCHANGED <<ruleKind, ruleRows, runs, runEntries, matched, dbHolder, diverged, due>>
  BY DEF PublishRule, InTheWindow
<1>2. /\ ruleKind \in Kinds /\ CommandShape(o) /\ owner \in [RuleIds -> {"user", "agent", "temp"}]
  BY DEF TablesInv, TablesTypes, OpsInv
<1>3. PICK t \in [RuleIds -> RuleShapes] : t = ops[o].list[1] /\ \A j \in RuleIds : t[j].mt # ""  BY <1>2 DEF CommandShape
<1>4. Flaws = {}  BY <1>2 DEF Flaws, CommandShape, ActsOf
<1>5. ~diverged => \A j \in RuleIds : Agrees(j)'
  <2> SUFFICES ASSUME ~diverged, NEW j \in RuleIds PROVE Agrees(j)'  OBVIOUS
  <2>1. Owed(o)  BY <1>1 DEF TablesInv, AgreeInv
  <2>2. PICK r \in RuleShapes : r = t[j]  OBVIOUS
  <2>3. PICK w : w = RowOf(r)  OBVIOUS
  <2>4. ruleRows'[j] = w  BY <1>1, <1>3, <2>1, <2>2, <2>3 DEF Owed
  <2>5. memory'[j] = r  BY <1>1, <1>3, <2>2
  <2>6. Effect(r) = Effect(RuleOf(w))  BY <1>2, <1>3, <2>2, <2>3, StoredAsMeant
  <2> QED  BY <1>1, <2>4, <2>5, <2>6, AgreesNext
<1> QED  BY <1>1, <1>2, <1>3, <1>4, <1>5, PublishedAtRest

\* Making a profile the active one keeps everything of the profiles but their switches.
LEMMA ActiveProfiles ==
  ASSUME TablesInv, ruleKind = "profile", NEW i, memory' = set_active_profile(memory, i)
  PROVE  /\ memory' \in [RuleIds -> RuleShapes]
         /\ \A j \in RuleIds : /\ memory[j] = NoRule => memory'[j] = NoRule
                               /\ memory[j] # NoRule => /\ memory'[j].v = memory[j].v /\ memory'[j].mt = memory[j].mt
                                                        /\ memory'[j].on = (j = i)
<1>1. memory \in [RuleIds -> RuleShapes] /\ NoRule \in RuleShapes  BY InputShapes DEF TablesInv, TablesTypes
<1>2. memory' = [j \in RuleIds |-> IF memory[j] = NoRule THEN NoRule ELSE [memory[j] EXCEPT !.on = (j = i)]]
  BY DEF set_active_profile
<1>3. ASSUME NEW j \in RuleIds
      PROVE  /\ memory'[j] \in RuleShapes
             /\ memory[j] = NoRule => memory'[j] = NoRule
             /\ memory[j] # NoRule => /\ memory'[j].v = memory[j].v /\ memory'[j].mt = memory[j].mt
                                      /\ memory'[j].on = (j = i)
  <2>1. CASE memory[j] = NoRule  BY <1>1, <1>2, <2>1
  <2>2. CASE memory[j] # NoRule
    <3>1. PICK r \in RuleShapes : r = memory[j]  BY <1>1
    <3>2. PICK b \in BOOLEAN : b = (j = i)  OBVIOUS
    <3>3. memory'[j] = [r EXCEPT !.on = b]  BY <1>2, <2>2, <3>1, <3>2
    <3>4. memory'[j] \in RuleShapes /\ memory'[j].v = r.v /\ memory'[j].mt = r.mt /\ memory'[j].on = b  BY <3>3, SwitchedRow
    <3> QED  BY <2>2, <3>1, <3>2, <3>4
  <2> QED  BY <2>1, <2>2
<1>4. memory' \in [RuleIds -> RuleShapes]  BY <1>2, <1>3
<1> QED  BY <1>3, <1>4

\* A profile agrees with its row when the two say the same.
LEMMA ProfileAgrees ==
  ASSUME ruleKind = "profile", UNCHANGED <<ruleKind, ruleRows>>, NEW j \in RuleIds,
         \/ memory'[j] = ruleRows[j]
         \/ memory'[j].v = ruleRows[j].v /\ memory'[j].on = ruleRows[j].on /\
            (IF memory'[j].mt = "default" THEN "contains" ELSE memory'[j].mt)
              = (IF ruleRows[j].mt = "default" THEN "contains" ELSE ruleRows[j].mt)
  PROVE  Agrees(j)'
<1>1. PICK w : w = ruleRows[j]  OBVIOUS
<1>2. RuleOf(w) = w  BY DEF RuleOf
<1>3. PICK m : m = memory'[j]  OBVIOUS
<1>4. Effect(m) = Effect(w)
  <2>1. CASE m = w  BY <2>1
  <2>2. CASE /\ m.v = w.v /\ m.on = w.on
             /\ (IF m.mt = "default" THEN "contains" ELSE m.mt) = (IF w.mt = "default" THEN "contains" ELSE w.mt)
    BY <2>2 DEF Effect
  <2> QED  BY <1>1, <1>3, <2>1, <2>2
<1> QED  BY <1>1, <1>2, <1>3, <1>4, AgreesNext

\* The active profile of the manager becomes the one the rows name.
LEMMA PublishActivatedKeeps ==
  ASSUME TablesInv, NEW o \in Editors, PublishRule(o), ops[o].act = "activate"
  PROVE  TablesInv'
<1>1. /\ ops[o].pc = "publish" /\ InTheWindow(o) /\ EditDone(o) /\ owner' = owner
      /\ memory' = set_active_profile(memory, ops[o].id)
      /\ UNCHANGED <<ruleKind, ruleRows, runs, runEntries, matched, dbHolder, diverged, due>>
  BY DEF PublishRule, InTheWindow
<1>2. /\ ruleKind \in Kinds /\ CommandShape(o) /\ owner \in [RuleIds -> {"user", "agent", "temp"}]
  BY DEF TablesInv, TablesTypes, OpsInv
<1>3. ruleKind = "profile"  BY <1>2 DEF CommandShape, ActsOf
<1>4. PICK i : i = ops[o].id  OBVIOUS
<1>5. Flaws = {}  BY <1>3 DEF Flaws
<1>6. /\ memory' \in [RuleIds -> RuleShapes]
      /\ \A j \in RuleIds : /\ memory[j] = NoRule => memory'[j] = NoRule
                            /\ memory[j] # NoRule => /\ memory'[j].v = memory[j].v /\ memory'[j].mt = memory[j].mt
                                                     /\ memory'[j].on = (j = i)
  BY <1>1, <1>3, <1>4, ActiveProfiles
<1>7. ~diverged => \A j \in RuleIds : Agrees(j)'
  <2> SUFFICES ASSUME ~diverged, NEW j \in RuleIds PROVE Agrees(j)'  OBVIOUS
  <2>1. Owed(o)  BY <1>1 DEF TablesInv, AgreeInv
  <2>2. SameButSwitch(j) /\ ruleRows[j].on = (j = i)  BY <1>4, <2>1 DEF Owed
  <2>3. CASE memory[j] = NoRule
    <3>1. ruleRows[j].v = 0  BY <2>2, <2>3 DEF SameButSwitch, NoRule
    <3>2. ruleRows[j] = NoRule  BY <1>3, <3>1 DEF TablesInv, RowsInv
    <3> QED  BY <1>1, <1>3, <1>6, <2>3, <3>2, ProfileAgrees
  <2>4. CASE memory[j] # NoRule
    <3>1. memory'[j].v = ruleRows[j].v /\ memory'[j].on = ruleRows[j].on /\
            (IF memory'[j].mt = "default" THEN "contains" ELSE memory'[j].mt)
              = (IF ruleRows[j].mt = "default" THEN "contains" ELSE ruleRows[j].mt)
      BY <1>6, <2>2, <2>4 DEF SameButSwitch, Effect
    <3> QED  BY <1>1, <1>3, <3>1, ProfileAgrees
  <2> QED  BY <2>3, <2>4
<1> QED  BY <1>1, <1>2, <1>3, <1>5, <1>6, <1>7, PublishedAtRest

\* A saved profile that is on becomes the active one of the manager too.
LEMMA ActivateSavedKeeps ==
  ASSUME TablesInv, NEW o \in Editors, ActivateSaved(o)
  PROVE  TablesInv'
<1>1. /\ ops[o].pc = "activate" /\ InTheWindow(o) /\ EditDone(o) /\ owner' = owner
      /\ memory' = set_active_profile(memory, ops[o].id)
      /\ UNCHANGED <<ruleKind, ruleRows, runs, runEntries, matched, dbHolder, diverged, due>>
  BY DEF ActivateSaved, InTheWindow
<1>2. /\ ruleKind \in Kinds /\ CommandShape(o) /\ owner \in [RuleIds -> {"user", "agent", "temp"}]
  BY DEF TablesInv, TablesTypes, OpsInv
<1>3. ruleKind = "profile" /\ ops[o].act = "save" /\ ops[o].rule.on /\ ops[o].rule.v # 0  BY <1>1, <1>2 DEF CommandShape
<1>4. PICK i \in RuleIds : i = ops[o].id  BY <1>2, <1>3 DEF CommandShape
<1>5. Flaws = {}  BY <1>3 DEF Flaws
<1>6. /\ memory' \in [RuleIds -> RuleShapes]
      /\ \A j \in RuleIds : /\ memory[j] = NoRule => memory'[j] = NoRule
                            /\ memory[j] # NoRule => /\ memory'[j].v = memory[j].v /\ memory'[j].mt = memory[j].mt
                                                     /\ memory'[j].on = (j = i)
  BY <1>1, <1>3, <1>4, ActiveProfiles
<1>7. ~diverged => \A j \in RuleIds : Agrees(j)'
  <2> SUFFICES ASSUME ~diverged, NEW j \in RuleIds PROVE Agrees(j)'  OBVIOUS
  <2>1. Owed(o)  BY <1>1 DEF TablesInv, AgreeInv
  <2>2. /\ ruleRows[i] = ops[o].rule /\ memory[i] = ops[o].rule
        /\ \A k \in RuleIds \ {i} : SameButSwitch(k) /\ ~ruleRows[k].on
    BY <1>1, <1>3, <1>4, <2>1 DEF Owed
  <2>3. CASE j = i
    <3>1. memory[i] # NoRule  BY <1>3, <2>2 DEF NoRule
    <3>0. memory[i].v = ruleRows[i].v /\ memory[i].mt = ruleRows[i].mt /\ ruleRows[i].on  BY <1>3, <2>2
    <3>2. memory'[j].v = ruleRows[j].v /\ memory'[j].mt = ruleRows[j].mt /\ memory'[j].on /\ ruleRows[j].on
      BY <1>6, <2>3, <3>0, <3>1
    <3>3. memory'[j].on \in BOOLEAN /\ ruleRows[j].on \in BOOLEAN  BY <1>6 DEF TablesInv, TablesTypes, RuleShapes
    <3>4. memory'[j].on = ruleRows[j].on  BY <3>2, <3>3
    <3> QED  BY <1>1, <1>3, <3>2, <3>4, ProfileAgrees
  <2>4. CASE j # i /\ memory[j] = NoRule
    <3>1. ruleRows[j].v = 0  BY <2>2, <2>4 DEF SameButSwitch, NoRule
    <3>2. ruleRows[j] = NoRule  BY <1>3, <3>1 DEF TablesInv, RowsInv
    <3> QED  BY <1>1, <1>3, <1>6, <2>4, <3>2, ProfileAgrees
  <2>5. CASE j # i /\ memory[j] # NoRule
    <3>1. ~memory'[j].on /\ ~ruleRows[j].on  BY <1>6, <2>2, <2>5
    <3>2. memory'[j].on \in BOOLEAN /\ ruleRows[j].on \in BOOLEAN  BY <1>6 DEF TablesInv, TablesTypes, RuleShapes
    <3>3. memory'[j].on = ruleRows[j].on  BY <3>1, <3>2
    <3>4. memory'[j].v = ruleRows[j].v /\
            (IF memory'[j].mt = "default" THEN "contains" ELSE memory'[j].mt)
              = (IF ruleRows[j].mt = "default" THEN "contains" ELSE ruleRows[j].mt)
      BY <1>6, <2>2, <2>5 DEF SameButSwitch, Effect
    <3> QED  BY <1>1, <1>3, <3>3, <3>4, ProfileAgrees
  <2> QED  BY <2>3, <2>4, <2>5
<1> QED  BY <1>1, <1>2, <1>3, <1>5, <1>6, <1>7, PublishedAtRest

\* The manager takes one patch of a bulk command, which then turns to the next.
LEMMA BulkPublishKeeps ==
  ASSUME TablesInv, NEW o \in Editors, BulkPublish(o)
  PROVE  TablesInv'
<1>1. /\ ops[o].pc = "publish" /\ ops[o].act = "bulk" /\ InTheWindow(o)
      /\ memory' = ManagerSave(memory, ops[o].id, ops[o].rule)
      /\ ops' = [ops EXCEPT ![o].pc = "read", ![o].list = Tail(@)]
      /\ UNCHANGED <<ruleKind, ruleRows, owner, runs, runEntries, matched, mutex, dbHolder, diverged, due>>
  BY DEF BulkPublish, InTheWindow
<1>2. /\ ruleKind \in Kinds /\ CommandShape(o) /\ CommandChecked(o) /\ ops[o].rule \in RuleShapes
      /\ owner \in [RuleIds -> {"user", "agent", "temp"}] /\ memory \in [RuleIds -> RuleShapes] /\ DOMAIN ops = Editors
      /\ \A p \in Editors : LocksHeld(p)
  BY DEF TablesInv, TablesTypes, OpsInv
<1>3. PICK l \in Seq(Patches) : l = ops[o].list /\ l # << >> /\ ops[o].id = l[1].id
  BY <1>1, <1>2 DEF CommandShape, CommandChecked, InTheWindow
<1>4. l[1] \in Patches /\ Tail(l) \in Seq(Patches) /\ Len(Tail(l)) = Len(l) - 1
      /\ \A k \in 1..Len(Tail(l)) : Tail(l)[k] = l[k + 1]
  BY <1>3
<1>5. PICK i \in RuleIds : i = ops[o].id  BY <1>3, <1>4 DEF Patches
<1>6. PICK r \in RuleShapes : r = ops[o].rule /\ r.flaw \notin Flaws /\ r.mt # ""  BY <1>1, <1>2 DEF CommandChecked, InTheWindow
<1>7. ruleKind \notin {"profile", "breakpoint"}  BY <1>1, <1>2 DEF CommandShape, ActsOf
<1>8. memory' = [memory EXCEPT ![i] = r]
  <2>1. ruleKind \in Kinds \ {"breakpoint"}  BY <1>2, <1>7
  <2>2. PICK m : m = memory  OBVIOUS
  <2>3. ManagerSave(m, i, r) = [m EXCEPT ![i] = r]  BY <2>1, ManagerSaveEffect
  <2> QED  BY <1>1, <1>5, <1>6, <2>2, <2>3
<1>9. /\ memory' \in [RuleIds -> RuleShapes]
      /\ \A j \in RuleIds : memory'[j].flaw \notin Flaws /\ (ruleKind # "profile" => memory'[j].mt # "")
  BY <1>6, <1>8, ManagerRules
<1>10. ~diverged => \A j \in RuleIds : Agrees(j)'  BY <1>1, <1>5, <1>6, <1>7, <1>8, ManagerCatchesUp
<1>11. DOMAIN ops' = Editors /\ \A p \in Editors \ {o} : ops'[p] = ops[p]  BY <1>1, <1>2
<1>12. PICK c0, x, k : ops[o] = [pc |-> c0, act |-> "bulk", id |-> x, rule |-> r, list |-> l, ok |-> k]
  <2>1. ops[o] = [pc |-> ops[o].pc, act |-> ops[o].act, id |-> ops[o].id, rule |-> ops[o].rule,
                  list |-> ops[o].list, ok |-> ops[o].ok]
    BY DEF TablesInv, TablesTypes
  <2> QED  BY <2>1, <1>1, <1>3, <1>6
<1>13. PICK t \in Seq(Patches) : t = Tail(l)  BY <1>4
<1>14. ops'[o] = [pc |-> "read", act |-> "bulk", id |-> x, rule |-> r, list |-> t, ok |-> k]
  <2>1. ops'[o] = [ops[o] EXCEPT !.pc = "read", !.list = t]  BY <1>1, <1>2, <1>3, <1>13
  <2>2. ops'[o] = [[pc |-> c0, act |-> "bulk", id |-> x, rule |-> r, list |-> l, ok |-> k] EXCEPT !.pc = "read", !.list = t]
    BY <1>12, <2>1
  <2> QED  BY <2>2
<1>15. /\ ops'[o].pc = "read" /\ ops'[o].act = "bulk" /\ ops'[o].list = t /\ ops'[o].rule \in RuleShapes
       /\ ops'[o] = [pc |-> ops'[o].pc, act |-> ops'[o].act, id |-> ops'[o].id, rule |-> ops'[o].rule,
                     list |-> ops'[o].list, ok |-> ops'[o].ok]
  BY <1>14
<1>16. CommandShape(o)'  BY <1>1, <1>2, <1>7, <1>15 DEF CommandShape, ActsOf
<1>17. ruleKind \in Locked => \A j \in 1..Len(t) : owner[t[j].id] = "user"
  <2>1. ruleKind \in Locked => \A j \in 1..Len(l) : owner[l[j].id] = "user"  BY <1>1, <1>2, <1>3 DEF CommandChecked, HoldsRows
  <2> QED  BY <1>4, <1>13, <2>1
<1>18. CommandChecked(o)'  BY <1>1, <1>15, <1>17 DEF CommandChecked, InTheWindow, HoldsRows
<1>19. \A p \in Editors : LocksHeld(p)'  BY <1>1, <1>2, <1>11, <1>15 DEF LocksHeld, HoldsRows, Deciding
<1>20. ops'[o].pc \in {"rest", "read"} /\ ops'[o].act \in TableActs  BY <1>15 DEF TableActs
<1> QED  BY <1>1, <1>2, <1>9, <1>10, <1>11, <1>15, <1>16, <1>18, <1>19, <1>20, WindowCloses
\* A step that touches nothing but the run history.
LEMMA HistoryStep ==
  ASSUME TablesInv, UNCHANGED <<ruleKind, ruleRows, memory, owner, ops, mutex, dbHolder, diverged>>, RunsInv'
  PROVE  TablesInv'
<1>1. TablesTypes'  BY DEF TablesInv, TablesTypes
<1>2. \A p \in Editors : CommandShape(p)' /\ CommandChecked(p)'  BY CommandKept DEF TablesInv, OpsInv
<1>3. \A p \in Editors : LocksHeld(p)'  BY DEF TablesInv, OpsInv, LocksHeld, HoldsRows
<1>4. OpsInv' /\ RowsInv' /\ SoloInv'  BY <1>2, <1>3, RowsKept DEF OpsInv, TablesInv, SoloInv, InTheWindow
<1>5. \A p \in Editors : Owed(p) => Owed(p)'  BY OwedKept DEF TablesInv, OpsInv
<1>6. \A i \in RuleIds : Agrees(i) => Agrees(i)'  BY AgreesKept
<1>7. AgreeInv'  BY <1>5, <1>6 DEF TablesInv, AgreeInv, InTheWindow
<1> QED  BY <1>1, <1>4, <1>7 DEF TablesInv

\* Matching an exchange only notes what matched.
LEMMA MatchKeeps ==
  ASSUME TablesInv, NEW s \in TracedSessions, MatchRules(s)
  PROVE  TablesInv'
<1>1. RunsInv'  BY DEF MatchRules, TablesInv, RunsInv, HasRuns
<1> QED  BY <1>1, HistoryStep DEF MatchRules

\* The traces are written as they are due: all of them, or, when a script is gone, none.
LEMMA TracesKeep ==
  ASSUME TablesInv, NEW s \in TracedSessions, WriteTraces(s)
  PROVE  TablesInv'
<1>1. /\ DOMAIN runs = TracedSessions /\ DOMAIN runEntries = TracedSessions /\ DOMAIN due = TracedSessions
      /\ DOMAIN matched = TracedSessions
      /\ \A t \in TracedSessions :
           /\ runs[t] = due[t]
           /\ ruleKind \in {"script", "rewrite"} => runEntries[t] = runs[t]
           /\ matched[t] # {} => HasRuns
  BY DEF TablesInv, RunsInv
<1>2. /\ matched[s] # {} /\ persist_all_traces(s) /\ matched' = [matched EXCEPT ![s] = {}] /\ ruleKind' = ruleKind
      /\ due' = IF ruleKind = "script" /\ ~(matched[s] \subseteq PresentIn(ruleRows)) THEN due
                ELSE [due EXCEPT ![s] = matched[s]]
  BY DEF WriteTraces
<1>3. HasRuns /\ HasRuns' = HasRuns  BY <1>1, <1>2 DEF HasRuns
<1>4. DOMAIN matched' = TracedSessions /\ \A t \in TracedSessions : matched'[t] # {} => HasRuns'  BY <1>1, <1>2, <1>3
<1>5. CASE ruleKind = "script" /\ ~(matched[s] \subseteq PresentIn(ruleRows))
  <2>1. runs' = runs /\ runEntries' = runEntries /\ due' = due
    BY <1>2, <1>5 DEF persist_all_traces, persist_script_traces_impl, replace_script_runs_for_session
  <2>2. RunsInv'  BY <1>1, <1>2, <1>4, <2>1 DEF RunsInv
  <2> QED  BY <2>2, HistoryStep DEF WriteTraces
<1>6. CASE ~(ruleKind = "script" /\ ~(matched[s] \subseteq PresentIn(ruleRows)))
  <2>1. due' = [due EXCEPT ![s] = matched[s]]  BY <1>2, <1>6
  <2>2. /\ runs' = [runs EXCEPT ![s] = matched[s]]
        /\ ruleKind \in {"script", "rewrite"} => runEntries' = [runEntries EXCEPT ![s] = matched[s]]
        /\ ruleKind \notin {"script", "rewrite"} => runEntries' = runEntries
    BY <1>2, <1>3, <1>6
       DEF HasRuns, persist_all_traces, persist_script_traces_impl, replace_script_runs_for_session, persist_rewrite_traces_impl,
           replace_rewrite_runs_for_session, persist_map_traces_impl, replace_map_runs_for_session,
           persist_throttle_traces_impl, replace_throttle_runs_for_session, ReplaceRuns, ReplaceEntries
  <2>3. DOMAIN runs' = TracedSessions /\ DOMAIN runEntries' = TracedSessions /\ DOMAIN due' = TracedSessions  BY <1>1, <2>1, <2>2
  <2>4. \A t \in TracedSessions : runs'[t] = due'[t] /\ (ruleKind \in {"script", "rewrite"} => runEntries'[t] = runs'[t])
    BY <1>1, <2>1, <2>2
  <2>5. RunsInv'  BY <1>2, <1>4, <2>3, <2>4 DEF RunsInv
  <2> QED  BY <2>5, HistoryStep DEF WriteTraces
<1> QED  BY <1>5, <1>6

\* Every command is gone and the managers hold what the rows say.
LEMMA RestartKeeps ==
  ASSUME TablesInv, Restart
  PROVE  TablesInv'
<1>1. PICK decodes \in BOOLEAN : init_from_db(decodes) /\ diverged' = ~decodes  BY DEF Restart
<1>2. /\ ruleKind \in Kinds /\ ruleRows \in [RuleIds -> RuleShapes] /\ RowsInv /\ owner \in [RuleIds -> {"user", "agent", "temp"}]
      /\ UNCHANGED <<ruleKind, ruleRows>> /\ ops' = [o \in Editors |-> AtRest]
      /\ owner' = [i \in RuleIds |-> IF owner[i] = "temp" THEN "user" ELSE owner[i]]
      /\ runs' = [s \in TracedSessions |-> {}] /\ runEntries' = [s \in TracedSessions |-> {}]
      /\ matched' = [s \in TracedSessions |-> {}] /\ due' = [s \in TracedSessions |-> {}]
  BY DEF TablesInv, TablesTypes, Restart
<1>3. memory' = [i \in RuleIds |-> IF decodes THEN RuleOf(ruleRows[i]) ELSE NoRule]  BY <1>1, <1>2, LoadEffect
<1>4. NoRule \in RuleShapes /\ NoRule.flaw = "none" /\ NoRule.mt = "none"
  <2>1. NoRule \in RuleShapes  BY <1>2, InputShapes
  <2> QED  BY <2>1 DEF NoRule
<1>5. Flaws' = Flaws /\ OldRow' = OldRow /\ "none" \notin Flaws  BY <1>2 DEF Flaws, OldRow
<1>6. ASSUME NEW i \in RuleIds
      PROVE  /\ memory'[i] \in RuleShapes /\ memory'[i].flaw \notin Flaws
             /\ (ruleKind # "profile" => memory'[i].mt # "")
  <2>1. PICK w \in RuleShapes : w = ruleRows[i]  BY <1>2
  <2>2. PICK u \in RuleShapes : u = RuleOf(w) /\ u.flaw = w.flaw /\
          (ruleKind # "profile" => u.mt = IF w.mt = "" THEN "default" ELSE w.mt)
    BY <1>2, RuleOfEffect
  <2>3. w.flaw \notin Flaws  BY <1>2, <2>1 DEF RowsInv
  <2>4. memory'[i] = IF decodes THEN u ELSE NoRule  BY <1>3, <2>1, <2>2
  <2> QED  BY <1>4, <1>5, <2>2, <2>3, <2>4
<1>7. memory' \in [RuleIds -> RuleShapes]  BY <1>3, <1>6
<1>8. ASSUME NEW o \in Editors
      PROVE  /\ ops'[o] = [pc |-> ops'[o].pc, act |-> ops'[o].act, id |-> ops'[o].id, rule |-> ops'[o].rule,
                           list |-> ops'[o].list, ok |-> ops'[o].ok]
             /\ ops'[o].pc = "rest" /\ ops'[o].act = "none" /\ ops'[o].rule \in RuleShapes
             /\ CommandShape(o)' /\ CommandChecked(o)'
  BY <1>2, AtRestShape
<1>9. \A o \in Editors : ~InTheWindow(o)' /\ LocksHeld(o)'  BY <1>8 DEF InTheWindow, LocksHeld, HoldsRows, Deciding
<1>10. TablesTypes'
  <2>1. DOMAIN ops' = Editors /\ diverged' \in BOOLEAN  BY <1>1, <1>2
  <2>2. owner' \in [RuleIds -> {"user", "agent", "temp"}]  BY <1>2
  <2>3. "rest" \in TablePhases /\ "none" \in TableActs  BY DEF TablePhases, TableActs
  <2> QED  BY <1>2, <1>7, <1>8, <2>1, <2>2, <2>3 DEF TablesTypes
<1>11. OpsInv' /\ SoloInv'  BY <1>8, <1>9 DEF OpsInv, SoloInv
<1>12. RowsInv'
  <2>1. \A i \in RuleIds : (owner'[i] # "user" => owner[i] = owner'[i])  BY <1>2
  <2> QED  BY <1>2, <1>5, <1>6, <2>1 DEF RowsInv
<1>13. RunsInv'  BY <1>2 DEF RunsInv
<1>14. AgreeInv'
  <2>1. ASSUME ~diverged', NEW i \in RuleIds PROVE Agrees(i)'
    <3>1. PICK w : w = ruleRows[i]  OBVIOUS
    <3>2. memory'[i] = RuleOf(w)  BY <1>1, <1>3, <2>1, <3>1
    <3>3. ruleRows'[i] = w  BY <1>2, <3>1
    <3> QED  BY <1>2, <3>2, <3>3, AgreesNext
  <2> QED  BY <1>9, <2>1 DEF AgreeInv
<1> QED  BY <1>10, <1>11, <1>12, <1>13, <1>14 DEF TablesInv

\* The rows of an older version are loaded by the first start.
LEMMA TablesInitInv ==
  ASSUME TablesInit
  PROVE  TablesInv
<1>1. PICK k \in RuleIds : ruleRows = [j \in RuleIds |-> IF j = k THEN OldRow ELSE NoRule]  BY DEF TablesInit
<1>2. /\ ruleKind \in Kinds /\ owner \in [RuleIds -> {"user", "agent", "temp"}] /\ ops = [o \in Editors |-> AtRest]
      /\ \A i \in RuleIds : /\ owner[i] # "user" => ruleKind \in Locked
                            /\ owner[i] = "agent" => ruleRows[i] # NoRule
                            /\ owner[i] = "temp" => ruleRows[i] = NoRule
      /\ memory = [i \in RuleIds |-> IF owner[i] = "temp" THEN InputRule(1, "default", "none", TRUE) ELSE RuleOf(ruleRows[i])]
      /\ runs = [s \in TracedSessions |-> {}] /\ runEntries = runs /\ matched = runs /\ due = runs
      /\ diverged = FALSE
  BY DEF TablesInit
<1>3. /\ NoRule \in RuleShapes /\ OldRow \in RuleShapes /\ InputRule(1, "default", "none", TRUE) \in RuleShapes
  BY <1>2, InputShapes
<1>4. /\ NoRule.flaw = "none" /\ NoRule.mt = "none" /\ ~NoRule.on
      /\ OldRow.flaw = "none" /\ OldRow.v = 3
      /\ "none" \notin Flaws
  BY DEF NoRule, OldRow, Flaws
<1>5. PICK m \in RuleShapes : m = InputRule(1, "default", "none", TRUE) /\ m.flaw = "none" /\ m.mt = "default"
  BY <1>3 DEF InputRule
<1>6. ruleRows \in [RuleIds -> RuleShapes]  BY <1>1, <1>3
<1>7. \A i \in RuleIds : ruleRows[i].flaw = "none"  BY <1>1, <1>4
<1>8. ASSUME NEW i \in RuleIds
      PROVE  /\ memory[i] \in RuleShapes /\ memory[i].flaw = "none"
             /\ (ruleKind # "profile" => memory[i].mt # "")
  <2>1. PICK w \in RuleShapes : w = ruleRows[i]  BY <1>6
  <2>2. PICK u \in RuleShapes : u = RuleOf(w) /\ u.flaw = w.flaw /\
          (ruleKind # "profile" => u.mt = IF w.mt = "" THEN "default" ELSE w.mt)
    BY <1>2, RuleOfEffect
  <2>3. memory[i] = IF owner[i] = "temp" THEN m ELSE u  BY <1>2, <1>5, <2>1, <2>2
  <2> QED  BY <1>5, <1>7, <2>1, <2>2, <2>3
<1>9. memory \in [RuleIds -> RuleShapes]  BY <1>2, <1>8
<1>10. ASSUME NEW o \in Editors
       PROVE  /\ ops[o] = [pc |-> ops[o].pc, act |-> ops[o].act, id |-> ops[o].id, rule |-> ops[o].rule,
                           list |-> ops[o].list, ok |-> ops[o].ok]
              /\ ops[o].pc = "rest" /\ ops[o].act = "none" /\ ops[o].rule \in RuleShapes
              /\ CommandShape(o) /\ CommandChecked(o)
  <2>1. ops[o] = AtRest  BY <1>2
  <2>2. /\ ops[o] = [pc |-> ops[o].pc, act |-> ops[o].act, id |-> ops[o].id, rule |-> ops[o].rule,
                     list |-> ops[o].list, ok |-> ops[o].ok]
        /\ ops[o].pc = "rest" /\ ops[o].act = "none" /\ ops[o].rule = NoRule
    BY <2>1 DEF AtRest
  <2>3. CommandShape(o)  BY <2>2 DEF CommandShape, ActsOf
  <2>4. CommandChecked(o)  BY <2>2 DEF CommandChecked, InTheWindow, HoldsRows
  <2> QED  BY <1>3, <2>2, <2>3, <2>4
<1>11. \A o \in Editors : ~InTheWindow(o) /\ LocksHeld(o)  BY <1>10 DEF InTheWindow, LocksHeld, HoldsRows, Deciding
<1>12. TablesTypes
  <2>1. DOMAIN ops = Editors /\ diverged \in BOOLEAN  BY <1>2
  <2>2. "rest" \in TablePhases /\ "none" \in TableActs  BY DEF TablePhases, TableActs
  <2> QED  BY <1>2, <1>6, <1>9, <1>10, <2>1, <2>2 DEF TablesTypes
<1>13. OpsInv /\ SoloInv  BY <1>10, <1>11 DEF OpsInv, SoloInv
<1>14. RowsInv
  <2>1. \A i \in RuleIds : ruleRows[i] = (IF i = k THEN OldRow ELSE NoRule)  BY <1>1
  <2>2. \A i, j \in RuleIds : ruleRows[i].on /\ ruleRows[j].on => i = j
    <3> SUFFICES ASSUME NEW i \in RuleIds, NEW j \in RuleIds, ruleRows[i].on, ruleRows[j].on PROVE i = j  OBVIOUS
    <3>1. i = k  BY <1>4, <2>1
    <3>2. j = k  BY <1>4, <2>1
    <3> QED  BY <3>1, <3>2
  <2>3. \A i \in RuleIds : ruleRows[i].v = 0 => ruleRows[i] = NoRule  BY <1>4, <2>1
  <2>4. \A i \in RuleIds : owner[i] = "agent" => ruleRows[i] = OldRow  BY <1>2, <2>1
  <2> QED  BY <1>2, <1>4, <1>7, <1>8, <2>2, <2>3, <2>4 DEF RowsInv
<1>15. RunsInv  BY <1>2 DEF RunsInv
<1>16. AgreeInv
  <2>1. \A i \in RuleIds : Agrees(i)  BY <1>2 DEF Agrees
  <2> QED  BY <1>11, <2>1 DEF AgreeInv
<1> QED  BY <1>12, <1>13, <1>14, <1>15, <1>16 DEF TablesInv
\* Every step keeps the invariant.
LEMMA TablesStep ==
  ASSUME TablesInv, [NextTables]_tableVars
  PROVE  TablesInv'
<1>1. CASE UNCHANGED tableVars
  <2>1. UNCHANGED <<ruleKind, ruleRows, memory, owner, ops, mutex, dbHolder, diverged, runs, runEntries, matched, due>>
    BY <1>1 DEF tableVars
  <2>2. RunsInv'  BY <2>1, RunsKept DEF TablesInv
  <2> QED  BY <2>1, <2>2, HistoryStep
<1>2. ASSUME NEW o \in Editors, Ask(o) \/ AutomationLock(o) \/ RefuseEdit(o) \/ PersistFails(o) PROVE TablesInv'
  BY <1>2, AskKeeps, LockKeeps, GivingUpKeeps
<1>3. ASSUME NEW o \in Editors, PersistSave(o) \/ PersistDelete(o) \/ PersistActive(o) \/ set_breakpoint_rules(o)
      PROVE  TablesInv'
  BY <1>3, SaveKeeps, ProfileSaveKeeps, DeleteKeeps, ActivateKeeps, ReplaceKeeps
<1>4. ASSUME NEW o \in Editors, PublishRule(o) PROVE TablesInv'
  <2>1. ops[o].act \in {"save", "delete", "activate", "replace"}
    <3>1. CommandShape(o) /\ ops[o].act \in TableActs  BY DEF TablesInv, TablesTypes, OpsInv
    <3> QED  BY <1>4, <3>1 DEF PublishRule, CommandShape, TableActs
  <2> QED  BY <1>4, <2>1, PublishSavedKeeps, PublishDeletedKeeps, PublishActivatedKeeps, PublishReplacedKeeps
<1>5. ASSUME NEW o \in Editors, ActivateSaved(o) \/ BulkBegin(o) \/ BulkRead(o) \/ BulkWrite(o) \/ BulkPublish(o) \/ BulkEnds(o)
      PROVE  TablesInv'
  BY <1>5, ActivateSavedKeeps, BulkBeginKeeps, BulkReadKeeps, BulkWriteKeeps, BulkPublishKeeps, GivingUpKeeps
<1>6. ASSUME NEW s \in TracedSessions, MatchRules(s) \/ WriteTraces(s) PROVE TablesInv'  BY <1>6, MatchKeeps, TracesKeep
<1>7. CASE Restart  BY <1>7, RestartKeeps
<1> QED  BY <1>1, <1>2, <1>3, <1>4, <1>5, <1>6, <1>7 DEF NextTables

\* The run history as it is shown is the history that is due.
LEMMA TraceShown ==
  ASSUME TablesInv, NEW s \in TracedSessions
  PROVE  ShownTrace(s) = {[rule |-> i, told |-> TRUE] : i \in due[s]}
<1>1. runs[s] = due[s] /\ (ruleKind \in {"script", "rewrite"} => runEntries[s] = runs[s])  BY DEF TablesInv, RunsInv
<1>2. CASE ruleKind \in {"script", "rewrite"}
  <2>1. PICK ids : ids = runs[s]  OBVIOUS
  <2>2. runEntries[s] \cap ids = ids  BY <1>1, <1>2, <2>1
  <2>3. ShownTrace(s) = {[rule |-> i, told |-> i \in ids] : i \in ids}
    BY <1>2, <2>1, <2>2
       DEF ShownTrace, list_script_session_trace, list_rewrite_session_trace, load_script_runs_for_session,
           load_script_run_entries, load_rewrite_runs_for_session, load_rewrite_run_entries
  <2>4. \A i \in ids : (i \in ids) = TRUE  OBVIOUS
  <2>5. {[rule |-> i, told |-> i \in ids] : i \in ids} = {[rule |-> i, told |-> TRUE] : i \in ids}  BY <2>4
  <2> QED  BY <1>1, <2>1, <2>3, <2>5
<1>3. CASE ruleKind \notin {"script", "rewrite"}
  BY <1>1, <1>3 DEF ShownTrace, list_map_session_trace, list_throttle_session_trace, load_map_runs_for_session,
                    load_throttle_runs_for_session
<1> QED  BY <1>2, <1>3

\* What the user relies on follows.
LEMMA TablesInvSuffices ==
  ASSUME TablesInv
  PROVE  RulesStayConsistent
<1>1. ~InWindow /\ ~diverged => \A i \in RuleIds : owner[i] # "temp" => Effect(memory[i]) = Effect(RuleOf(ruleRows[i]))
  <2> SUFFICES ASSUME ~InWindow, ~diverged, NEW i \in RuleIds, owner[i] # "temp"
               PROVE  Effect(memory[i]) = Effect(RuleOf(ruleRows[i]))
    OBVIOUS
  <2>1. \A o \in Editors : ~InTheWindow(o)  BY DEF InWindow, InTheWindow
  <2>2. Agrees(i)  BY <2>1 DEF TablesInv, AgreeInv
  <2> QED  BY <2>2 DEF Agrees
<1>2. \A i \in RuleIds : ruleRows[i].flaw \notin Flaws /\ (owner[i] = "agent" => ruleRows[i] = OldRow)  BY DEF TablesInv, RowsInv
<1>3. ruleKind = "profile" => Cardinality({i \in RuleIds : ruleRows[i].on}) <= 1
  <2> SUFFICES ASSUME ruleKind = "profile" PROVE Cardinality({i \in RuleIds : ruleRows[i].on}) <= 1  OBVIOUS
  <2>1. PICK S : S = {i \in RuleIds : ruleRows[i].on}  OBVIOUS
  <2>2. \A i, j \in S : i = j  BY <2>1 DEF TablesInv, RowsInv
  <2>3. CASE S = {}  BY <2>1, <2>3, FS_EmptySet
  <2>4. CASE S # {}
    <3>1. PICK i : S = {i}  BY <2>2, <2>4
    <3>2. Cardinality({i}) = 1  BY FS_Singleton
    <3> QED  BY <2>1, <3>1, <3>2
  <2> QED  BY <2>3, <2>4
<1>4. \A i \in DOMAIN list_rewrite_rules :
        ruleKind \in Locked => ((list_rewrite_rules[i] = "user") <=> ensure_rule_is_user_editable(i))
  BY DEF list_rewrite_rules, annotate_agent_rule, ensure_rule_is_user_editable
<1>5. \A s \in TracedSessions : ShownTrace(s) = {[rule |-> i, told |-> TRUE] : i \in due[s]}  BY TraceShown
<1>6. load_throttled_session_ids = {s \in TracedSessions : due[s] # {}}  BY DEF TablesInv, RunsInv, load_throttled_session_ids
<1> QED  BY <1>1, <1>2, <1>3, <1>4, <1>5, <1>6 DEF RulesStayConsistent

\* Rows and managers, for any number of rules, commands, restarts and exchanges: what the proxy applies is what the
\* next start loads whenever no command is between its two writes (for the kinds without a lock as long as no two
\* commands crossed), rows hold no rule a command refuses and at most one active profile, nothing of an automation
\* change is touched, and the run history shown is the one that is due.
THEOREM TablesStayConsistent == TablesSpec => []RulesStayConsistent
<1>1. TablesInit => TablesInv  BY TablesInitInv
<1>2. TablesInv /\ [NextTables]_tableVars => TablesInv'  BY TablesStep
<1>3. TablesInv => RulesStayConsistent  BY TablesInvSuffices
<1> QED  BY <1>1, <1>2, <1>3, PTL DEF TablesSpec
=============================================================================
