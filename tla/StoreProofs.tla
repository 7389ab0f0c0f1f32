---------------------------- MODULE StoreProofs -----------------------------
(***************************************************************************)
(* Proofs about SessionStore: for any sessions, commands and capacities,   *)
(* the list, the cache, the front end, SQLite and the body files agree     *)
(* whenever nobody holds session_lifecycle_lock, and a deleted session is  *)
(* not stored again by a batch that was received before.  And about        *)
(* Tunnel: a tunnel through the proxy, or through an upstream proxy,       *)
(* carries each stream whole and in order, and decides on interception,    *)
(* route and verification as the stored policy says.  And about            *)
(* SessionWatch: an agent that follows the stored sessions sees each once. *)
(***************************************************************************)
EXTENDS SessionStore, Tunnel, SessionWatch, SequenceTheorems, FiniteSetTheorems, WellFoundedInduction, TLAPS

Records == [id : Sessions, v : 1..2]
Kinds == {"clear", "delete", "except", "upsert"}
Waiting == {"idle", "lock"}
Working == {"clearDb", "deleteDb", "drop", "exceptCache", "exceptDb", "upsertDb", "upsertCache", "upsertEvict"}
CmdType == [Commands -> [pc : Waiting \cup Working, kind : Kinds, ids : SUBSET Sessions, gen : Nat]]

StoreTypeOK ==
  /\ row \in [Sessions -> Versions] /\ version \in [Sessions -> Versions]
  /\ detail \in [Sessions -> Versions] /\ sent \in [Sessions -> Versions] /\ reader.v \in Versions
  /\ rowGen \in [Sessions -> Nat] /\ killGen \in [Sessions -> Nat] /\ generation \in Nat /\ colGen \in Nat
  /\ summaries \in Seq(Sessions) /\ sessionChan \in Seq(Records) /\ batch \in Seq(Records)
  /\ cmd \in CmdType

\* The lock has one holder: the collector that persists, or a command at work.
OneHolder ==
  /\ holder = "collector" <=> colPc \in {"persist", "cache"}
  /\ \A c \in Commands : holder = c <=> cmd[c].pc \in Working

\* A command does what it was called for.
KindFollows ==
  \A c \in Commands :
    /\ cmd[c].kind = "upsert" => \E s \in Sessions : cmd[c].ids = {s}
    /\ cmd[c].pc \in {"upsertDb", "upsertCache", "upsertEvict"} => cmd[c].kind = "upsert"
    /\ cmd[c].pc = "exceptCache" => cmd[c].kind = "except"

WorkInv == StoreTypeOK /\ OneHolder /\ KindFollows

\* Generations: nothing is younger than the counter, and a writer at work is at
\* least as young as every deletion.
GenerationsInOrder ==
  /\ colGen <= generation /\ \A s \in Sessions : killGen[s] <= generation
  /\ \A c \in Commands : cmd[c].gen <= generation
  /\ colPc \in {"persist", "cache"} => \A s \in Sessions : killGen[s] <= colGen
  /\ \A c \in Commands : cmd[c].pc = "upsertDb" => \A s \in Sessions : killGen[s] <= cmd[c].gen

\* The i-th record is the last one of its session.
LastOf(recs, i, s) == recs[i].id = s /\ \A j \in DOMAIN recs : recs[j].id = s => j <= i

\* Off X, the rows are the list and a cached detail is its row.
MatchOff(X) ==
  \A s \in Sessions \ (faulty \cup X) : row[s] = version[s] /\ (s \notin stale => detail[s] \in {0, row[s]})

\* Nobody has begun to change anything.
Untouched == holder = NoOne \/ colPc = "persist" \/ \E c \in Commands : cmd[c].pc \in {"clearDb", "deleteDb", "exceptCache", "upsertDb"}

\* What the holder of the lock has done in one place and not yet in the other.
HolderAgrees ==
  /\ Untouched => evicted = {} /\ MatchOff({})
  /\ colPc = "cache" =>
       /\ MatchOff(evicted \cup Ids(batch))
       /\ \A s \in Sessions \ (faulty \cup evicted) : \A i \in DOMAIN batch : LastOf(batch, i, s) => row[s] = batch[i].v
  /\ \A c \in Commands :
       /\ cmd[c].pc = "drop" => evicted = {} /\ MatchOff(Covered(c)) /\ \A s \in Covered(c) \ faulty : row[s] = 0
       /\ cmd[c].pc = "exceptDb" => evicted = {} /\ MatchOff(cmd[c].ids) /\ \A s \in cmd[c].ids : version[s] = 0
       /\ cmd[c].pc = "upsertCache" => evicted = {} /\ MatchOff(cmd[c].ids) /\ \A s \in cmd[c].ids \ faulty : row[s] = 2
       /\ cmd[c].pc = "upsertEvict" => MatchOff(evicted)

ListedHasVersion == \A s \in Sessions : version[s] # 0 => s \in Elems(summaries)
FrontEndFollows == shown = Elems(summaries) \cup ghost /\ ghost \cap Elems(summaries) = {}
BodiesFound == rowFile \ faulty \subseteq files

AgreeInv == HolderAgrees /\ ListedHasVersion /\ FrontEndFollows /\ BodiesFound
StoreInv == WorkInv /\ GenerationsInOrder /\ NoResurrection /\ AgreeInv

\* What an aborted collector left behind writes and deletes only sessions that are excused.
OrphanExcused ==
  /\ orphan.recs \in Seq(Records) /\ orphan.gen \in Nat
  /\ Ids(orphan.recs) \cup orphan.out \subseteq faulty

-----------------------------------------------------------------------------
(* Lists.                                                                  *)

\* A set that holds 0 and the successor of each of its members holds every number.
LEMMA SetInduction ==
  ASSUME NEW N \in Nat, NEW S, 0 \in S, \A n \in 0..N - 1 : n \in S => n + 1 \in S
  PROVE  0..N \subseteq S
<1> DEFINE E == {n \in Nat : n <= N /\ n \notin S}
<1>1. SUFFICES ASSUME E # {} PROVE FALSE  OBVIOUS
<1>2. PICK x \in E : \A y \in E : ~(<<y, x>> \in OpToRel(<, Nat))  BY <1>1, WFMin, NatLessThanWellFounded
<1>3. \A y \in E : ~(y < x)  BY <1>2 DEF OpToRel
<1>4. x # 0 /\ x - 1 \in Nat  OBVIOUS
<1>5. x - 1 \notin E  BY <1>3, <1>4
<1> QED BY <1>4, <1>5

\* A list of sessions has its sessions as elements, and one more once it grew.
LEMMA ElemsOfAppend ==
  ASSUME NEW S, NEW q \in Seq(S), NEW x \in S
  PROVE  Append(q, x) \in Seq(S) /\ Elems(Append(q, x)) = Elems(q) \cup {x}
<1>1. /\ Append(q, x) \in Seq(S) /\ DOMAIN Append(q, x) = 1..Len(q) + 1 /\ DOMAIN q = 1..Len(q)
      /\ (\A i \in 1..Len(q) : Append(q, x)[i] = q[i]) /\ Append(q, x)[Len(q) + 1] = x /\ Len(q) \in Nat
  BY AppendProperties, LenProperties
<1>2. \A y : y \in Elems(Append(q, x)) <=> y \in Elems(q) \/ y = x  BY <1>1 DEF Elems
<1> QED BY <1>1, <1>2

IsKept(F, q, S) ==
  F = [i \in 0..Len(q) |-> IF i = 0 THEN << >> ELSE IF q[i] \in S THEN F[i - 1] ELSE Append(F[i - 1], q[i])]

\* The function by which Without is computed exists.
LEMMA KeptExists ==
  ASSUME NEW E, NEW q \in Seq(E), NEW S
  PROVE  \E F : IsKept(F, q, S)
<1> DEFINE Step(e, i) == IF q[i] \in S THEN e ELSE Append(e, q[i])
           Upto(n, F) == F \in [0..n -> Seq(E)] /\ F[0] = << >> /\ \A i \in 1..n : F[i] = Step(F[i - 1], i)
           Reached == {n \in Nat : \E F : Upto(n, F)}
<1>0. Len(q) \in Nat  BY LenProperties
<1>1. 0 \in Reached
  <2>1. Upto(0, [i \in 0..0 |-> << >>])  OBVIOUS
  <2> QED BY <2>1
<1>2. ASSUME NEW n \in 0..Len(q) - 1, n \in Reached PROVE n + 1 \in Reached
  <2>0. n \in Nat /\ n + 1 \in 1..Len(q) /\ q[n + 1] \in E  BY <1>0
  <2>1. PICK F : Upto(n, F)  BY <1>2
  <2> DEFINE G == [i \in 0..n + 1 |-> IF i = n + 1 THEN Step(F[n], n + 1) ELSE F[i]]
  <2>5. Step(F[n], n + 1) \in Seq(E)  BY <2>0, <2>1, AppendProperties
  <2>2. G \in [0..n + 1 -> Seq(E)] /\ n \in Nat /\ G[0] = << >> /\ G[n + 1] = Step(F[n], n + 1) /\ \A i \in 0..n : G[i] = F[i]
    BY <2>0, <2>1, <2>5
  <2> HIDE DEF Step, G
  <2>3. \A i \in 1..n + 1 : G[i] = Step(G[i - 1], i)
    <3> TAKE i \in 1..n + 1
    <3>1. CASE i = n + 1  BY <2>2, <3>1
    <3>2. CASE i # n + 1
      <4>1. i \in 1..n /\ i \in 0..n /\ i - 1 \in 0..n  BY <2>2, <3>2
      <4> QED BY <2>1, <2>2, <4>1
    <3> QED BY <3>1, <3>2
  <2>4. Upto(n + 1, G)  BY <2>2, <2>3
  <2> HIDE DEF Upto
  <2>6. \E H : Upto(n + 1, H)  BY <2>4
  <2> QED BY <2>2, <2>6
<1> HIDE DEF Reached
<1>3. Len(q) \in Reached
  <2>1. \A n \in 0..Len(q) - 1 : n \in Reached => n + 1 \in Reached  BY <1>2
  <2>2. 0..Len(q) \subseteq Reached  BY <1>0, <1>1, <2>1, SetInduction
  <2> QED BY <1>0, <2>2
<1>4. PICK F : Upto(Len(q), F)  BY <1>3 DEF Reached
<1> DEFINE G == [i \in 0..Len(q) |-> IF i = 0 THEN << >> ELSE IF q[i] \in S THEN F[i - 1] ELSE Append(F[i - 1], q[i])]
<1>5. \A i \in 0..Len(q) : F[i] = G[i]
  <2> TAKE i \in 0..Len(q)
  <2>1. CASE i = 0  BY <1>0, <1>4, <2>1
  <2>2. CASE i # 0
    <3>1. i \in 1..Len(q)  BY <1>0, <2>2
    <3>2. F[i] = Step(F[i - 1], i)  BY <1>4, <3>1
    <3> QED BY <2>2, <3>2
  <2> QED BY <2>1, <2>2
<1>6. F = G  BY <1>4, <1>5
<1> QED BY <1>6 DEF IsKept

\* What that function is at a place.
LEMMA KeptAt ==
  ASSUME NEW q, NEW S, NEW F, IsKept(F, q, S), NEW i \in 0..Len(q)
  PROVE  F[i] = IF i = 0 THEN << >> ELSE IF q[i] \in S THEN F[i - 1] ELSE Append(F[i - 1], q[i])
BY DEF IsKept

\* Taking sessions out of a list leaves the others: Vec::retain.
LEMMA ElemsOfWithout ==
  ASSUME NEW E, NEW q \in Seq(E), NEW S
  PROVE  Without(q, S) \in Seq(E) /\ Elems(Without(q, S)) = Elems(q) \ S
<1> DEFINE F == CHOOSE G : IsKept(G, q, S)
<1>0. Len(q) \in Nat /\ DOMAIN q = 1..Len(q)  BY LenProperties
<1>1. Without(q, S) = F[Len(q)]  BY DEF Without, IsKept
<1>2. IsKept(F, q, S)
  <2>1. \E G : IsKept(G, q, S)  BY KeptExists
  <2> QED BY <2>1, Zenon
<1> HIDE DEF F
<1> DEFINE Good == {n \in Nat : n <= Len(q) => F[n] \in Seq(E) /\ Elems(F[n]) = {q[j] : j \in 1..n} \ S}
<1>3. 0 \in Good
  <2>1. F[0] = << >>  BY <1>0, <1>2, KeptAt
  <2> QED
    <3>1. Elems(<< >>) = {} /\ << >> \in Seq(E) /\ {q[j] : j \in 1..0} = {}  BY EmptySeq DEF Elems
    <3> QED BY <2>1, <3>1
<1>4. ASSUME NEW n \in 0..Len(q) - 1, n \in Good PROVE n + 1 \in Good
  <2>1. n \in Nat /\ n + 1 \in 1..Len(q) /\ q[n + 1] \in E /\ n + 1 # 0 /\ n + 1 - 1 = n  BY <1>0
  <2>2. F[n] \in Seq(E) /\ Elems(F[n]) = {q[j] : j \in 1..n} \ S  BY <1>0, <1>4, <2>1
  <2>3. F[n + 1] = IF q[n + 1] \in S THEN F[n] ELSE Append(F[n], q[n + 1])
    <3>1. n + 1 \in 0..Len(q)  BY <1>0, <2>1
    <3>2. F[n + 1] = IF n + 1 = 0 THEN << >> ELSE IF q[n + 1] \in S THEN F[n + 1 - 1] ELSE Append(F[n + 1 - 1], q[n + 1])
      BY <1>2, <3>1, KeptAt
    <3> QED BY <2>1, <3>2
  <2>4. {q[j] : j \in 1..n + 1} = {q[j] : j \in 1..n} \cup {q[n + 1]}  BY <2>1
  <2>5. CASE q[n + 1] \in S  BY <2>1, <2>2, <2>3, <2>4, <2>5
  <2>6. CASE q[n + 1] \notin S
    <3>1. F[n + 1] = Append(F[n], q[n + 1])  BY <2>3, <2>6
    <3>2. F[n + 1] \in Seq(E) /\ Elems(F[n + 1]) = Elems(F[n]) \cup {q[n + 1]}  BY <2>1, <2>2, <3>1, ElemsOfAppend
    <3> QED BY <2>1, <2>2, <2>4, <2>6, <3>2
  <2> QED BY <2>5, <2>6
<1> HIDE DEF Good
<1>5. Len(q) \in Good
  <2>1. \A n \in 0..Len(q) - 1 : n \in Good => n + 1 \in Good  BY <1>4
  <2>2. 0..Len(q) \subseteq Good  BY <1>0, <1>3, <2>1, SetInduction
  <2> QED BY <1>0, <2>2
<1>6. {q[j] : j \in 1..Len(q)} = Elems(q)  BY <1>0 DEF Elems
<1> QED BY <1>0, <1>1, <1>5, <1>6 DEF Good

\* A set of numbers that is not empty has a least one.
LEMMA LeastExists ==
  ASSUME NEW I, I \subseteq Nat, I # {}
  PROVE  \E i \in I : \A j \in I : i <= j
<1>1. PICK x \in I : \A y \in I : ~(<<y, x>> \in OpToRel(<, Nat))  BY WFMin, NatLessThanWellFounded
<1>2. \A y \in I : ~(y < x)  BY <1>1 DEF OpToRel
<1>3. \A y \in I : x <= y  BY <1>2
<1> QED BY <1>3

\* What the cap evicts is in the list.
LEMMA CapEvictsListed ==
  ASSUME NEW id \in Sessions, summaries \in Seq(Sessions)
  PROVE  /\ Upserted(id) \in Seq(Sessions) /\ Elems(Upserted(id)) = Elems(summaries) \cup {id}
         /\ CapEvicts(id) \subseteq Elems(Upserted(id))
<1>1. Upserted(id) \in Seq(Sessions) /\ Elems(Upserted(id)) = Elems(summaries) \cup {id}
  <2>1. CASE InList(id)  BY <2>1 DEF Upserted, InList, Elems
  <2>2. CASE ~InList(id)  BY <2>2, ElemsOfAppend DEF Upserted
  <2> QED BY <2>1, <2>2
<1> DEFINE q == Upserted(id)
           k == select_eviction_index(q)
<1> HIDE DEF q
<1>2. CASE Len(q) > SummaryMax
  <2>1. q \in Seq(Sessions) /\ 1 \in DOMAIN q /\ DOMAIN q \subseteq Nat  BY <1>1, <1>2, StoreAssumption, LenProperties DEF q
  <2>2. k \in DOMAIN q
    <3> DEFINE unfocused == {i \in DOMAIN q : q[i] \notin focused}
    <3>1. CASE focused = {} \/ unfocused = {}  BY <2>1, <3>1 DEF select_eviction_index
    <3>2. CASE ~(focused = {} \/ unfocused = {})
      <4>1. \E i \in unfocused : \A j \in unfocused : i <= j  BY <2>1, <3>2, LeastExists
      <4>2. k = CHOOSE i \in unfocused : \A j \in unfocused : i <= j  BY <3>2 DEF select_eviction_index
      <4> HIDE DEF k
      <4>3. k \in unfocused  BY <4>1, <4>2
      <4> QED BY <4>3
    <3> QED BY <3>1, <3>2
  <2> QED BY <1>1, <1>2, <2>2 DEF CapEvicts, Elems, q
<1>3. CASE ~(Len(q) > SummaryMax)  BY <1>1, <1>3 DEF CapEvicts, q
<1> QED BY <1>1, <1>2, <1>3

-----------------------------------------------------------------------------
(* What the parts of the actions do.                                       *)

\* A session with a record in a batch has a last one.
LEMMA LastExists ==
  ASSUME NEW recs \in Seq(Records), NEW s, s \in Ids(recs)
  PROVE  \E i \in DOMAIN recs : LastOf(recs, i, s)
<1> DEFINE its == {i \in DOMAIN recs : recs[i].id = s}
           I == {Len(recs) - i : i \in its}
<1>1. Len(recs) \in Nat /\ DOMAIN recs = 1..Len(recs)  BY LenProperties
<1>2. I \subseteq Nat /\ I # {}  BY <1>1 DEF Ids
<1> HIDE DEF I
<1>3. PICK k \in I : \A j \in I : k <= j  BY <1>2, LeastExists
<1>4. PICK i \in its : k = Len(recs) - i  BY DEF I
<1>5. ASSUME NEW j \in its PROVE j <= i
  <2>1. Len(recs) - j \in I  BY DEF I
  <2> QED BY <1>1, <1>3, <1>4, <2>1
<1> QED BY <1>4, <1>5 DEF LastOf

\* The last one is unique, so it is the record that is stored.
LEMMA LastIsStored ==
  ASSUME NEW recs \in Seq(Records), NEW s, NEW i \in DOMAIN recs, LastOf(recs, i, s)
  PROVE  (CHOOSE k \in DOMAIN recs : recs[k].id = s /\ \A j \in DOMAIN recs : recs[j].id = s => j <= k) = i
<1> DEFINE k == CHOOSE k \in DOMAIN recs : recs[k].id = s /\ \A j \in DOMAIN recs : recs[j].id = s => j <= k
<1>1. \E n \in DOMAIN recs : recs[n].id = s /\ \A j \in DOMAIN recs : recs[j].id = s => j <= n  BY DEF LastOf
<1>2. k \in DOMAIN recs /\ recs[k].id = s /\ \A j \in DOMAIN recs : recs[j].id = s => j <= k  BY <1>1
<1> HIDE DEF k
<1>3. DOMAIN recs \subseteq Nat  BY LenProperties
<1>4. k <= i /\ i <= k  BY <1>2 DEF LastOf
<1>5. k = i  BY <1>2, <1>3, <1>4
<1> QED BY <1>5 DEF k

\* The rows of a batch were written at a generation, those of `lost` aside.
Stored(recs, gen, lost) ==
  /\ faulty' = faulty \cup lost
  /\ row' \in [Sessions -> Versions] /\ rowGen' \in [Sessions -> Nat]
  /\ \A s \in Sessions : s \notin Ids(recs) \ lost => row'[s] = row[s] /\ rowGen'[s] = rowGen[s]
  /\ \A s \in Sessions : s \in Ids(recs) \ lost =>
       rowGen'[s] = gen /\ \A i \in DOMAIN recs : LastOf(recs, i, s) => row'[s] = recs[i].v
  /\ BodiesFound => BodiesFound'

\* persist_session_batch_full: the rows of the batch that could be written are
\* the last records of their sessions, and their bodies are found.
LEMMA PersistFacts ==
  ASSUME StoreTypeOK, NEW recs \in Seq(Records), NEW gen \in Nat, Persist(recs, gen)
  PROVE  \E lost \in SUBSET Ids(recs) : Stored(recs, gen, lost)
<1>1. PICK lost, inline \in SUBSET Ids(recs) :
        PersistRows(recs, lost, gen) /\ Spill(recs, inline, lost) /\ faulty' = faulty \cup lost
  BY DEF Persist, Ids
<1> DEFINE at(s) == CHOOSE i \in DOMAIN recs : recs[i].id = s /\ \A j \in DOMAIN recs : recs[j].id = s => j <= i
           saved == Ids(recs) \ lost
<1>2. /\ row' = [s \in Sessions |-> IF s \in saved THEN recs[at(s)].v ELSE row[s]]
      /\ rowGen' = [s \in Sessions |-> IF s \in saved THEN gen ELSE rowGen[s]]
  BY <1>1 DEF PersistRows, Ids
<1>3. \A s \in saved : \A i \in DOMAIN recs : LastOf(recs, i, s) => at(s) = i  BY LastIsStored
<1>4. \A s \in saved : at(s) \in DOMAIN recs  BY <1>3, LastExists
<1> HIDE DEF at
<1>5. \A i \in DOMAIN recs : recs[i] \in Records  BY LenProperties
<1>6. \A s \in saved : recs[at(s)].v \in Versions  BY <1>4, <1>5 DEF Records, Versions
<1>7. row' \in [Sessions -> Versions] /\ rowGen' \in [Sessions -> Nat]  BY <1>2, <1>6 DEF StoreTypeOK
<1>8. \A s \in Sessions : s \notin saved => row'[s] = row[s] /\ rowGen'[s] = rowGen[s]  BY <1>2
<1>9. \A s \in Sessions : s \in saved =>
        rowGen'[s] = gen /\ \A i \in DOMAIN recs : LastOf(recs, i, s) => row'[s] = recs[i].v
  BY <1>2, <1>3
<1>10. BodiesFound => BodiesFound'
  <2> DEFINE complete == {recs[i].id : i \in {j \in DOMAIN recs : recs[j].v = 2}}
  <2>1. /\ files' = files \cup (complete \ inline)
        /\ rowFile' = (rowFile \ (complete \ lost)) \cup (complete \ (lost \cup inline))
    BY <1>1 DEF Spill, WriteBody
  <2> HIDE DEF complete
  <2> QED BY <1>1, <2>1 DEF BodiesFound
<1>11. Stored(recs, gen, lost)  BY <1>1, <1>7, <1>8, <1>9, <1>10 DEF Stored
<1> QED BY <1>11

\* delete_sessions_by_ids.
LEMMA DeleteRowsFacts ==
  ASSUME StoreTypeOK, NEW S, DeleteRows(S)
  PROVE  /\ row' \in [Sessions -> Versions] /\ rowGen' \in [Sessions -> Nat] /\ rowFile' = rowFile \ S
         /\ \A s \in Sessions : row'[s] = IF s \in S THEN 0 ELSE row[s]
         /\ \A s \in Sessions \ S : rowGen'[s] = rowGen[s]
BY DEF DeleteRows, StoreTypeOK, Versions

\* delete_sessions_impl: a session it was asked to delete loses its row, or storage failed.
LEMMA BestEffortFacts ==
  ASSUME StoreTypeOK, NEW S, DeleteBestEffort(S)
  PROVE  /\ row' \in [Sessions -> Versions] /\ rowGen' \in [Sessions -> Nat]
         /\ faulty \subseteq faulty' /\ stale \subseteq stale'
         /\ \A s \in Sessions \ S : row'[s] = row[s] /\ rowGen'[s] = rowGen[s]
         /\ \A s \in Sessions \cap S : s \notin faulty' =>
              row'[s] = 0 /\ s \notin Elems(summaries) /\ (s \notin stale' => detail[s] = 0)
         /\ BodiesFound => BodiesFound'
<1>1. CASE DeleteRows(S) /\ RemoveBodies(S) /\ faulty' = faulty \cup (S \cap Elems(summaries))
           /\ stale' = stale \cup {s \in S : detail[s] # 0}
  <2>1. BodiesFound => BodiesFound'  BY <1>1, DeleteRowsFacts DEF BodiesFound, RemoveBodies
  <2> QED BY <1>1, <2>1, DeleteRowsFacts
<1>2. CASE UNCHANGED <<row, rowGen, rowFile, frames, stale>> /\ RemoveBodies(S) /\ faulty' = faulty \cup S
  <2>1. BodiesFound => BodiesFound'  BY <1>2 DEF BodiesFound, RemoveBodies
  <2> QED BY <1>2, <2>1 DEF StoreTypeOK
<1> QED BY <1>1, <1>2 DEF DeleteBestEffort

\* A record joined the list, and `out` left it.
Joined(rec, out) ==
  /\ out \subseteq Elems(summaries) \cup {rec.id}
  /\ summaries' \in Seq(Sessions) /\ Elems(summaries') = (Elems(summaries) \cup {rec.id}) \ out
  /\ version' \in [Sessions -> Versions] /\ detail' \in [Sessions -> Versions]
  /\ \A s \in Sessions : s \in out => version'[s] = 0 /\ detail'[s] = 0
  /\ \A s \in Sessions \ out : s # rec.id => version'[s] = version[s] /\ detail'[s] = detail[s]
  /\ rec.id \notin out => version'[rec.id] = rec.v /\ detail'[rec.id] \in {0, rec.v}
  /\ evicted' = evicted \cup out
  /\ shown' = (shown \ out) \cup {rec.id}
  /\ ghost' = (ghost \ {rec.id}) \cup (out \cap {rec.id})
  /\ stale' = (stale \ out) \ {rec.id}

\* update_session_cache_and_emit: the session joins the list, something may leave it.
LEMMA UpdateFacts ==
  ASSUME StoreTypeOK, NEW rec \in Records, update_session_cache_and_emit(rec)
  PROVE  \E out : Joined(rec, out)
<1> DEFINE out == CapEvicts(rec.id)
<1>0. rec.id \in Sessions /\ rec.v \in Versions /\ rec.v \in 1..2 /\ summaries \in Seq(Sessions)
  BY DEF Records, StoreTypeOK, Versions
<1>1. /\ Upserted(rec.id) \in Seq(Sessions) /\ Elems(Upserted(rec.id)) = Elems(summaries) \cup {rec.id}
      /\ out \subseteq Elems(summaries) \cup {rec.id}
  BY <1>0, CapEvictsListed
<1>2. /\ summaries' = Without(Upserted(rec.id), out)
      /\ version' = [s \in Sessions |-> IF s \in out THEN 0 ELSE IF s = rec.id THEN rec.v ELSE version[s]]
      /\ detail' = [s \in Sessions |-> IF s \in out THEN 0 ELSE IF s = rec.id /\ detail[s] # 0 THEN rec.v ELSE detail[s]]
      /\ evicted' = evicted \cup out
      /\ shown' = (shown \ out) \cup {rec.id}
      /\ ghost' = (ghost \ {rec.id}) \cup (out \cap {rec.id})
      /\ stale' = (stale \ out) \ {rec.id}
  BY DEF update_session_cache_and_emit, Refreshed, Announced
<1> HIDE DEF out
<1>3. summaries' \in Seq(Sessions) /\ Elems(summaries') = (Elems(summaries) \cup {rec.id}) \ out  BY <1>1, <1>2, ElemsOfWithout
<1>4. version' \in [Sessions -> Versions] /\ detail' \in [Sessions -> Versions]  BY <1>0, <1>2 DEF StoreTypeOK, Versions
<1>5. /\ \A s \in Sessions : s \in out => version'[s] = 0 /\ detail'[s] = 0
      /\ \A s \in Sessions \ out : s # rec.id => version'[s] = version[s] /\ detail'[s] = detail[s]
      /\ rec.id \notin out => version'[rec.id] = rec.v /\ detail'[rec.id] \in {0, rec.v}
  BY <1>0, <1>2
<1>6. Joined(rec, out)  BY <1>1, <1>2, <1>3, <1>4, <1>5 DEF Joined
<1> QED BY <1>6

\* What leaves the cache leaves its list, its versions and its details.
LEMMA RemoveFacts ==
  ASSUME StoreTypeOK, NEW S, NEW over, RemoveCached(S, over)
  PROVE  /\ summaries' \in Seq(Sessions) /\ Elems(summaries') = Elems(summaries) \ S
         /\ version' \in [Sessions -> Versions] /\ detail' \in [Sessions -> Versions]
         /\ \A s \in Sessions : version'[s] = (IF s \in S THEN 0 ELSE version[s])
         /\ \A s \in Sessions : detail'[s] = (IF s \in S THEN 0 ELSE detail[s])
         /\ stale' = (stale \ S) \cup over
<1>1. summaries \in Seq(Sessions)  BY DEF StoreTypeOK
<1>2. summaries' \in Seq(Sessions) /\ Elems(summaries') = Elems(summaries) \ S  BY <1>1, ElemsOfWithout DEF RemoveCached
<1> QED BY <1>2 DEF RemoveCached, StoreTypeOK, Versions

\* A command takes a step.
LEMMA SetCmdFacts ==
  ASSUME StoreTypeOK, NEW c \in Commands, NEW pc \in Waiting \cup Working, SetCmd(c, pc)
  PROVE  /\ cmd' \in CmdType /\ \A d \in Commands \ {c} : cmd'[d] = cmd[d]
         /\ cmd'[c].pc = pc /\ cmd'[c].kind = cmd[c].kind /\ cmd'[c].ids = cmd[c].ids /\ cmd'[c].gen = cmd[c].gen
BY DEF StoreTypeOK, CmdType, SetCmd

\* A command ends and gives the lock back.
LEMMA FinishFacts ==
  ASSUME StoreTypeOK, NEW c \in Commands, Finish(c)
  PROVE  /\ cmd' \in CmdType /\ (\A d \in Commands \ {c} : cmd'[d] = cmd[d])
         /\ cmd'[c] = IdleCommand /\ holder' = NoOne
<1>1. IdleCommand \in [pc : Waiting \cup Working, kind : Kinds, ids : SUBSET Sessions, gen : Nat]
  BY DEF IdleCommand, Waiting, Kinds
<1> QED BY <1>1 DEF StoreTypeOK, CmdType, Finish

-----------------------------------------------------------------------------
(* The invariant holds initially and every step keeps it.                  *)

\* After the startup clear nobody is at work and nothing differs.
LEMMA StoreStarts == StoreInit => StoreInv
<1> SUFFICES ASSUME StoreInit PROVE StoreInv  OBVIOUS
<1>1. PICK old : StartupClear(old)  BY DEF StoreInit
<1>2. /\ row \in [Sessions -> Versions] /\ sent \in [Sessions -> Versions] /\ BodiesFound
      /\ \A s \in Sessions \ faulty : row[s] = 0
  BY <1>1 DEF StartupClear, Versions, BodiesFound
<1>3. /\ rowGen = [s \in Sessions |-> 0] /\ killGen = [s \in Sessions |-> 0] /\ generation = 0 /\ colGen = 0
      /\ version = [s \in Sessions |-> 0] /\ detail = [s \in Sessions |-> 0]
      /\ summaries = << >> /\ sessionChan = << >> /\ batch = << >> /\ evicted = {} /\ shown = {} /\ ghost = {}
      /\ holder = NoOne /\ colPc = "top" /\ cmd = [c \in Commands |-> IdleCommand] /\ reader.v = 0
  BY DEF StoreInit, IdleReader
<1>4. << >> \in Seq(Sessions) /\ << >> \in Seq(Records) /\ Elems(<< >>) = {}  BY EmptySeq DEF Elems
<1>5. cmd \in CmdType /\ \A c \in Commands : cmd[c].pc = "idle" /\ cmd[c].kind = "clear" /\ cmd[c].gen = 0
  BY <1>3 DEF CmdType, IdleCommand, Waiting, Kinds
<1>6. StoreTypeOK  BY <1>2, <1>3, <1>4, <1>5 DEF StoreTypeOK, Versions
<1>7. OneHolder /\ KindFollows  BY <1>3, <1>5, StoreAssumption DEF OneHolder, KindFollows, Working
<1>8. GenerationsInOrder  BY <1>3, <1>5 DEF GenerationsInOrder
<1>9. NoResurrection  BY <1>3 DEF NoResurrection
<1>10. HolderAgrees  BY <1>2, <1>3, <1>5 DEF HolderAgrees, MatchOff
<1>11. ListedHasVersion /\ FrontEndFollows  BY <1>3, <1>4 DEF ListedHasVersion, FrontEndFollows
<1> QED BY <1>2, <1>6, <1>7, <1>8, <1>9, <1>10, <1>11 DEF StoreInv, WorkInv, AgreeInv

\* A step that changes neither the store nor who is at work in it.
LEMMA QuietKeeps ==
  ASSUME StoreInv,
         UNCHANGED <<row, rowGen, rowFile, files, summaries, version, detail, holder, evicted, cmd, shown,
                     killGen, faulty, ghost, stale, generation>>,
         sent' \in [Sessions -> Versions], sessionChan' \in Seq(Records), batch' \in Seq(Records),
         reader'.v \in Versions, colGen' \in Nat, colGen' <= generation,
         \/ UNCHANGED <<colPc, colGen, batch>>
         \/ colPc \notin {"persist", "cache"} /\ colPc' \notin {"persist", "cache"}
  PROVE  StoreInv'
<1> USE DEF StoreInv, WorkInv, AgreeInv
<1>1. StoreTypeOK'  BY DEF StoreTypeOK
<1>2. OneHolder' /\ KindFollows'  BY DEF OneHolder, KindFollows
<1>3. GenerationsInOrder' /\ NoResurrection'  BY DEF GenerationsInOrder, NoResurrection
<1>4. HolderAgrees'
  <2>1. CASE UNCHANGED <<colPc, colGen, batch>>  BY <2>1 DEF HolderAgrees, Untouched, MatchOff, LastOf, Ids, Covered
  <2>2. CASE colPc \notin {"persist", "cache"} /\ colPc' \notin {"persist", "cache"}
    BY <2>2 DEF HolderAgrees, Untouched, MatchOff, Covered
  <2> QED BY <2>1, <2>2
<1>5. ListedHasVersion' /\ FrontEndFollows' /\ BodiesFound'  BY DEF ListedHasVersion, FrontEndFollows, BodiesFound
<1> QED BY <1>1, <1>2, <1>3, <1>4, <1>5

\* The proxy's sends and its end.
LEMMA ProxyKeeps ==
  ASSUME StoreInv, StopListener \/ ConnectionsEnd \/ \E s \in Sessions : SendRecord(s) \/ SendFrame(s)
  PROVE  StoreInv'
<1>1. StoreTypeOK /\ colGen <= generation  BY DEF StoreInv, WorkInv, GenerationsInOrder
<1>2. ASSUME NEW s \in Sessions, SendRecord(s) PROVE StoreInv'
  <2>1. sent[s] \in 0..1 /\ sent[s] + 1 \in 1..2  BY <1>1, <1>2 DEF SendRecord, Reportable, StoreTypeOK, Versions
  <2>2. sent' \in [Sessions -> Versions]  BY <1>1, <1>2, <2>1 DEF SendRecord, StoreTypeOK, Versions
  <2>3. sessionChan' \in Seq(Records)
    <3>1. Record(s, sent[s] + 1) \in Records  BY <2>1 DEF Record, Records
    <3>2. sessionChan' \in {sessionChan, Append(sessionChan, Record(s, sent[s] + 1))}  BY <1>2 DEF SendRecord, Queued
    <3>3. sessionChan \in Seq(Records) /\ Append(sessionChan, Record(s, sent[s] + 1)) \in Seq(Records)
      BY <1>1, <3>1, AppendProperties DEF StoreTypeOK
    <3> QED BY <3>2, <3>3
  <2> QED BY <1>1, <1>2, <2>2, <2>3, QuietKeeps DEF SendRecord, StoreTypeOK, storage, memory, collector, history
<1>3. ASSUME NEW s \in Sessions, SendFrame(s) PROVE StoreInv'
  BY <1>1, <1>3, QuietKeeps DEF SendFrame, StoreTypeOK, storage, memory, collector, history
<1>4. CASE StopListener \/ ConnectionsEnd
  BY <1>1, <1>4, QuietKeeps DEF StopListener, ConnectionsEnd, StoreTypeOK, storage, memory, collector, history
<1> QED BY <1>2, <1>3, <1>4

\* The collector's waits, its frames and its end.
LEMMA CollectKeeps ==
  ASSUME StoreInv,
         \/ CollectorTop \/ CollectSessions \/ CollectFrame \/ Backpressure \/ CollectorExit
         \/ \E chan \in polled : CollectorNone(chan)
         \/ \E i \in DOMAIN inserts : InsertFrame(i)
  PROVE  StoreInv'
<1>1. StoreTypeOK /\ colGen <= generation  BY DEF StoreInv, WorkInv, GenerationsInOrder
<1>2. CASE CollectorTop
  <2>1. colGen' \in Nat /\ colGen' <= generation /\ colPc \notin {"persist", "cache"} /\ colPc' \notin {"persist", "cache"}
    BY <1>1, <1>2 DEF CollectorTop, StoreTypeOK
  <2> QED BY <1>1, <1>2, <2>1, QuietKeeps DEF CollectorTop, StoreTypeOK, storage, memory, channels, history
<1>3. CASE CollectSessions
  <2> DEFINE n == IF Len(sessionChan) > BatchSize THEN BatchSize ELSE Len(sessionChan)
  <2>0. sessionChan \in Seq(Records) /\ Len(sessionChan) \in Nat /\ BatchSize \in Nat
    BY <1>1, LenProperties, StoreAssumption DEF StoreTypeOK
  <2>1. n \in 0..Len(sessionChan)  BY <2>0
  <2>2. batch' = SubSeq(sessionChan, 1, n) /\ sessionChan' = SubSeq(sessionChan, n + 1, Len(sessionChan))
    BY <1>3 DEF CollectSessions
  <2> HIDE DEF n
  <2>3. batch' \in Seq(Records)  BY <2>0, <2>1, <2>2, SubSeqProperties
  <2>4. sessionChan' \in Seq(Records)  BY <2>0, <2>1, <2>2, SubSeqProperties
  <2> QED BY <1>1, <1>3, <2>3, <2>4, QuietKeeps DEF CollectSessions, StoreTypeOK, storage, memory, history
<1>4. CASE CollectFrame  BY <1>1, <1>4, QuietKeeps DEF CollectFrame, StoreTypeOK, storage, memory, history
<1>5. CASE Backpressure  BY <1>1, <1>5, QuietKeeps DEF Backpressure, StoreTypeOK, storage, memory, channels, history
<1>6. CASE CollectorExit  BY <1>1, <1>6, QuietKeeps DEF CollectorExit, StoreTypeOK, storage, memory, channels, history
<1>7. ASSUME NEW chan \in polled, CollectorNone(chan) PROVE StoreInv'
  BY <1>1, <1>7, QuietKeeps DEF CollectorNone, StoreTypeOK, storage, memory, channels, history
<1>8. ASSUME NEW i \in DOMAIN inserts, InsertFrame(i) PROVE StoreInv'
  BY <1>1, <1>8, QuietKeeps DEF InsertFrame, StoreTypeOK, memory, channels, history
<1> QED BY <1>2, <1>3, <1>4, <1>5, <1>6, <1>7, <1>8

\* The reads up to the backfill, and the focus.
LEMMA ReadKeeps ==
  ASSUME StoreInv, ReadSummary \/ \E s \in Sessions : ReadHit(s) \/ ReadRow(s) \/ SetFocusedHosts({s})
  PROVE  StoreInv'
<1>1. StoreTypeOK /\ colGen <= generation  BY DEF StoreInv, WorkInv, GenerationsInOrder
<1>2. ASSUME NEW s \in Sessions, ReadHit(s) PROVE StoreInv'
  BY <1>1, <1>2, QuietKeeps DEF ReadHit, StoreTypeOK, storage, channels, collector, history
<1>3. ASSUME NEW s \in Sessions, ReadRow(s) PROVE StoreInv'
  <2>1. reader'.v \in Versions  BY <1>1, <1>3 DEF ReadRow, DetailRow, StoreTypeOK
  <2> QED BY <1>1, <1>3, <2>1, QuietKeeps DEF ReadRow, StoreTypeOK, storage, memory, channels, collector, history
<1>4. CASE ReadSummary
  <2>1. reader'.v \in Versions  BY <1>1, <1>4 DEF ReadSummary, IdleReader, StoreTypeOK, Versions
  <2> QED BY <1>1, <1>4, <2>1, QuietKeeps DEF ReadSummary, StoreTypeOK, storage, memory, channels, collector, history
<1>5. ASSUME NEW s \in Sessions, SetFocusedHosts({s}) PROVE StoreInv'
  BY <1>1, <1>5, QuietKeeps DEF SetFocusedHosts, StoreTypeOK, storage, memory, channels, collector, history
<1> QED BY <1>2, <1>3, <1>4, <1>5

\* The rescan counts the rows whose files it takes as touched by a fault.
LEMMA RescanKeeps == ASSUME StoreInv, BodyRescan PROVE StoreInv'
<1> USE DEF StoreInv, WorkInv, AgreeInv
<1>1. /\ UNCHANGED <<row, rowGen, rowFile, summaries, version, detail, sent, sessionChan, generation, holder, colPc, colGen,
                     batch, evicted, cmd, reader, shown, killGen, ghost, stale>>
      /\ faulty' = faulty \cup rowFile /\ files' = {}
  BY DEF BodyRescan, ClearBodies, memory, channels, collector
<1>2. StoreTypeOK'  BY <1>1 DEF StoreTypeOK
<1>3. OneHolder' /\ KindFollows'  BY <1>1 DEF OneHolder, KindFollows
<1>4. GenerationsInOrder' /\ NoResurrection'  BY <1>1 DEF GenerationsInOrder, NoResurrection
<1>5. HolderAgrees'  BY <1>1 DEF HolderAgrees, Untouched, MatchOff, LastOf, Ids, Covered
<1>6. ListedHasVersion' /\ FrontEndFollows' /\ BodiesFound'  BY <1>1 DEF ListedHasVersion, FrontEndFollows, BodiesFound
<1> QED BY <1>2, <1>3, <1>4, <1>5, <1>6

\* The backfill caches a version that is the row's, or counts it as stale; what
\* the capacity pushes out is no longer cached.
LEMMA FillKeeps == ASSUME StoreInv, ReadFill PROVE StoreInv'
<1> USE DEF StoreInv, WorkInv, AgreeInv
<1> DEFINE now == Elems(AfterInsert(reader.id))
<1>1. /\ UNCHANGED <<row, rowGen, rowFile, files, summaries, version, sent, sessionChan, generation, holder, colPc, colGen,
                     batch, evicted, cmd, shown, killGen, faulty, ghost>>
      /\ detail' = [s \in Sessions |-> IF s \notin now THEN 0 ELSE IF s = reader.id THEN reader.v ELSE detail[s]]
      /\ stale' = (stale \cap now) \cup (IF reader.v # row[reader.id] THEN {reader.id} ELSE {})
      /\ reader' = IdleReader
  BY DEF ReadFill, storage, channels, collector
<1> HIDE DEF now
<1>2. StoreTypeOK'  BY <1>1 DEF StoreTypeOK, IdleReader, Versions
<1>3. OneHolder' /\ KindFollows'  BY <1>1 DEF OneHolder, KindFollows
<1>4. GenerationsInOrder' /\ NoResurrection'  BY <1>1 DEF GenerationsInOrder, NoResurrection
<1>5. ASSUME NEW s \in Sessions, s \notin stale => detail[s] \in {0, row[s]}, s \notin stale'
      PROVE  detail'[s] \in {0, row[s]}
  BY <1>1, <1>5
<1>6. HolderAgrees'  BY <1>1, <1>5 DEF HolderAgrees, Untouched, MatchOff, LastOf, Ids, Covered
<1>7. ListedHasVersion' /\ FrontEndFollows' /\ BodiesFound'  BY <1>1 DEF ListedHasVersion, FrontEndFollows, BodiesFound
<1> QED BY <1>2, <1>3, <1>4, <1>6, <1>7

\* A command is called: it waits for the lock.
LEMMA CallKeeps ==
  ASSUME StoreInv, NEW c \in Commands, NEW gen \in Nat, NEW kind \in Kinds, NEW ids \in SUBSET Sessions,
         cmd[c].pc = "idle", kind = "upsert" => \E s \in Sessions : ids = {s},
         cmd' = [cmd EXCEPT ![c] = [pc |-> "lock", kind |-> kind, ids |-> ids, gen |-> gen]],
         generation' \in Nat, generation <= generation', gen <= generation',
         sent' \in [Sessions -> Versions],
         UNCHANGED <<row, rowGen, rowFile, files, summaries, version, detail, sessionChan, holder, colPc, colGen,
                     batch, evicted, reader, shown, killGen, faulty, ghost, stale>>
  PROVE  StoreInv'
<1> USE DEF StoreInv, WorkInv, AgreeInv
<1>1. /\ cmd' \in CmdType /\ \A d \in Commands \ {c} : cmd'[d] = cmd[d]
      /\ cmd'[c].pc = "lock" /\ cmd'[c].kind = kind /\ cmd'[c].ids = ids /\ cmd'[c].gen = gen
  BY DEF StoreTypeOK, CmdType, Waiting
<1>2. StoreTypeOK'  BY <1>1 DEF StoreTypeOK
<1>3. OneHolder'  BY <1>1 DEF OneHolder, Working
<1>4. KindFollows'  BY <1>1 DEF KindFollows
<1>5. GenerationsInOrder'
  <2>1. colGen \in Nat /\ generation \in Nat /\ (\A s \in Sessions : killGen[s] \in Nat) /\ \A d \in Commands : cmd[d].gen \in Nat
    BY DEF StoreTypeOK, CmdType
  <2> QED BY <1>1, <2>1 DEF GenerationsInOrder
<1>6. NoResurrection'  BY DEF NoResurrection
<1>7. HolderAgrees'
  <2>1. Untouched' => Untouched  BY <1>1 DEF Untouched
  <2> QED BY <1>1, <2>1 DEF HolderAgrees, MatchOff, LastOf, Ids, Covered
<1>8. ListedHasVersion' /\ FrontEndFollows' /\ BodiesFound'  BY DEF ListedHasVersion, FrontEndFollows, BodiesFound
<1> QED BY <1>2, <1>3, <1>4, <1>5, <1>6, <1>7, <1>8

\* clear_sessions, delete_sessions and delete_sessions_except announce a new generation.
LEMMA DestroyKeeps ==
  ASSUME StoreInv, NEW c \in Commands, NEW kind \in {"clear", "delete", "except"}, NEW ids \in SUBSET Sessions, Destroy(c, kind, ids)
  PROVE  StoreInv'
<1>1. generation \in Nat /\ generation + 1 \in Nat /\ generation <= generation + 1 /\ sent \in [Sessions -> Versions]
  BY DEF StoreInv, WorkInv, StoreTypeOK
<1>2. /\ cmd[c].pc = "idle" /\ generation' = generation + 1
      /\ cmd' = [cmd EXCEPT ![c] = [pc |-> "lock", kind |-> kind, ids |-> ids, gen |-> generation + 1]]
      /\ UNCHANGED <<row, rowGen, rowFile, files, summaries, version, detail, sessionChan, holder, colPc, colGen,
                     batch, evicted, reader, shown, killGen, faulty, ghost, stale, sent>>
  BY DEF Destroy, storage, memory, channels, collector, history
<1>3. kind \in Kinds /\ kind # "upsert"  BY DEF Kinds
<1>4. PICK g \in Nat : g = generation + 1  BY <1>1
<1>5. /\ cmd' = [cmd EXCEPT ![c] = [pc |-> "lock", kind |-> kind, ids |-> ids, gen |-> g]]
      /\ generation' \in Nat /\ generation <= generation' /\ g <= generation' /\ sent' \in [Sessions -> Versions]
  BY <1>1, <1>2, <1>4
<1>6. kind = "upsert" => \E s \in Sessions : ids = {s}  BY <1>3
<1>7. /\ cmd[c].pc = "idle"
      /\ UNCHANGED <<row, rowGen, rowFile, files, summaries, version, detail, sessionChan, holder, colPc, colGen,
                     batch, evicted, reader, shown, killGen, faulty, ghost, stale>>
  BY <1>2
<1> QED BY <1>3, <1>5, <1>6, <1>7, CallKeeps

\* upsert_session_async takes the generation of its call.
LEMMA UpsertCallKeeps == ASSUME StoreInv, NEW c \in Commands, NEW s \in Sessions, UpsertCall(c, s) PROVE StoreInv'
<1>1. generation \in Nat /\ sent' \in [Sessions -> Versions]  BY DEF StoreInv, WorkInv, StoreTypeOK, UpsertCall, Versions
<1>2. {s} \in SUBSET Sessions /\ "upsert" \in Kinds /\ \E t \in Sessions : {s} = {t}  BY DEF Kinds
<1>3. /\ cmd[c].pc = "idle"
      /\ cmd' = [cmd EXCEPT ![c] = [pc |-> "lock", kind |-> "upsert", ids |-> {s}, gen |-> generation]]
      /\ UNCHANGED <<row, rowGen, rowFile, files, summaries, version, detail, sessionChan, holder, colPc, colGen,
                     batch, evicted, reader, shown, killGen, faulty, ghost, stale, generation>>
  BY DEF UpsertCall, storage, memory, collector, history
<1>4. generation' \in Nat /\ generation <= generation'  BY <1>1, <1>3
<1>5. PICK kind \in Kinds : kind = "upsert"  BY <1>2
<1>6. PICK ids \in SUBSET Sessions : ids = {s}  BY <1>2
<1> QED BY <1>1, <1>2, <1>3, <1>4, <1>5, <1>6, CallKeeps

\* The collector takes the lock at its generation, or drops its batch.
LEMMA CollectorLockKeeps == ASSUME StoreInv, CollectorLock PROVE StoreInv'
<1> USE DEF StoreInv, WorkInv, AgreeInv
<1>1. /\ colPc = "lock" /\ holder = NoOne
      /\ UNCHANGED <<row, rowGen, rowFile, files, summaries, version, detail, sent, sessionChan, generation,
                     evicted, cmd, reader, shown, killGen, faulty, ghost, stale>>
      /\ \/ colGen = generation /\ holder' = "collector" /\ colPc' = "persist" /\ UNCHANGED <<batch, colGen>>
         \/ batch' = << >> /\ colGen' = 0 /\ colPc' = "top" /\ holder' = NoOne
  BY DEF CollectorLock, SameGeneration, storage, memory, channels, history
<1>2. StoreTypeOK'
  <2>1. batch' \in Seq(Records) /\ colGen' \in Nat
    <3>1. batch \in Seq(Records) /\ colGen \in Nat /\ << >> \in Seq(Records) /\ 0 \in Nat  BY EmptySeq DEF StoreTypeOK
    <3> QED BY <1>1, <3>1
  <2> QED BY <1>1, <2>1 DEF StoreTypeOK
<1>3. \A c \in Commands : holder # c /\ holder' # c /\ cmd[c].pc \notin Working  BY <1>1, StoreAssumption DEF OneHolder
<1>4. OneHolder' /\ KindFollows'  BY <1>1, <1>3, StoreAssumption DEF OneHolder, KindFollows
<1>5. GenerationsInOrder'  BY <1>1, <1>2 DEF GenerationsInOrder, StoreTypeOK
<1>6. NoResurrection'  BY <1>1 DEF NoResurrection
<1>7. HolderAgrees'  BY <1>1, <1>3 DEF HolderAgrees, Untouched, MatchOff, Working
<1>8. ListedHasVersion' /\ FrontEndFollows' /\ BodiesFound'  BY <1>1 DEF ListedHasVersion, FrontEndFollows, BodiesFound
<1> QED BY <1>2, <1>4, <1>5, <1>6, <1>7, <1>8

\* The batch is stored: its sessions are ahead of the list.
LEMMA CollectorPersistKeeps == ASSUME StoreInv, CollectorPersist PROVE StoreInv'
<1> USE DEF StoreInv, WorkInv, AgreeInv
<1>1. /\ colPc = "persist" /\ colPc' = "cache" /\ Persist(batch, colGen)
      /\ UNCHANGED <<summaries, version, detail, sent, sessionChan, generation, holder, colGen, batch,
                     evicted, cmd, reader, shown, killGen, ghost, stale>>
  BY DEF CollectorPersist, memory, channels
<1>2. PICK lost \in SUBSET Ids(batch) : Stored(batch, colGen, lost)
  <2>1. batch \in Seq(Records) /\ colGen \in Nat /\ StoreTypeOK  BY DEF StoreTypeOK
  <2> QED BY <1>1, <2>1, PersistFacts
<1>2a. /\ faulty' = faulty \cup lost
       /\ row' \in [Sessions -> Versions] /\ rowGen' \in [Sessions -> Nat]
       /\ \A s \in Sessions : s \notin Ids(batch) \ lost => row'[s] = row[s] /\ rowGen'[s] = rowGen[s]
       /\ \A s \in Sessions : s \in Ids(batch) \ lost =>
            rowGen'[s] = colGen /\ \A i \in DOMAIN batch : LastOf(batch, i, s) => row'[s] = batch[i].v
       /\ BodiesFound => BodiesFound'
  BY <1>2 DEF Stored
<1>3. StoreTypeOK'  BY <1>1, <1>2a DEF StoreTypeOK
<1>4. holder = "collector" /\ \A c \in Commands : cmd[c].pc \notin Working  BY <1>1, StoreAssumption DEF OneHolder
<1>5. OneHolder' /\ KindFollows'  BY <1>1, <1>4 DEF OneHolder, KindFollows
<1>6. GenerationsInOrder'  BY <1>1 DEF GenerationsInOrder
<1>7. NoResurrection'
  <2> SUFFICES ASSUME NEW s \in Sessions \ faulty', row'[s] # 0 PROVE rowGen'[s] >= killGen'[s]  BY DEF NoResurrection
  <2>1. CASE s \in Ids(batch) \ lost
    <3>1. rowGen'[s] = colGen /\ killGen[s] <= colGen /\ killGen[s] \in Nat /\ colGen \in Nat
      BY <1>1, <1>2a, <2>1 DEF GenerationsInOrder, StoreTypeOK
    <3> QED BY <1>1, <3>1
  <2>2. CASE s \notin Ids(batch) \ lost
    <3>1. rowGen'[s] = rowGen[s] /\ row[s] # 0 /\ s \notin faulty  BY <1>2a, <2>2
    <3> QED BY <1>1, <3>1 DEF NoResurrection
  <2> QED BY <2>1, <2>2
<1>8. Untouched /\ ~Untouched' /\ evicted = {} /\ MatchOff({})
  BY <1>1, <1>4, StoreAssumption DEF HolderAgrees, Untouched, Working
<1>9. MatchOff(evicted \cup Ids(batch))'  BY <1>1, <1>2, <1>2a, <1>8 DEF MatchOff, Ids
<1>10. \A s \in Sessions \ (faulty' \cup evicted') : \A i \in DOMAIN batch' : LastOf(batch', i, s) => row'[s] = batch'[i].v
  <2> SUFFICES ASSUME NEW s \in Sessions \ faulty', NEW i \in DOMAIN batch, LastOf(batch, i, s) PROVE row'[s] = batch[i].v
    BY <1>1
  <2>1. s \in Ids(batch) \ lost  BY <1>2a DEF LastOf, Ids
  <2> QED BY <1>2a, <2>1
<1>11. HolderAgrees'
  <2>1. \A c \in Commands : cmd'[c].pc \notin {"drop", "exceptDb", "upsertCache", "upsertEvict"}  BY <1>1, <1>4 DEF Working
  <2> QED BY <1>8, <1>9, <1>10, <2>1 DEF HolderAgrees, LastOf
<1>12. ListedHasVersion' /\ FrontEndFollows' /\ BodiesFound'  BY <1>1, <1>2a DEF ListedHasVersion, FrontEndFollows
<1> QED BY <1>3, <1>5, <1>6, <1>7, <1>11, <1>12

\* The first record of a batch is taken off it.
LEMMA TailFacts ==
  ASSUME NEW recs \in Seq(Records), recs # << >>
  PROVE  /\ Head(recs) \in Records /\ Tail(recs) \in Seq(Records)
         /\ Ids(recs) = Ids(Tail(recs)) \cup {Head(recs).id}
         /\ \A s : \A i \in DOMAIN Tail(recs) : LastOf(Tail(recs), i, s) =>
              i + 1 \in DOMAIN recs /\ LastOf(recs, i + 1, s) /\ recs[i + 1] = Tail(recs)[i]
         /\ Head(recs).id \notin Ids(Tail(recs)) =>
              1 \in DOMAIN recs /\ LastOf(recs, 1, Head(recs).id) /\ recs[1] = Head(recs)
<1>1. /\ Len(recs) \in Nat \ {0} /\ DOMAIN recs = 1..Len(recs) /\ Head(recs) = recs[1] /\ recs[1] \in Records
      /\ Tail(recs) \in Seq(Records) /\ Len(Tail(recs)) = Len(recs) - 1 /\ DOMAIN Tail(recs) = 1..Len(recs) - 1
      /\ \A i \in 1..Len(recs) - 1 : Tail(recs)[i] = recs[i + 1]
  BY LenProperties, EmptySeq, HeadTailProperties
<1> DEFINE t == Tail(recs)
           h == Head(recs)
<1> HIDE DEF t, h
<1>2. /\ Len(recs) \in Nat \ {0} /\ DOMAIN recs = 1..Len(recs) /\ h = recs[1]
      /\ DOMAIN t = 1..Len(recs) - 1 /\ \A i \in 1..Len(recs) - 1 : t[i] = recs[i + 1]
  BY <1>1 DEF t, h
<1>3. \A i \in DOMAIN recs : i = 1 \/ (i - 1 \in DOMAIN t /\ recs[i] = t[i - 1])  BY <1>2
<1>4. Ids(recs) = Ids(t) \cup {h.id}
  <2>1. \A x \in Ids(recs) : x \in Ids(t) \cup {h.id}  BY <1>2, <1>3 DEF Ids
  <2>2. \A x \in Ids(t) : x \in Ids(recs)  BY <1>2 DEF Ids
  <2>3. h.id \in Ids(recs)  BY <1>2 DEF Ids
  <2> QED BY <2>1, <2>2, <2>3
<1>5. ASSUME NEW s, NEW i \in DOMAIN t, LastOf(t, i, s)
      PROVE  i + 1 \in DOMAIN recs /\ LastOf(recs, i + 1, s) /\ recs[i + 1] = t[i]
  <2>1. i + 1 \in DOMAIN recs /\ recs[i + 1] = t[i] /\ i \in Nat /\ i >= 1  BY <1>2
  <2>2. ASSUME NEW j \in DOMAIN recs, recs[j].id = s PROVE j <= i + 1
    <3>1. CASE j = 1  BY <2>1, <3>1
    <3>2. CASE j # 1
      <4>1. j - 1 \in DOMAIN t /\ t[j - 1].id = s /\ j \in Nat  BY <1>2, <1>3, <2>2, <3>2
      <4>2. j - 1 <= i  BY <1>5, <4>1 DEF LastOf
      <4> QED BY <2>1, <4>1, <4>2
    <3> QED BY <3>1, <3>2
  <2> QED BY <1>5, <2>1, <2>2 DEF LastOf
<1>6. ASSUME h.id \notin Ids(t) PROVE 1 \in DOMAIN recs /\ LastOf(recs, 1, h.id) /\ recs[1] = h
  <2>1. \A j \in DOMAIN recs : recs[j].id = h.id => j = 1  BY <1>3, <1>6 DEF Ids
  <2> QED BY <1>2, <2>1 DEF LastOf
<1> QED BY <1>1, <1>4, <1>5, <1>6 DEF t, h

\* The list takes over the next record of the batch.
LEMMA CollectorCacheKeeps == ASSUME StoreInv, CollectorCache PROVE StoreInv'
<1> USE DEF StoreInv, WorkInv, AgreeInv
<1>1. /\ colPc = "cache" /\ colPc' = "cache" /\ batch # << >> /\ batch' = Tail(batch)
      /\ update_session_cache_and_emit(Head(batch))
      /\ UNCHANGED <<row, rowGen, rowFile, files, sent, sessionChan, generation, holder, colGen, cmd, reader, killGen, faulty>>
  BY DEF CollectorCache, storage, channels
<1>0. batch \in Seq(Records)  BY DEF StoreTypeOK
<1>2. /\ Head(batch) \in Records /\ Tail(batch) \in Seq(Records)
      /\ Ids(batch) = Ids(Tail(batch)) \cup {Head(batch).id}
      /\ \A s : \A i \in DOMAIN Tail(batch) : LastOf(Tail(batch), i, s) =>
           i + 1 \in DOMAIN batch /\ LastOf(batch, i + 1, s) /\ batch[i + 1] = Tail(batch)[i]
      /\ Head(batch).id \notin Ids(Tail(batch)) =>
           1 \in DOMAIN batch /\ LastOf(batch, 1, Head(batch).id) /\ batch[1] = Head(batch)
  BY <1>0, <1>1, TailFacts
<1>3. PICK rec \in Records : rec = Head(batch)  BY <1>2
<1>4. PICK out : Joined(rec, out)  BY <1>1, <1>3, UpdateFacts
<1>5. rec.id \in Sessions  BY DEF Records
<1>6. StoreTypeOK'  BY <1>1, <1>2, <1>4 DEF StoreTypeOK, Joined
<1>7. holder = "collector" /\ holder # NoOne /\ \A c \in Commands : cmd[c].pc \notin Working
  BY <1>1, StoreAssumption DEF OneHolder
<1>8. OneHolder' /\ KindFollows'  BY <1>1 DEF OneHolder, KindFollows
<1>9. GenerationsInOrder' /\ NoResurrection'  BY <1>1 DEF GenerationsInOrder, NoResurrection
<1>10. /\ \A s \in Sessions \ (faulty \cup evicted \cup Ids(batch)) :
            row[s] = version[s] /\ (s \notin stale => detail[s] \in {0, row[s]})
       /\ \A s \in Sessions \ (faulty \cup evicted) : \A i \in DOMAIN batch : LastOf(batch, i, s) => row[s] = batch[i].v
  BY <1>1 DEF HolderAgrees, MatchOff
<1>11. ASSUME NEW s \in Sessions, s \notin faulty, s \notin evicted', s \notin Ids(Tail(batch))
       PROVE  row[s] = version'[s] /\ (s \notin stale' => detail'[s] \in {0, row[s]})
  <2>1. s \notin out /\ s \notin evicted  BY <1>4, <1>11 DEF Joined
  <2>2. CASE s = rec.id
    <3>1. row[s] = rec.v  BY <1>2, <1>3, <1>10, <1>11, <2>1, <2>2
    <3> QED BY <1>4, <2>1, <2>2, <3>1 DEF Joined
  <2>3. CASE s # rec.id
    <3>1. s \notin Ids(batch)  BY <1>2, <1>3, <1>11, <2>3
    <3>2. row[s] = version[s] /\ (s \notin stale => detail[s] \in {0, row[s]})  BY <1>10, <1>11, <2>1, <3>1
    <3> QED BY <1>4, <2>1, <2>3, <3>2 DEF Joined
  <2> QED BY <2>2, <2>3
<1>12. MatchOff(evicted \cup Ids(batch))'  BY <1>1, <1>11 DEF MatchOff, Ids
<1>13. ASSUME NEW s \in Sessions, s \notin faulty, s \notin evicted', NEW i \in DOMAIN Tail(batch), LastOf(Tail(batch), i, s)
       PROVE  row[s] = Tail(batch)[i].v
  <2>1. s \notin evicted  BY <1>4, <1>13 DEF Joined
  <2>2. i + 1 \in DOMAIN batch /\ LastOf(batch, i + 1, s) /\ batch[i + 1] = Tail(batch)[i]  BY <1>2, <1>13
  <2> QED BY <1>10, <1>13, <2>1, <2>2
<1>14. HolderAgrees'
  <2>1. \A c \in Commands : cmd'[c].pc \notin Working  BY <1>1, <1>7
  <2>2. ~Untouched'  BY <1>1, <1>7, <2>1 DEF Untouched, Working
  <2>3. \A s \in Sessions \ (faulty' \cup evicted') : \A i \in DOMAIN batch' : LastOf(batch', i, s) => row'[s] = batch'[i].v
    BY <1>1, <1>13
  <2> QED BY <1>12, <2>1, <2>2, <2>3 DEF HolderAgrees, Working, LastOf
<1>15. ListedHasVersion' /\ FrontEndFollows'
  <2>1. ASSUME NEW s \in Sessions, version'[s] # 0 PROVE s \in Elems(summaries')  BY <1>4, <1>5, <2>1 DEF Joined, ListedHasVersion
  <2>2. shown' = Elems(summaries') \cup ghost' /\ ghost' \cap Elems(summaries') = {}  BY <1>4 DEF Joined, FrontEndFollows
  <2> QED BY <2>1, <2>2 DEF ListedHasVersion, FrontEndFollows, Elems
<1>16. BodiesFound'  BY <1>1 DEF BodiesFound
<1> QED BY <1>6, <1>8, <1>9, <1>14, <1>15, <1>16

\* What was evicted loses its rows, and the lock is given back.
LEMMA CollectorEvictKeeps == ASSUME StoreInv, CollectorEvict PROVE StoreInv'
<1> USE DEF StoreInv, WorkInv, AgreeInv
<1>1. /\ colPc = "cache" /\ colPc' = "top" /\ batch = << >> /\ colGen' = 0 /\ holder' = NoOne /\ evicted' = {}
      /\ DeleteBestEffort(evicted)
      /\ UNCHANGED <<summaries, version, detail, sent, sessionChan, generation, batch, cmd, reader, shown, killGen, ghost>>
  BY DEF CollectorEvict, memory, channels
<1>2. /\ row' \in [Sessions -> Versions] /\ rowGen' \in [Sessions -> Nat]
      /\ faulty \subseteq faulty' /\ stale \subseteq stale'
      /\ \A s \in Sessions \ evicted : row'[s] = row[s] /\ rowGen'[s] = rowGen[s]
      /\ \A s \in Sessions \cap evicted : s \notin faulty' =>
           row'[s] = 0 /\ s \notin Elems(summaries) /\ (s \notin stale' => detail[s] = 0)
      /\ BodiesFound => BodiesFound'
  BY <1>1, BestEffortFacts
<1>3. StoreTypeOK'  BY <1>1, <1>2 DEF StoreTypeOK
<1>4. holder = "collector" /\ \A c \in Commands : cmd[c].pc \notin Working  BY <1>1, StoreAssumption DEF OneHolder
<1>5. OneHolder' /\ KindFollows'  BY <1>1, <1>4, StoreAssumption DEF OneHolder, KindFollows
<1>6. GenerationsInOrder'  BY <1>1, <1>3, <1>4 DEF GenerationsInOrder, StoreTypeOK, Working
<1>7. NoResurrection'  BY <1>1, <1>2 DEF NoResurrection
<1>8. ASSUME NEW s \in Sessions, s \notin faulty'
      PROVE  row'[s] = version[s] /\ (s \notin stale' => detail[s] \in {0, row'[s]})
  <2>1. CASE s \in evicted  BY <1>2, <1>8, <2>1 DEF ListedHasVersion
  <2>2. CASE s \notin evicted
    <3>1. row[s] = version[s] /\ (s \notin stale => detail[s] \in {0, row[s]})
      <4>1. Ids(batch) = {}  BY <1>1 DEF Ids
      <4> QED BY <1>1, <1>2, <1>8, <2>2, <4>1 DEF HolderAgrees, MatchOff
    <3> QED BY <1>2, <2>2, <3>1
  <2> QED BY <2>1, <2>2
<1>9. HolderAgrees'
  <2>1. \A c \in Commands : cmd'[c].pc \notin Working  BY <1>1, <1>4
  <2>2. MatchOff({})'  BY <1>1, <1>8 DEF MatchOff
  <2> QED BY <1>1, <2>1, <2>2 DEF HolderAgrees, Working
<1>10. ListedHasVersion' /\ FrontEndFollows' /\ BodiesFound'  BY <1>1, <1>2 DEF ListedHasVersion, FrontEndFollows
<1> QED BY <1>3, <1>5, <1>6, <1>7, <1>9, <1>10

\* A command at work is alone.
LEMMA WorksAlone ==
  ASSUME OneHolder, NEW c \in Commands, cmd[c].pc \in Working
  PROVE  /\ holder = c /\ holder # NoOne /\ colPc \notin {"persist", "cache"}
         /\ \A d \in Commands \ {c} : cmd[d].pc \notin Working
BY StoreAssumption DEF OneHolder

\* A command takes the lock and goes to its work; a stale upsert gives up.
LEMMA CommandLockKeeps == ASSUME StoreInv, NEW c \in Commands, CommandLock(c) PROVE StoreInv'
<1> USE DEF StoreInv, WorkInv, AgreeInv
<1>1. /\ cmd[c].pc = "lock" /\ holder = NoOne
      /\ UNCHANGED <<row, rowGen, rowFile, files, summaries, version, detail, sent, sessionChan, generation,
                     colPc, colGen, batch, evicted, reader, shown, killGen, faulty, ghost, stale>>
  BY DEF CommandLock, storage, memory, channels, collector, history
<1>2. /\ colPc \notin {"persist", "cache"} /\ \A d \in Commands : cmd[d].pc \notin Working  BY <1>1, StoreAssumption DEF OneHolder
<1>3. Untouched /\ evicted = {} /\ MatchOff({})  BY <1>1 DEF HolderAgrees, Untouched
<1>4. NoResurrection' /\ ListedHasVersion' /\ FrontEndFollows' /\ BodiesFound'
  BY <1>1 DEF NoResurrection, ListedHasVersion, FrontEndFollows, BodiesFound
<1>5. MatchOff({})' /\ evicted' = {} /\ colPc' \notin {"persist", "cache"}  BY <1>1, <1>2, <1>3 DEF MatchOff
<1>6. CASE (cmd[c].kind # "upsert" \/ SameGeneration(cmd[c].gen)) /\ holder' = c /\ SetCmd(c, AfterLock(cmd[c].kind))
  <2>1. /\ cmd[c].kind \in Kinds /\ AfterLock(cmd[c].kind) \in {"clearDb", "deleteDb", "exceptCache", "upsertDb"}
        /\ (AfterLock(cmd[c].kind) = "upsertDb" => cmd[c].kind = "upsert")
        /\ (AfterLock(cmd[c].kind) = "exceptCache" => cmd[c].kind = "except")
    BY DEF AfterLock, Kinds, StoreTypeOK, CmdType
  <2>2. PICK pc \in Waiting \cup Working : pc = AfterLock(cmd[c].kind)  BY <2>1 DEF Working
  <2>3. /\ cmd' \in CmdType /\ \A d \in Commands \ {c} : cmd'[d] = cmd[d]
        /\ cmd'[c].pc = pc /\ cmd'[c].kind = cmd[c].kind /\ cmd'[c].ids = cmd[c].ids /\ cmd'[c].gen = cmd[c].gen
    BY <1>6, <2>2, SetCmdFacts
  <2>4. StoreTypeOK'  BY <1>1, <2>3 DEF StoreTypeOK
  <2>5. OneHolder'  BY <1>1, <1>2, <1>6, <2>1, <2>2, <2>3, StoreAssumption DEF OneHolder, Working
  <2>6. KindFollows'  BY <2>1, <2>2, <2>3 DEF KindFollows
  <2>7. GenerationsInOrder'
    <3>1. pc = "upsertDb" => cmd[c].gen = generation  BY <1>6, <2>1, <2>2 DEF SameGeneration
    <3>2. \A s \in Sessions : killGen[s] <= generation  BY DEF GenerationsInOrder
    <3>3. ASSUME NEW d \in Commands, cmd'[d].pc = "upsertDb" PROVE \A s \in Sessions : killGen[s] <= cmd'[d].gen
      BY <1>2, <2>3, <3>1, <3>2, <3>3 DEF Working
    <3> QED BY <1>1, <1>5, <2>3, <3>3 DEF GenerationsInOrder
  <2>8. HolderAgrees'
    <3>1. \A d \in Commands : cmd'[d].pc \notin {"drop", "exceptDb", "upsertCache", "upsertEvict"}
      BY <1>2, <2>1, <2>2, <2>3 DEF Working
    <3> QED BY <1>5, <3>1 DEF HolderAgrees
  <2> QED BY <1>4, <2>4, <2>5, <2>6, <2>7, <2>8
<1>7. CASE cmd' = [cmd EXCEPT ![c] = IdleCommand] /\ UNCHANGED holder
  <2>1. cmd' \in CmdType /\ cmd'[c] = IdleCommand /\ \A d \in Commands \ {c} : cmd'[d] = cmd[d]
    BY <1>1, <1>7, FinishFacts DEF Finish
  <2>2. cmd'[c].pc = "idle" /\ cmd'[c].kind = "clear" /\ cmd'[c].gen = 0  BY <2>1 DEF IdleCommand
  <2>3. StoreTypeOK'  BY <1>1, <2>1 DEF StoreTypeOK
  <2>4. OneHolder' /\ KindFollows'  BY <1>1, <1>2, <1>7, <2>1, <2>2 DEF OneHolder, KindFollows, Working
  <2>5. GenerationsInOrder'
    <3>1. generation \in Nat /\ 0 <= generation  BY DEF StoreTypeOK
    <3>2. \A d \in Commands : cmd'[d].gen <= generation /\ cmd'[d].pc # "upsertDb"
      BY <1>2, <2>1, <2>2, <3>1 DEF GenerationsInOrder, Working
    <3> QED BY <1>1, <1>5, <3>2 DEF GenerationsInOrder
  <2>6. HolderAgrees'
    <3>1. \A d \in Commands : cmd'[d].pc \notin {"drop", "exceptDb", "upsertCache", "upsertEvict"}
      BY <1>2, <2>1, <2>2 DEF Working
    <3> QED BY <1>5, <3>1 DEF HolderAgrees
  <2> QED BY <1>4, <2>3, <2>4, <2>5, <2>6
<1> QED BY <1>6, <1>7 DEF CommandLock

\* A command that gives the lock back leaves nobody at work.
LEMMA GivenBack ==
  ASSUME StoreInv, NEW c \in Commands, cmd[c].pc \in Working, Finish(c),
         UNCHANGED <<generation, colPc, colGen>>
  PROVE  /\ cmd' \in CmdType /\ OneHolder' /\ KindFollows' /\ holder' = NoOne
         /\ \A d \in Commands : cmd'[d].pc \notin Working
         /\ \A d \in Commands : cmd'[d].gen <= generation
         /\ colPc' \notin {"persist", "cache"}
<1>1. WorkInv /\ GenerationsInOrder /\ OneHolder /\ StoreTypeOK  BY DEF StoreInv, WorkInv
<1>2. cmd' \in CmdType /\ (\A d \in Commands \ {c} : cmd'[d] = cmd[d]) /\ cmd'[c] = IdleCommand /\ holder' = NoOne
  BY <1>1, FinishFacts
<1>3. cmd'[c].pc = "idle" /\ cmd'[c].kind = "clear" /\ cmd'[c].gen = 0  BY <1>2 DEF IdleCommand
<1>4. colPc \notin {"persist", "cache"} /\ \A d \in Commands \ {c} : cmd[d].pc \notin Working  BY <1>1, WorksAlone
<1>5. \A d \in Commands : cmd'[d].pc \notin Working  BY <1>2, <1>3, <1>4 DEF Working
<1>6. OneHolder'  BY <1>2, <1>4, <1>5, StoreAssumption DEF OneHolder
<1>7. KindFollows'  BY <1>1, <1>2, <1>3 DEF KindFollows, WorkInv
<1>8. \A d \in Commands : cmd'[d].gen <= generation
  <2>1. generation \in Nat /\ 0 <= generation  BY <1>1 DEF StoreTypeOK
  <2> QED BY <1>1, <1>2, <1>3, <2>1 DEF GenerationsInOrder
<1> QED BY <1>2, <1>4, <1>5, <1>6, <1>7, <1>8

\* A command that goes on keeps the lock.
LEMMA GoesOn ==
  ASSUME StoreInv, NEW c \in Commands, cmd[c].pc \in Working, NEW pc \in Working \ {"exceptCache"},
         cmd' \in CmdType, cmd'[c].pc = pc, cmd'[c].kind = cmd[c].kind, cmd'[c].gen = cmd[c].gen,
         \A d \in Commands \ {c} : cmd'[d] = cmd[d],
         cmd[c].kind = "upsert" => cmd'[c].ids = cmd[c].ids,
         pc \in {"upsertDb", "upsertCache", "upsertEvict"} => cmd[c].kind = "upsert",
         UNCHANGED <<generation, colPc, holder>>
  PROVE  /\ OneHolder' /\ KindFollows'
         /\ \A d \in Commands \ {c} : cmd'[d].pc \notin Working
         /\ \A d \in Commands : cmd'[d].gen <= generation
         /\ colPc' \notin {"persist", "cache"} /\ holder' # NoOne
<1>1. WorkInv /\ GenerationsInOrder /\ OneHolder /\ StoreTypeOK /\ KindFollows  BY DEF StoreInv, WorkInv
<1>2. /\ holder = c /\ holder # NoOne /\ colPc \notin {"persist", "cache"}
      /\ \A d \in Commands \ {c} : cmd[d].pc \notin Working
  BY <1>1, WorksAlone
<1>3. OneHolder'  BY <1>1, <1>2 DEF OneHolder
<1>4. KindFollows'  BY <1>1 DEF KindFollows
<1>5. \A d \in Commands : cmd'[d].gen <= generation  BY <1>1 DEF GenerationsInOrder
<1> QED BY <1>2, <1>3, <1>4, <1>5

\* Nothing but the generations of deletions changes what is in order.
LEMMA InOrder ==
  ASSUME StoreTypeOK', colGen' <= generation', \A s \in Sessions : killGen'[s] <= generation',
         \A c \in Commands : cmd'[c].gen <= generation', colPc' \notin {"persist", "cache"},
         \A c \in Commands : cmd'[c].pc # "upsertDb"
  PROVE  GenerationsInOrder'
BY DEF GenerationsInOrder

\* clear_all_sessions_result and delete_sessions_and_bodies_result.
LEMMA CommandDbKeeps == ASSUME StoreInv, NEW c \in Commands, CommandDb(c) PROVE StoreInv'
<1> USE DEF StoreInv, WorkInv, AgreeInv
<1>1. /\ cmd[c].pc \in {"clearDb", "deleteDb"} /\ cmd[c].pc \in Working
      /\ UNCHANGED <<summaries, version, detail, sent, sessionChan, generation, colPc, colGen, batch, evicted, reader,
                     shown, faulty, ghost, stale>>
  BY DEF CommandDb, Working, memory, channels, collector
<1>2. Untouched /\ evicted = {} /\ MatchOff({})  BY <1>1 DEF HolderAgrees, Untouched
<1>3. ListedHasVersion' /\ FrontEndFollows'  BY <1>1 DEF ListedHasVersion, FrontEndFollows
<1>4. colGen <= generation /\ (\A s \in Sessions : killGen[s] <= generation) /\ cmd[c].gen <= generation /\ cmd[c].gen \in Nat
  BY DEF GenerationsInOrder, StoreTypeOK, CmdType
<1>5. CASE /\ DeleteRows(Covered(c)) /\ (RemoveBodies(Covered(c)) \/ UNCHANGED files)
           /\ killGen' = [s \in Sessions |-> IF s \in Covered(c) THEN cmd[c].gen ELSE killGen[s]]
           /\ SetCmd(c, "drop") /\ UNCHANGED holder
  <2>1. /\ row' \in [Sessions -> Versions] /\ rowGen' \in [Sessions -> Nat] /\ rowFile' = rowFile \ Covered(c)
        /\ \A s \in Sessions : row'[s] = IF s \in Covered(c) THEN 0 ELSE row[s]
        /\ \A s \in Sessions \ Covered(c) : rowGen'[s] = rowGen[s]
    BY <1>5, DeleteRowsFacts
  <2>2. /\ cmd' \in CmdType /\ \A d \in Commands \ {c} : cmd'[d] = cmd[d]
        /\ cmd'[c].pc = "drop" /\ cmd'[c].kind = cmd[c].kind /\ cmd'[c].ids = cmd[c].ids /\ cmd'[c].gen = cmd[c].gen
    BY <1>5, SetCmdFacts DEF Working
  <2>3. /\ OneHolder' /\ KindFollows' /\ \A d \in Commands \ {c} : cmd'[d].pc \notin Working
        /\ (\A d \in Commands : cmd'[d].gen <= generation)
        /\ colPc' \notin {"persist", "cache"} /\ holder' # NoOne
    BY <1>1, <1>5, <2>2, GoesOn DEF Working
  <2>4. killGen' \in [Sessions -> Nat] /\ \A s \in Sessions : killGen'[s] <= generation  BY <1>4, <1>5 DEF StoreTypeOK
  <2>5. StoreTypeOK'  BY <1>1, <2>1, <2>2, <2>4 DEF StoreTypeOK
  <2>6. GenerationsInOrder'  BY <1>1, <1>4, <2>2, <2>3, <2>4, <2>5, InOrder DEF Working
  <2>7. NoResurrection'  BY <1>1, <1>5, <2>1 DEF NoResurrection
  <2>8. Covered(c)' = Covered(c)  BY <2>2 DEF Covered
  <2>9. \A s \in Sessions \ (faulty' \cup Covered(c)) : row'[s] = version'[s] /\ (s \notin stale' => detail'[s] \in {0, row'[s]})
    BY <1>1, <1>2, <2>1 DEF MatchOff
  <2>10. Covered(c) \subseteq Sessions  BY DEF Covered, StoreTypeOK, CmdType
  <2>11. MatchOff(Covered(c))' /\ \A s \in Covered(c)' : row'[s] = 0  BY <2>1, <2>8, <2>9, <2>10 DEF MatchOff
  <2>12. HolderAgrees'
    <3>1. ~Untouched'  BY <2>2, <2>3 DEF Untouched, Working
    <3>2. \A d \in Commands \ {c} : cmd'[d].pc \notin {"drop", "exceptDb", "upsertCache", "upsertEvict"}  BY <2>3 DEF Working
    <3> QED BY <1>1, <1>2, <2>2, <2>3, <2>11, <3>1, <3>2 DEF HolderAgrees
  <2>13. BodiesFound'  BY <1>1, <1>5, <2>1 DEF BodiesFound, RemoveBodies
  <2> QED BY <1>3, <2>3, <2>5, <2>6, <2>7, <2>12, <2>13
<1>6. CASE /\ UNCHANGED <<row, rowGen, rowFile, frames, files, killGen>> /\ Finish(c)
  <2>1. /\ cmd' \in CmdType /\ OneHolder' /\ KindFollows' /\ holder' = NoOne
        /\ (\A d \in Commands : cmd'[d].pc \notin Working)
        /\ (\A d \in Commands : cmd'[d].gen <= generation)
        /\ colPc' \notin {"persist", "cache"}
    BY <1>1, <1>6, GivenBack
  <2>2. StoreTypeOK'  BY <1>1, <1>6, <2>1 DEF StoreTypeOK
  <2>3. GenerationsInOrder'  BY <1>1, <1>4, <1>6, <2>1, <2>2, InOrder DEF Working
  <2>4. NoResurrection' /\ BodiesFound'  BY <1>1, <1>6 DEF NoResurrection, BodiesFound
  <2>5. HolderAgrees'
    <3>1. MatchOff({})'  BY <1>1, <1>2, <1>6 DEF MatchOff
    <3> QED BY <1>1, <1>2, <2>1, <3>1 DEF HolderAgrees, Working
  <2> QED BY <1>3, <2>1, <2>2, <2>3, <2>4, <2>5
<1> QED BY <1>5, <1>6 DEF CommandDb

\* The cache and the front end follow the rows that were deleted.
LEMMA CommandDropKeeps == ASSUME StoreInv, NEW c \in Commands, CommandDrop(c) PROVE StoreInv'
<1> USE DEF StoreInv, WorkInv, AgreeInv
<1>1. /\ cmd[c].pc = "drop" /\ cmd[c].pc \in Working /\ Finish(c)
      /\ UNCHANGED <<row, rowGen, rowFile, files, sent, sessionChan, generation, colPc, colGen, batch, evicted, reader, killGen, faulty>>
  BY DEF CommandDrop, Working, storage, channels, collector
<1>2. evicted = {} /\ MatchOff(Covered(c)) /\ \A s \in Covered(c) \ faulty : row[s] = 0  BY <1>1 DEF HolderAgrees
<1>3. /\ cmd' \in CmdType /\ OneHolder' /\ KindFollows' /\ holder' = NoOne
      /\ (\A d \in Commands : cmd'[d].pc \notin Working)
      /\ (\A d \in Commands : cmd'[d].gen <= generation)
      /\ colPc' \notin {"persist", "cache"}
  BY <1>1, GivenBack
<1>4. PICK S, over :
        /\ RemoveCached(S, over)
        /\ shown' = Elems(summaries') \cup ghost' /\ ghost' \cap Elems(summaries') = {}
        /\ \A s \in Covered(c) : version'[s] = 0 /\ (s \notin stale' => detail'[s] = 0)
        /\ S \subseteq Covered(c) \cup Elems(summaries) /\ over \cap S = {}
        /\ S \cap Sessions \subseteq Covered(c)
  <2>1. CASE cmd[c].kind = "clear" /\ DropAll
    <3> DEFINE S == Elems(summaries)
               over == {s \in Sessions : detail[s] # 0} \ Elems(summaries)
    <3>1. RemoveCached(S, over) /\ shown' = {} /\ ghost' = {} /\ Covered(c) = Sessions  BY <2>1 DEF DropAll, Covered
    <3>2. /\ Elems(summaries') = Elems(summaries) \ S /\ stale' = (stale \ S) \cup over
          /\ \A s \in Sessions : version'[s] = (IF s \in S THEN 0 ELSE version[s])
          /\ \A s \in Sessions : detail'[s] = (IF s \in S THEN 0 ELSE detail[s])
      BY <3>1, RemoveFacts
    <3>3. \A s \in Sessions : version'[s] = 0 /\ (s \notin stale' => detail'[s] = 0)  BY <3>2 DEF ListedHasVersion
    <3>4. shown' = Elems(summaries') \cup ghost' /\ ghost' \cap Elems(summaries') = {}  BY <3>1, <3>2
    <3> HIDE DEF S
    <3>5. over \cap S = {} /\ S \cap Sessions \subseteq Covered(c) /\ S \subseteq Covered(c) \cup Elems(summaries)  BY <3>1 DEF S
    <3> HIDE DEF over
    <3> QED BY <3>1, <3>3, <3>4, <3>5
  <2>2. CASE cmd[c].kind # "clear" /\ DropIds(cmd[c].ids)
    <3> DEFINE S == cmd[c].ids
    <3>1. RemoveCached(S, {}) /\ shown' = shown \ S /\ ghost' = ghost \ S /\ Covered(c) = S /\ S \subseteq Sessions
      BY <2>2 DEF DropIds, Covered, StoreTypeOK, CmdType
    <3>2. /\ Elems(summaries') = Elems(summaries) \ S
          /\ \A s \in Sessions : version'[s] = (IF s \in S THEN 0 ELSE version[s])
          /\ \A s \in Sessions : detail'[s] = (IF s \in S THEN 0 ELSE detail[s])
      BY <3>1, RemoveFacts
    <3> HIDE DEF S
    <3>3. \A s \in Covered(c) : version'[s] = 0 /\ (s \notin stale' => detail'[s] = 0)  BY <3>1, <3>2
    <3>4. shown' = Elems(summaries') \cup ghost' /\ ghost' \cap Elems(summaries') = {}  BY <3>1, <3>2 DEF FrontEndFollows
    <3> QED BY <3>1, <3>3, <3>4
  <2> QED BY <2>1, <2>2 DEF CommandDrop
<1>5. /\ summaries' \in Seq(Sessions) /\ Elems(summaries') = Elems(summaries) \ S
      /\ version' \in [Sessions -> Versions] /\ detail' \in [Sessions -> Versions]
      /\ (\A s \in Sessions : version'[s] = (IF s \in S THEN 0 ELSE version[s]))
      /\ (\A s \in Sessions : detail'[s] = (IF s \in S THEN 0 ELSE detail[s]))
      /\ stale' = (stale \ S) \cup over
  BY <1>4, RemoveFacts
<1>6. StoreTypeOK'  BY <1>1, <1>3, <1>5 DEF StoreTypeOK
<1>7. GenerationsInOrder' /\ NoResurrection' /\ BodiesFound'
  <2>1. GenerationsInOrder'  BY <1>1, <1>3, <1>6, InOrder DEF Working, GenerationsInOrder
  <2> QED BY <1>1, <2>1 DEF NoResurrection, BodiesFound
<1>8. ASSUME NEW s \in Sessions, s \notin faulty
      PROVE  row[s] = version'[s] /\ (s \notin stale' => detail'[s] \in {0, row[s]})
  <2>1. CASE s \in Covered(c)  BY <1>2, <1>4, <1>8, <2>1
  <2>2. CASE s \notin Covered(c)
    <3>1. row[s] = version[s] /\ (s \notin stale => detail[s] \in {0, row[s]}) /\ s \notin S
      BY <1>2, <1>4, <1>8, <2>2 DEF MatchOff
    <3> QED BY <1>5, <3>1
  <2> QED BY <2>1, <2>2
<1>9. HolderAgrees'
  <2>1. MatchOff({})'  BY <1>1, <1>8 DEF MatchOff
  <2> QED BY <1>1, <1>2, <1>3, <2>1 DEF HolderAgrees, Working
<1>10. ListedHasVersion' /\ FrontEndFollows'
  <2>1. \A s \in Sessions : version'[s] # 0 => s \in Elems(summaries')  BY <1>5 DEF ListedHasVersion
  <2> QED BY <1>4, <2>1 DEF ListedHasVersion, FrontEndFollows, Elems
<1> QED BY <1>3, <1>6, <1>7, <1>9, <1>10

\* delete_sessions_except: the list and the front end first.
LEMMA ExceptCacheKeeps == ASSUME StoreInv, NEW c \in Commands, ExceptCache(c) PROVE StoreInv'
<1> USE DEF StoreInv, WorkInv, AgreeInv
<1> DEFINE others == Elems(summaries) \ cmd[c].ids
<1>1. /\ cmd[c].pc = "exceptCache" /\ cmd[c].pc \in Working
      /\ RemoveCached(others, {}) /\ shown' = shown \ others
      /\ cmd' = [cmd EXCEPT ![c].pc = "exceptDb", ![c].ids = others]
      /\ UNCHANGED <<row, rowGen, rowFile, files, sent, sessionChan, generation, holder, colPc, colGen, batch, evicted,
                     reader, killGen, faulty, ghost>>
  BY DEF ExceptCache, Working, storage, channels, collector
<1>2. others \subseteq Elems(summaries) /\ others \subseteq Sessions  BY DEF Elems, StoreTypeOK
<1> HIDE DEF others
<1>3. /\ summaries' \in Seq(Sessions) /\ Elems(summaries') = Elems(summaries) \ others
      /\ version' \in [Sessions -> Versions] /\ detail' \in [Sessions -> Versions]
      /\ (\A s \in Sessions : version'[s] = (IF s \in others THEN 0 ELSE version[s]))
      /\ (\A s \in Sessions : detail'[s] = (IF s \in others THEN 0 ELSE detail[s]))
      /\ stale' = (stale \ others) \cup {}
  BY <1>1, RemoveFacts
<1>4. /\ cmd' \in CmdType /\ \A d \in Commands \ {c} : cmd'[d] = cmd[d]
      /\ cmd'[c].pc = "exceptDb" /\ cmd'[c].kind = cmd[c].kind /\ cmd'[c].ids = others /\ cmd'[c].gen = cmd[c].gen
  BY <1>1, <1>2 DEF StoreTypeOK, CmdType, Working
<1>5. Untouched /\ evicted = {} /\ MatchOff({})  BY <1>1 DEF HolderAgrees, Untouched
<1>6. /\ OneHolder' /\ \A d \in Commands \ {c} : cmd'[d].pc \notin Working
      /\ colPc' \notin {"persist", "cache"} /\ holder' # NoOne
  <2>1. /\ holder = c /\ holder # NoOne /\ colPc \notin {"persist", "cache"}
        /\ \A d \in Commands \ {c} : cmd[d].pc \notin Working
    BY <1>1, WorksAlone
  <2> QED BY <1>1, <1>4, <2>1, StoreAssumption DEF OneHolder, Working
<1>7. \A d \in Commands : cmd'[d].gen <= generation  BY <1>4 DEF GenerationsInOrder
<1>8. StoreTypeOK'  BY <1>1, <1>3, <1>4 DEF StoreTypeOK
<1>9. GenerationsInOrder' /\ NoResurrection' /\ BodiesFound'
  <2>1. GenerationsInOrder'  BY <1>1, <1>4, <1>6, <1>7, <1>8, InOrder DEF Working, GenerationsInOrder
  <2> QED BY <1>1, <2>1 DEF NoResurrection, BodiesFound
<1>10. \A s \in Sessions \ (faulty' \cup others) : row'[s] = version'[s] /\ (s \notin stale' => detail'[s] \in {0, row'[s]})
  BY <1>1, <1>3, <1>5 DEF MatchOff
<1>11. MatchOff(cmd[c].ids)' /\ \A s \in cmd'[c].ids : version'[s] = 0  BY <1>2, <1>3, <1>4, <1>10 DEF MatchOff
<1>12. HolderAgrees'
  <2>1. ~Untouched'  BY <1>4, <1>6 DEF Untouched, Working
  <2>2. \A d \in Commands \ {c} : cmd'[d].pc \notin {"drop", "exceptDb", "upsertCache", "upsertEvict"}  BY <1>6 DEF Working
  <2> QED BY <1>1, <1>4, <1>5, <1>6, <1>11, <2>1, <2>2 DEF HolderAgrees
<1>13. ListedHasVersion' /\ FrontEndFollows'
  <2>1. \A s \in Sessions : version'[s] # 0 => s \in Elems(summaries')  BY <1>3 DEF ListedHasVersion
  <2>2. shown' = Elems(summaries') \cup ghost' /\ ghost' \cap Elems(summaries') = {}  BY <1>1, <1>2, <1>3 DEF FrontEndFollows
  <2> QED BY <2>1, <2>2 DEF ListedHasVersion, FrontEndFollows, Elems
<1>14. KindFollows'
  <2>1. cmd[c].kind # "upsert"  BY <1>1 DEF KindFollows
  <2> QED BY <1>4, <2>1 DEF KindFollows
<1> QED BY <1>6, <1>8, <1>9, <1>12, <1>13, <1>14

\* delete_sessions_except, after the list: the rows, best effort.
LEMMA ExceptDbKeeps == ASSUME StoreInv, NEW c \in Commands, ExceptDb(c) PROVE StoreInv'
<1> USE DEF StoreInv, WorkInv, AgreeInv
<1> DEFINE S == cmd[c].ids
<1>1. /\ cmd[c].pc = "exceptDb" /\ cmd[c].pc \in Working /\ Finish(c) /\ DeleteBestEffort(S)
      /\ killGen' = [s \in Sessions |-> IF s \in S THEN cmd[c].gen ELSE killGen[s]]
      /\ UNCHANGED <<summaries, version, detail, sent, sessionChan, generation, colPc, colGen, batch, evicted, reader, shown, ghost>>
  BY DEF ExceptDb, Working, memory, channels, collector
<1>2. evicted = {} /\ (\A s \in S : version[s] = 0)
      /\ \A s \in Sessions \ (faulty \cup S) : row[s] = version[s] /\ (s \notin stale => detail[s] \in {0, row[s]})
  BY <1>1 DEF HolderAgrees, MatchOff
<1>3. cmd[c].gen <= generation /\ cmd[c].gen \in Nat  BY DEF GenerationsInOrder, StoreTypeOK, CmdType
<1> HIDE DEF S
<1>4. /\ row' \in [Sessions -> Versions] /\ rowGen' \in [Sessions -> Nat]
      /\ faulty \subseteq faulty' /\ stale \subseteq stale'
      /\ \A s \in Sessions \ S : row'[s] = row[s] /\ rowGen'[s] = rowGen[s]
      /\ \A s \in Sessions \cap S : s \notin faulty' =>
           row'[s] = 0 /\ s \notin Elems(summaries) /\ (s \notin stale' => detail[s] = 0)
      /\ BodiesFound => BodiesFound'
  BY <1>1, BestEffortFacts
<1>5. /\ cmd' \in CmdType /\ OneHolder' /\ KindFollows' /\ holder' = NoOne
      /\ (\A d \in Commands : cmd'[d].pc \notin Working)
      /\ (\A d \in Commands : cmd'[d].gen <= generation)
      /\ colPc' \notin {"persist", "cache"}
  BY <1>1, GivenBack
<1>6. killGen' \in [Sessions -> Nat] /\ \A s \in Sessions : killGen'[s] <= generation
  BY <1>1, <1>3 DEF StoreTypeOK, GenerationsInOrder
<1>7. StoreTypeOK'  BY <1>1, <1>4, <1>5, <1>6 DEF StoreTypeOK
<1>8. GenerationsInOrder'  BY <1>1, <1>5, <1>6, <1>7, InOrder DEF Working, GenerationsInOrder
<1>9. NoResurrection'
  <2> SUFFICES ASSUME NEW s \in Sessions \ faulty', row'[s] # 0 PROVE rowGen'[s] >= killGen'[s]  BY DEF NoResurrection
  <2>1. s \notin S /\ s \notin faulty  BY <1>4
  <2> QED BY <1>1, <1>4, <2>1 DEF NoResurrection
<1>10. ASSUME NEW s \in Sessions, s \notin faulty'
       PROVE  row'[s] = version[s] /\ (s \notin stale' => detail[s] \in {0, row'[s]})
  <2>1. CASE s \in S  BY <1>2, <1>4, <1>10, <2>1
  <2>2. CASE s \notin S  BY <1>2, <1>4, <1>10, <2>2
  <2> QED BY <2>1, <2>2
<1>11. HolderAgrees'
  <2>1. MatchOff({})'  BY <1>1, <1>10 DEF MatchOff
  <2> QED BY <1>1, <1>2, <1>5, <2>1 DEF HolderAgrees, Working
<1>12. ListedHasVersion' /\ FrontEndFollows' /\ BodiesFound'  BY <1>1, <1>4 DEF ListedHasVersion, FrontEndFollows
<1> QED BY <1>5, <1>7, <1>8, <1>9, <1>11, <1>12

\* The record an upsert brings, and the batch of it alone.
LEMMA ItsRecord ==
  ASSUME StoreInv, NEW c \in Commands, cmd[c].pc \in {"upsertDb", "upsertCache", "upsertEvict"}
  PROVE  /\ Its(c) \in Records /\ Its(c).v = 2 /\ cmd[c].ids = {Its(c).id} /\ cmd[c].kind = "upsert"
         /\ <<Its(c)>> \in Seq(Records) /\ Ids(<<Its(c)>>) = cmd[c].ids /\ LastOf(<<Its(c)>>, 1, Its(c).id)
<1>1. cmd[c].kind = "upsert" /\ \E s \in Sessions : cmd[c].ids = {s}  BY DEF StoreInv, WorkInv, KindFollows
<1>2. PICK s \in Sessions : cmd[c].ids = {s}  BY <1>1
<1>3. Its(c) = [id |-> s, v |-> 2]  BY <1>2 DEF Its, Record
<1>4. Its(c) \in Records /\ Its(c).v = 2 /\ Its(c).id = s  BY <1>3 DEF Records
<1> DEFINE r == Its(c)
<1> HIDE DEF r
<1>5. r \in Records /\ r.id = s  BY <1>4 DEF r
<1>6. <<r>> \in Seq(Records) /\ DOMAIN <<r>> = {1} /\ <<r>>[1] = r  BY <1>5
<1>7. Ids(<<r>>) = {s} /\ LastOf(<<r>>, 1, s)  BY <1>5, <1>6 DEF Ids, LastOf
<1> QED BY <1>1, <1>2, <1>4, <1>6, <1>7 DEF r

\* upsert_session_async_at_generation: the row first.
LEMMA UpsertDbKeeps == ASSUME StoreInv, NEW c \in Commands, UpsertDb(c) PROVE StoreInv'
<1> USE DEF StoreInv, WorkInv, AgreeInv
<1>1. /\ cmd[c].pc = "upsertDb" /\ cmd[c].pc \in Working /\ Persist(<<Its(c)>>, cmd[c].gen) /\ SetCmd(c, "upsertCache")
      /\ UNCHANGED <<summaries, version, detail, sent, sessionChan, generation, holder, colPc, colGen, batch, evicted, reader,
                     shown, killGen, ghost, stale>>
  BY DEF UpsertDb, Working, memory, channels, collector
<1>2. /\ Its(c) \in Records /\ Its(c).v = 2 /\ cmd[c].ids = {Its(c).id} /\ cmd[c].kind = "upsert"
      /\ <<Its(c)>> \in Seq(Records) /\ Ids(<<Its(c)>>) = cmd[c].ids /\ LastOf(<<Its(c)>>, 1, Its(c).id)
  BY <1>1, ItsRecord
<1>3. PICK recs \in Seq(Records) : recs = <<Its(c)>>  BY <1>2
<1>4. PICK gen \in Nat : gen = cmd[c].gen  BY DEF StoreTypeOK, CmdType
<1>5. PICK lost \in SUBSET Ids(recs) : Stored(recs, gen, lost)  BY <1>1, <1>3, <1>4, PersistFacts
<1>6. Ids(recs) = cmd[c].ids /\ 1 \in DOMAIN recs /\ recs[1].v = 2 /\ LastOf(recs, 1, Its(c).id)  BY <1>2, <1>3
<1>7. /\ faulty' = faulty \cup lost
      /\ row' \in [Sessions -> Versions] /\ rowGen' \in [Sessions -> Nat]
      /\ (\A s \in Sessions : s \notin cmd[c].ids \ lost => row'[s] = row[s] /\ rowGen'[s] = rowGen[s])
      /\ (\A s \in Sessions : s \in cmd[c].ids \ lost => rowGen'[s] = cmd[c].gen /\ row'[s] = 2)
      /\ BodiesFound => BodiesFound'
  BY <1>2, <1>4, <1>5, <1>6 DEF Stored
<1>8. /\ cmd' \in CmdType /\ \A d \in Commands \ {c} : cmd'[d] = cmd[d]
      /\ cmd'[c].pc = "upsertCache" /\ cmd'[c].kind = cmd[c].kind /\ cmd'[c].ids = cmd[c].ids /\ cmd'[c].gen = cmd[c].gen
  BY <1>1, SetCmdFacts DEF Working
<1>9. /\ OneHolder' /\ KindFollows' /\ \A d \in Commands \ {c} : cmd'[d].pc \notin Working
      /\ (\A d \in Commands : cmd'[d].gen <= generation)
      /\ colPc' \notin {"persist", "cache"} /\ holder' # NoOne
  BY <1>1, <1>2, <1>8, GoesOn DEF Working
<1>10. StoreTypeOK'  BY <1>1, <1>7, <1>8 DEF StoreTypeOK
<1>11. GenerationsInOrder'  BY <1>1, <1>8, <1>9, <1>10, InOrder DEF Working, GenerationsInOrder
<1>12. NoResurrection'
  <2> SUFFICES ASSUME NEW s \in Sessions \ faulty', row'[s] # 0 PROVE rowGen'[s] >= killGen'[s]  BY DEF NoResurrection
  <2>1. CASE s \in cmd[c].ids \ lost
    <3>1. rowGen'[s] = gen /\ killGen[s] <= gen /\ killGen[s] \in Nat
      BY <1>1, <1>4, <1>7, <2>1 DEF GenerationsInOrder, StoreTypeOK
    <3> QED BY <1>1, <3>1
  <2>2. CASE s \notin cmd[c].ids \ lost  BY <1>1, <1>7, <2>2 DEF NoResurrection
  <2> QED BY <2>1, <2>2
<1>13. Untouched /\ evicted = {} /\ MatchOff({})  BY <1>1 DEF HolderAgrees, Untouched
<1>14. MatchOff(cmd[c].ids)'  BY <1>1, <1>7, <1>8, <1>13 DEF MatchOff
<1>15. \A s \in cmd'[c].ids \ faulty' : row'[s] = 2  BY <1>2, <1>7, <1>8 DEF Records
<1>16. HolderAgrees'
  <2>1. ~Untouched'  BY <1>8, <1>9 DEF Untouched, Working
  <2>2. \A d \in Commands \ {c} : cmd'[d].pc \notin {"drop", "exceptDb", "upsertCache", "upsertEvict"}  BY <1>9 DEF Working
  <2> QED BY <1>1, <1>8, <1>9, <1>13, <1>14, <1>15, <2>1, <2>2 DEF HolderAgrees
<1>17. ListedHasVersion' /\ FrontEndFollows' /\ BodiesFound'  BY <1>1, <1>7 DEF ListedHasVersion, FrontEndFollows
<1> QED BY <1>9, <1>10, <1>11, <1>12, <1>16, <1>17

\* Then the list takes the record over, and something may leave it.
LEMMA UpsertCacheKeeps == ASSUME StoreInv, NEW c \in Commands, UpsertCache(c) PROVE StoreInv'
<1> USE DEF StoreInv, WorkInv, AgreeInv
<1>1. /\ cmd[c].pc = "upsertCache" /\ cmd[c].pc \in Working /\ SetCmd(c, "upsertEvict")
      /\ update_session_cache_and_emit(Its(c))
      /\ UNCHANGED <<row, rowGen, rowFile, files, sent, sessionChan, generation, holder, colPc, colGen, batch, reader, killGen, faulty>>
  BY DEF UpsertCache, Working, storage, channels
<1>2. Its(c) \in Records /\ Its(c).v = 2 /\ cmd[c].ids = {Its(c).id} /\ cmd[c].kind = "upsert"  BY <1>1, ItsRecord
<1>3. PICK rec \in Records : rec = Its(c)  BY <1>2
<1>4. PICK out : Joined(rec, out)  BY <1>1, <1>3, UpdateFacts
<1>5. rec.id \in Sessions /\ rec.v = 2 /\ cmd[c].ids = {rec.id}  BY <1>2, <1>3 DEF Records
<1>6. /\ cmd' \in CmdType /\ \A d \in Commands \ {c} : cmd'[d] = cmd[d]
      /\ cmd'[c].pc = "upsertEvict" /\ cmd'[c].kind = cmd[c].kind /\ cmd'[c].ids = cmd[c].ids /\ cmd'[c].gen = cmd[c].gen
  BY <1>1, SetCmdFacts DEF Working
<1>7. /\ OneHolder' /\ KindFollows' /\ \A d \in Commands \ {c} : cmd'[d].pc \notin Working
      /\ (\A d \in Commands : cmd'[d].gen <= generation)
      /\ colPc' \notin {"persist", "cache"} /\ holder' # NoOne
  BY <1>1, <1>2, <1>6, GoesOn DEF Working
<1>8. StoreTypeOK'  BY <1>1, <1>4, <1>6 DEF StoreTypeOK, Joined
<1>9. GenerationsInOrder'  BY <1>1, <1>6, <1>7, <1>8, InOrder DEF Working, GenerationsInOrder
<1>10. NoResurrection'  BY <1>1 DEF NoResurrection
<1>11. rec.id \notin faulty => row[rec.id] = 2  BY <1>1, <1>5 DEF HolderAgrees
<1>12. \A s \in Sessions \ (faulty \cup {rec.id}) : row[s] = version[s] /\ (s \notin stale => detail[s] \in {0, row[s]})
  BY <1>1, <1>5 DEF HolderAgrees, MatchOff
<1>13. ASSUME NEW s \in Sessions, s \notin faulty, s \notin evicted'
       PROVE  row[s] = version'[s] /\ (s \notin stale' => detail'[s] \in {0, row[s]})
  <2>1. s \notin out  BY <1>4, <1>13 DEF Joined
  <2>2. CASE s = rec.id  BY <1>4, <1>5, <1>11, <1>13, <2>1, <2>2 DEF Joined
  <2>3. CASE s # rec.id  BY <1>4, <1>12, <1>13, <2>1, <2>3 DEF Joined
  <2> QED BY <2>2, <2>3
<1>14. MatchOff(evicted)'  BY <1>1, <1>13 DEF MatchOff
<1>15. HolderAgrees'
  <2>1. ~Untouched'  BY <1>6, <1>7 DEF Untouched, Working
  <2>2. \A d \in Commands \ {c} : cmd'[d].pc \notin {"drop", "exceptDb", "upsertCache", "upsertEvict"}  BY <1>7 DEF Working
  <2> QED BY <1>6, <1>7, <1>14, <2>1, <2>2 DEF HolderAgrees
<1>16. ListedHasVersion' /\ FrontEndFollows'
  <2>1. ASSUME NEW s \in Sessions, version'[s] # 0 PROVE s \in Elems(summaries')  BY <1>4, <1>5, <2>1 DEF Joined, ListedHasVersion
  <2>2. shown' = Elems(summaries') \cup ghost' /\ ghost' \cap Elems(summaries') = {}  BY <1>4 DEF Joined, FrontEndFollows
  <2> QED BY <2>1, <2>2 DEF ListedHasVersion, FrontEndFollows, Elems
<1>17. BodiesFound'  BY <1>1 DEF BodiesFound
<1> QED BY <1>7, <1>8, <1>9, <1>10, <1>15, <1>16, <1>17

\* What the upsert pushed out loses its rows, and the lock is given back.
LEMMA UpsertEvictKeeps == ASSUME StoreInv, NEW c \in Commands, UpsertEvict(c) PROVE StoreInv'
<1> USE DEF StoreInv, WorkInv, AgreeInv
<1>1. /\ cmd[c].pc = "upsertEvict" /\ cmd[c].pc \in Working /\ Finish(c) /\ DeleteBestEffort(evicted) /\ evicted' = {}
      /\ UNCHANGED <<summaries, version, detail, sent, sessionChan, generation, colPc, colGen, batch, reader, shown, killGen, ghost>>
  BY DEF UpsertEvict, Working, memory, channels
<1>2. /\ row' \in [Sessions -> Versions] /\ rowGen' \in [Sessions -> Nat]
      /\ faulty \subseteq faulty' /\ stale \subseteq stale'
      /\ \A s \in Sessions \ evicted : row'[s] = row[s] /\ rowGen'[s] = rowGen[s]
      /\ \A s \in Sessions \cap evicted : s \notin faulty' =>
           row'[s] = 0 /\ s \notin Elems(summaries) /\ (s \notin stale' => detail[s] = 0)
      /\ BodiesFound => BodiesFound'
  BY <1>1, BestEffortFacts
<1>3. /\ cmd' \in CmdType /\ OneHolder' /\ KindFollows' /\ holder' = NoOne
      /\ (\A d \in Commands : cmd'[d].pc \notin Working)
      /\ (\A d \in Commands : cmd'[d].gen <= generation)
      /\ colPc' \notin {"persist", "cache"}
  BY <1>1, GivenBack
<1>4. StoreTypeOK'  BY <1>1, <1>2, <1>3 DEF StoreTypeOK
<1>5. GenerationsInOrder'  BY <1>1, <1>3, <1>4, InOrder DEF Working, GenerationsInOrder
<1>6. NoResurrection'  BY <1>1, <1>2 DEF NoResurrection
<1>7. ASSUME NEW s \in Sessions, s \notin faulty'
      PROVE  row'[s] = version[s] /\ (s \notin stale' => detail[s] \in {0, row'[s]})
  <2>1. CASE s \in evicted  BY <1>2, <1>7, <2>1 DEF ListedHasVersion
  <2>2. CASE s \notin evicted
    <3>1. row[s] = version[s] /\ (s \notin stale => detail[s] \in {0, row[s]})
      BY <1>1, <1>2, <1>7, <2>2 DEF HolderAgrees, MatchOff
    <3> QED BY <1>2, <2>2, <3>1
  <2> QED BY <2>1, <2>2
<1>8. HolderAgrees'
  <2>1. MatchOff({})'  BY <1>1, <1>7 DEF MatchOff
  <2> QED BY <1>1, <1>3, <2>1 DEF HolderAgrees, Working
<1>9. ListedHasVersion' /\ FrontEndFollows' /\ BodiesFound'  BY <1>1, <1>2 DEF ListedHasVersion, FrontEndFollows
<1> QED BY <1>3, <1>4, <1>5, <1>6, <1>8, <1>9

\* The collector is aborted: the lock is free, and what it had in hand is excused.
LEMMA AbortKeeps == ASSUME StoreInv, AbortCollector PROVE StoreInv'
<1> USE DEF StoreInv, WorkInv, AgreeInv
<1>1. /\ colPc' = "aborted" /\ sessionChan' = << >> /\ batch' = << >> /\ colGen' = 0
      /\ UNCHANGED <<row, rowGen, rowFile, files, summaries, version, detail, sent, generation, cmd, reader, shown, killGen, ghost, stale>>
  BY DEF AbortCollector, storage, memory
<1>2. << >> \in Seq(Records) /\ 0 \in Nat /\ 0 <= generation /\ Ids(<< >>) = {}  BY EmptySeq DEF StoreTypeOK, Ids
<1>3. CASE colPc \notin {"persist", "cache"}
  <2>1. UNCHANGED <<holder, evicted>> /\ faulty' = faulty  BY <1>2, <1>3 DEF AbortCollector, NoOrphan
  <2> QED BY <1>1, <1>2, <1>3, <2>1, QuietKeeps DEF StoreTypeOK
<1>4. CASE colPc \in {"persist", "cache"}
  <2>1. holder = "collector" /\ holder' = NoOne /\ \A c \in Commands : cmd[c].pc \notin Working
    BY <1>4, StoreAssumption DEF OneHolder, AbortCollector
  <2>2. /\ faulty \subseteq faulty' /\ evicted' = {} /\ evicted \subseteq faulty'
        /\ MatchOff(evicted)
    <3>1. CASE colPc = "persist"  BY <3>1 DEF AbortCollector, HolderAgrees, Untouched, MatchOff
    <3>2. CASE colPc = "cache"
      <4>1. batch = << >>  BY <3>2 DEF AbortCollector, AtAwait
      <4>2. MatchOff(evicted \cup Ids(batch)) /\ Ids(batch) = {}  BY <1>2, <3>2, <4>1 DEF HolderAgrees
      <4>3. orphan' = [recs |-> << >>, gen |-> colGen, out |-> evicted]  BY <3>2 DEF AbortCollector
      <4> QED BY <3>2, <4>2, <4>3 DEF AbortCollector, MatchOff
    <3> QED BY <1>4, <3>1, <3>2
  <2>3. StoreTypeOK'  BY <1>1, <1>2 DEF StoreTypeOK
  <2>4. OneHolder' /\ KindFollows'  BY <1>1, <2>1, StoreAssumption DEF OneHolder, KindFollows
  <2>5. GenerationsInOrder' /\ NoResurrection'  BY <1>1, <1>2, <2>1, <2>2 DEF GenerationsInOrder, NoResurrection, Working
  <2>6. HolderAgrees'
    <3>1. MatchOff({})'  BY <1>1, <2>2 DEF MatchOff
    <3> QED BY <1>1, <2>1, <2>2, <3>1 DEF HolderAgrees, Working
  <2>7. ListedHasVersion' /\ FrontEndFollows' /\ BodiesFound'  BY <1>1, <2>2 DEF ListedHasVersion, FrontEndFollows, BodiesFound
  <2> QED BY <2>3, <2>4, <2>5, <2>6, <2>7
<1> QED BY <1>3, <1>4

\* What the aborted collector had begun ends without the lock, over excused sessions only.
LEMMA OrphanKeeps == ASSUME StoreInv, OrphanExcused, OrphanEnds PROVE StoreInv'
<1> USE DEF StoreInv, WorkInv, AgreeInv
<1>1. UNCHANGED <<summaries, version, detail, sent, sessionChan, generation, holder, colPc, colGen, batch, evicted,
                  cmd, reader, shown, killGen, ghost>>
  BY DEF OrphanEnds, memory, channels
<1>2. /\ row' \in [Sessions -> Versions] /\ rowGen' \in [Sessions -> Nat]
      /\ faulty \subseteq faulty' /\ stale \subseteq stale'
      /\ \A s \in Sessions \ faulty' : row'[s] = row[s] /\ rowGen'[s] = rowGen[s]
      /\ BodiesFound => BodiesFound'
  <2>1. CASE Persist(orphan.recs, orphan.gen) /\ UNCHANGED stale
    <3>1. PICK lost \in SUBSET Ids(orphan.recs) : Stored(orphan.recs, orphan.gen, lost)  BY <2>1, PersistFacts DEF OrphanExcused
    <3>2. Ids(orphan.recs) \subseteq faulty  BY DEF OrphanExcused
    <3> QED BY <2>1, <3>1, <3>2 DEF Stored
  <2>2. CASE DeleteBestEffort(orphan.out)
    <3>1. orphan.out \subseteq faulty  BY DEF OrphanExcused
    <3> QED BY <2>2, <3>1, BestEffortFacts
  <2> QED BY <2>1, <2>2 DEF OrphanEnds
<1>3. StoreTypeOK'  BY <1>1, <1>2 DEF StoreTypeOK
<1>4. OneHolder' /\ KindFollows'  BY <1>1 DEF OneHolder, KindFollows
<1>5. GenerationsInOrder' /\ NoResurrection'  BY <1>1, <1>2 DEF GenerationsInOrder, NoResurrection
<1>6. \A X : MatchOff(X) => \A s \in Sessions \ (faulty' \cup X) : row'[s] = version'[s] /\ (s \notin stale' => detail'[s] \in {0, row'[s]})
  BY <1>1, <1>2 DEF MatchOff
<1>7. HolderAgrees'
  <2>1. Untouched' => evicted' = {} /\ MatchOff({})'  BY <1>1, <1>6 DEF HolderAgrees, Untouched, MatchOff
  <2>2. colPc' = "cache" =>
          /\ MatchOff(evicted \cup Ids(batch))'
          /\ \A s \in Sessions \ (faulty' \cup evicted') : \A i \in DOMAIN batch' : LastOf(batch', i, s) => row'[s] = batch'[i].v
    <3> SUFFICES ASSUME colPc = "cache"
                 PROVE /\ MatchOff(evicted \cup Ids(batch))'
                       /\ \A s \in Sessions \ (faulty' \cup evicted') : \A i \in DOMAIN batch' : LastOf(batch', i, s) => row'[s] = batch'[i].v
      BY <1>1
    <3>1. MatchOff(evicted \cup Ids(batch))'
      <4>1. MatchOff(evicted \cup Ids(batch)) /\ Ids(batch)' = Ids(batch)  BY <1>1 DEF HolderAgrees, Ids
      <4> QED BY <1>1, <1>6, <4>1 DEF MatchOff
    <3>2. \A s \in Sessions \ (faulty \cup evicted) : \A i \in DOMAIN batch : LastOf(batch, i, s) => row[s] = batch[i].v
      BY DEF HolderAgrees
    <3> QED BY <1>1, <1>2, <3>1, <3>2
  <2>3. \A c \in Commands :
          /\ cmd'[c].pc = "drop" => evicted' = {} /\ MatchOff(Covered(c))' /\ \A s \in Covered(c)' \ faulty' : row'[s] = 0
          /\ cmd'[c].pc = "exceptDb" => evicted' = {} /\ MatchOff(cmd[c].ids)' /\ \A s \in cmd'[c].ids : version'[s] = 0
          /\ cmd'[c].pc = "upsertCache" => evicted' = {} /\ MatchOff(cmd[c].ids)' /\ \A s \in cmd'[c].ids \ faulty' : row'[s] = 2
          /\ cmd'[c].pc = "upsertEvict" => MatchOff(evicted)'
    <3> SUFFICES ASSUME NEW c \in Commands
                 PROVE  /\ cmd[c].pc = "drop" => evicted = {} /\ MatchOff(Covered(c))' /\ \A s \in Covered(c) \ faulty' : row'[s] = 0
                        /\ cmd[c].pc = "exceptDb" => evicted = {} /\ MatchOff(cmd[c].ids)' /\ \A s \in cmd[c].ids : version[s] = 0
                        /\ cmd[c].pc = "upsertCache" => evicted = {} /\ MatchOff(cmd[c].ids)' /\ \A s \in cmd[c].ids \ faulty' : row'[s] = 2
                        /\ cmd[c].pc = "upsertEvict" => MatchOff(evicted)'
      BY <1>1 DEF Covered
    <3>1. Covered(c) \subseteq Sessions /\ cmd[c].ids \subseteq Sessions  BY DEF Covered, StoreTypeOK, CmdType
    <3>2. cmd[c].pc = "drop" => evicted = {} /\ MatchOff(Covered(c))' /\ \A s \in Covered(c) \ faulty' : row'[s] = 0
      BY <1>1, <1>2, <1>6, <3>1 DEF HolderAgrees, MatchOff, Covered
    <3>3. cmd[c].pc = "exceptDb" => evicted = {} /\ MatchOff(cmd[c].ids)' /\ \A s \in cmd[c].ids : version[s] = 0
      BY <1>1, <1>6 DEF HolderAgrees, MatchOff
    <3>4. cmd[c].pc = "upsertCache" => evicted = {} /\ MatchOff(cmd[c].ids)' /\ \A s \in cmd[c].ids \ faulty' : row'[s] = 2
      BY <1>1, <1>2, <1>6, <3>1 DEF HolderAgrees, MatchOff
    <3>5. cmd[c].pc = "upsertEvict" => MatchOff(evicted)'  BY <1>1, <1>6 DEF HolderAgrees, MatchOff
    <3> QED BY <3>2, <3>3, <3>4, <3>5
  <2> QED BY <2>1, <2>2, <2>3 DEF HolderAgrees
<1>8. ListedHasVersion' /\ FrontEndFollows' /\ BodiesFound'  BY <1>1, <1>2 DEF ListedHasVersion, FrontEndFollows
<1> QED BY <1>3, <1>4, <1>5, <1>7, <1>8

\* An abort excuses what it leaves behind, and nobody else makes an orphan or takes an
\* excuse back.
LEMMA OrphanStep == StoreInv /\ OrphanExcused /\ [StoreNext]_storeVars => OrphanExcused'
<1> SUFFICES ASSUME StoreInv, OrphanExcused, [StoreNext]_storeVars PROVE OrphanExcused'  OBVIOUS
<1>1. << >> \in Seq(Records) /\ Ids(<< >>) = {} /\ 0 \in Nat  BY EmptySeq DEF Ids
<1>2. CASE AbortCollector
  <2>1. batch \in Seq(Records) /\ colGen \in Nat  BY DEF StoreInv, WorkInv, StoreTypeOK
  <2>2. /\ orphan' \in {[recs |-> batch, gen |-> colGen, out |-> {}], [recs |-> << >>, gen |-> colGen, out |-> evicted], NoOrphan}
        /\ faulty' = faulty \cup Ids(orphan'.recs) \cup orphan'.out
    BY <1>2 DEF AbortCollector
  <2>3. orphan'.recs \in Seq(Records) /\ orphan'.gen \in Nat
    <3>1. CASE orphan' = [recs |-> batch, gen |-> colGen, out |-> {}]  BY <2>1, <3>1
    <3>2. CASE orphan' = [recs |-> << >>, gen |-> colGen, out |-> evicted]  BY <1>1, <2>1, <3>2
    <3>3. CASE orphan' = NoOrphan  BY <1>1, <3>3 DEF NoOrphan
    <3> QED BY <2>2, <3>1, <3>2, <3>3
  <2> QED BY <2>2, <2>3 DEF OrphanExcused, Ids
<1>3. CASE OrphanEnds  BY <1>1, <1>3 DEF OrphanEnds, OrphanExcused, NoOrphan, Ids
<1>4. CASE orphan' = orphan /\ faulty \subseteq faulty'  BY <1>4 DEF OrphanExcused, Ids
<1>5. CASE UNCHANGED storeVars  BY <1>4, <1>5 DEF storeVars, collector, history
<1>6. ASSUME NEW s \in Sessions, SendRecord(s) \/ SendFrame(s) \/ ReadHit(s) \/ ReadRow(s) \/ SetFocusedHosts({s})
      PROVE  OrphanExcused'
  BY <1>4, <1>6 DEF SendRecord, SendFrame, ReadHit, ReadRow, SetFocusedHosts, collector, history
<1>7. CASE StopListener \/ ConnectionsEnd \/ ReadSummary \/ ReadFill \/ BodyRescan
  BY <1>4, <1>7 DEF StopListener, ConnectionsEnd, ReadSummary, ReadFill, BodyRescan, collector, history
<1>8. ASSUME NEW i \in DOMAIN inserts, InsertFrame(i) PROVE OrphanExcused'  BY <1>4, <1>8 DEF InsertFrame, history
<1>9. CASE CollectorStep
  <2>1. orphan' = orphan
    BY <1>9 DEF CollectorStep, CollectorTop, CollectSessions, CollectFrame, CollectorNone, Backpressure, CollectorLock,
                CollectorPersist, CollectorCache, CollectorEvict, CollectorExit
  <2>2. faulty \subseteq faulty'
    BY <1>9 DEF CollectorStep, CollectorTop, CollectSessions, CollectFrame, CollectorNone, Backpressure, CollectorLock,
                CollectorPersist, CollectorCache, CollectorEvict, CollectorExit, Persist, DeleteBestEffort, history
  <2> QED BY <1>4, <2>1, <2>2
<1>10. ASSUME NEW c \in Commands, \/ Destroy(c, "clear", {}) \/ CommandStep(c)
                                \/ \E s \in Sessions : Destroy(c, "delete", {s}) \/ Destroy(c, "except", {s}) \/ UpsertCall(c, s)
       PROVE  OrphanExcused'
  <2>1. orphan' = orphan
    BY <1>10 DEF Destroy, UpsertCall, CommandStep, CommandLock, CommandDb, CommandDrop, ExceptCache, ExceptDb, UpsertDb,
                 UpsertCache, UpsertEvict, collector
  <2>2. faulty \subseteq faulty'
    BY <1>10 DEF Destroy, UpsertCall, CommandStep, CommandLock, CommandDb, CommandDrop, ExceptCache, ExceptDb, UpsertDb,
                 UpsertCache, UpsertEvict, Persist, DeleteBestEffort, history
  <2> QED BY <1>4, <2>1, <2>2
<1> QED BY <1>2, <1>3, <1>5, <1>6, <1>7, <1>8, <1>9, <1>10 DEF StoreNext

\* Every step of the store keeps the invariant.
LEMMA StoreStepKeeps == StoreInv /\ OrphanExcused /\ [StoreNext]_storeVars => StoreInv'
<1> SUFFICES ASSUME StoreInv, OrphanExcused, [StoreNext]_storeVars PROVE StoreInv'  OBVIOUS
<1>1. CASE UNCHANGED storeVars
  <2>1. StoreTypeOK /\ colGen <= generation  BY DEF StoreInv, WorkInv, GenerationsInOrder
  <2> QED BY <1>1, <2>1, QuietKeeps DEF storeVars, storage, memory, channels, collector, history, StoreTypeOK
<1>2. ASSUME NEW s \in Sessions, SendRecord(s) \/ SendFrame(s) \/ ReadHit(s) \/ ReadRow(s) \/ SetFocusedHosts({s})
      PROVE  StoreInv'
  BY <1>2, ProxyKeeps, ReadKeeps
<1>3. CASE StopListener \/ ConnectionsEnd \/ AbortCollector \/ OrphanEnds \/ ReadSummary \/ ReadFill \/ BodyRescan \/ \E i \in DOMAIN inserts : InsertFrame(i)
  BY <1>3, ProxyKeeps, ReadKeeps, FillKeeps, RescanKeeps, CollectKeeps, AbortKeeps, OrphanKeeps
<1>4. CASE CollectorStep
  BY <1>4, CollectKeeps, CollectorLockKeeps, CollectorPersistKeeps, CollectorCacheKeeps, CollectorEvictKeeps DEF CollectorStep
<1>5. ASSUME NEW c \in Commands, Destroy(c, "clear", {}) PROVE StoreInv'  BY <1>5, DestroyKeeps
<1>6. ASSUME NEW c \in Commands, NEW s \in Sessions, Destroy(c, "delete", {s}) \/ Destroy(c, "except", {s}) \/ UpsertCall(c, s)
      PROVE  StoreInv'
  BY <1>6, DestroyKeeps, UpsertCallKeeps
<1>7. ASSUME NEW c \in Commands, CommandStep(c) PROVE StoreInv'
  BY <1>7, CommandLockKeeps, CommandDbKeeps, CommandDropKeeps, ExceptCacheKeeps, ExceptDbKeeps, UpsertDbKeeps,
     UpsertCacheKeeps, UpsertEvictKeeps DEF CommandStep
<1> QED BY <1>1, <1>2, <1>3, <1>4, <1>5, <1>6, <1>7 DEF StoreNext

\* In every state of the store its one lock has one holder, generations are in order, and
\* what the holder has not finished is all that differs between the list and the rows.
THEOREM StoreInvariant == StoreSpec => []StoreInv
<1>1. StoreInit => StoreInv /\ OrphanExcused
  <2> SUFFICES ASSUME StoreInit PROVE OrphanExcused  BY StoreStarts
  <2>1. orphan = NoOrphan /\ << >> \in Seq(Records) /\ Ids(<< >>) = {}  BY EmptySeq DEF StoreInit, Ids
  <2>2. orphan.recs = << >> /\ orphan.gen = 0 /\ orphan.out = {}  BY <2>1 DEF NoOrphan
  <2> QED BY <2>1, <2>2 DEF OrphanExcused
<1>2. StoreInv /\ OrphanExcused /\ [StoreNext]_storeVars => StoreInv' /\ OrphanExcused'  BY StoreStepKeeps, OrphanStep
<1> QED BY <1>1, <1>2, PTL DEF StoreSpec

\* Whenever nobody holds session_lifecycle_lock, the summary list, the cached details, the
\* front end, the rows of SQLite and the body files agree, for any number of sessions and
\* concurrent commands and any capacities (bootstrap/mod.rs, cache.rs).
THEOREM StoreAgreesAlways == StoreSpec => []StoreAgrees
<1>1. StoreInv => StoreAgrees
  <2> SUFFICES ASSUME StoreInv PROVE StoreAgrees  OBVIOUS
  <2>1. holder = NoOne => MatchOff({})  BY DEF StoreInv, AgreeInv, HolderAgrees, Untouched
  <2>2. ListMatchesRows  BY <2>1 DEF ListMatchesRows, MatchOff
  <2>3. CachedDetailFollowsRow  BY <2>1 DEF CachedDetailFollowsRow, MatchOff
  <2>4. ShownMatchesList /\ NoDanglingBody
    BY DEF StoreInv, AgreeInv, FrontEndFollows, BodiesFound, ShownMatchesList, NoDanglingBody
  <2> QED BY <2>2, <2>3, <2>4 DEF StoreAgrees
<1> QED BY <1>1, StoreInvariant, PTL

\* What SQLite holds of a session was received at or after the generation of the last
\* command that deleted it: no batch taken before a clear is stored after it.
THEOREM NothingResurrected == StoreSpec => []NoResurrection
<1>1. StoreInv => NoResurrection  BY DEF StoreInv
<1> QED BY <1>1, StoreInvariant, PTL

-----------------------------------------------------------------------------
(* A connection and its tunnel (Tunnel).                                   *)

\* The states, decisions and streams of a connection.
ConnStates == {"waiting", "probe", "routed", "tls", "dial", "forward", "relay", "over"}
Modes == {None, "plain", "mitm", "blind", "compose", "probe"}
Outcomes == {None, "rejected", "bad_request", "served", "client_tls_rejected", "client_tls_untrusted_root", "other", "forwarded",
             "upstream_error", "timeout", "client_gone", "done", "idle", "error", "invalid", "sent", "failed", "body_failed",
             "reached", "unreached"}
HeadTokens == Tokens \cup {T("head", "plain")}
TunnelConns ==
  [at : ConnStates, mode : Modes, permit : BOOLEAN, answer : {None, "200", "400", "404", "502", "504"},
   route : {None, "direct", "proxy"}, creds : {None, "http", "https", "socks5"},
   verified : BOOLEAN, h2 : BOOLEAN, buffered : Seq(HeadTokens), reported : BOOLEAN, outcome : Outcomes]
Streams == [Directions -> Seq(Tokens)]
TunnelRelays ==
  [at : {"off", "top", "select", "write"}, src : Streams, left : Streams, got : Streams, eof : SUBSET Directions,
   held : (Directions \cup {None}) \X Seq(Tokens), quiet : Nat]

\* What was read and is still to be written in a direction.
HeldFor(r, d) == IF r.held[1] = d THEN r.held[2] ELSE << >>

\* A relay loses, repeats and reorders nothing: what was written, what is held and what is
\* still to be read make up the stream; a direction at its end has nothing left.
Flow(r) ==
  /\ \A d \in Directions : r.got[d] \o HeldFor(r, d) \o r.left[d] = r.src[d]
  /\ \A d \in r.eof : r.left[d] = << >> /\ r.held[1] # d
  /\ r.at = "write" => r.held[1] \in Directions
  /\ r.at # "write" => r.held[1] = None

\* Where a connection is and what has been decided about it by then.
Placed(c) ==
  /\ c.at # "over" => c.outcome = None
  /\ c.at \in {"waiting", "probe", "routed"} => c.mode = None /\ c.answer = None
  /\ c.at \in {"waiting", "probe", "routed", "tls", "dial", "forward"} => c.route = None /\ c.creds = None
  /\ c.at = "tls" => c.mode = "mitm"
  /\ c.at = "dial" => c.mode = "blind" /\ c.answer = None
  /\ c.at = "forward" => c.mode \in {"plain", "mitm"}
  /\ c.at = "relay" => c.mode = "blind"

\* What was read past the head is the beginning of what the client sends.
Prefixed(t, c) == c.at \in {"routed", "tls", "dial"} => \E k \in 0..Len(t.client) : c.buffered = SubSeq(t.client, 1, k)

\* What has been decided about a connection is what the property asks of it.
Decided(t, c) ==
  /\ c.mode = "mitm" => should_intercept(Policy(t), t.host)
  /\ c.mode = "blind" /\ c.answer = "200" => c.route # None
  /\ c.route = "direct" /\ c.mode # "compose" => ~Proxied(t)
  /\ c.mode = "plain" => Head(c.buffered) = T("head", "plain") /\ IsPrefix(Tail(c.buffered), t.client)
  /\ c.creds = "https" => t.proxyCert = "trusted"
  /\ c.outcome = "forwarded" /\ c.mode = "mitm" /\ should_verify(t) => t.originCert = "trusted"

\* The relay runs for the connection that is in it; one that ended well has lost nothing.
Relayed(c, r) ==
  /\ r.at # "off" <=> c.at = "relay"
  /\ r.at # "off" \/ c.outcome \in {"idle", "done"} => Flow(r)
  /\ c.outcome = "done" => r.eof = Directions

Tunneled(t, c, r) ==
  /\ t \in TunnelCases /\ c \in TunnelConns /\ r \in TunnelRelays
  /\ Placed(c) /\ Prefixed(t, c) /\ Decided(t, c) /\ Relayed(c, r)

TunnelInv == Tunneled(tcase, conn, relay)

\* A stream splits at one place only.
LEMMA PayloadAt ==
  ASSUME NEW s \in Seq(Tokens), NEW n \in 0..Len(s), SplitsAt(s, n)
  PROVE  Payload(s) = SubSeq(s, n + 1, Len(s))
<1>1. ASSUME NEW m \in 0..Len(s), SplitsAt(s, m) PROVE m = n
  <2>1. \A i \in 1..Len(s) : i > n <=> i > m  BY <1>1 DEF SplitsAt
  <2>2. Len(s) \in Nat  OBVIOUS
  <2>3. ASSUME m < n PROVE FALSE
    <3>1. n \in 1..Len(s)  BY <2>2, <2>3
    <3> QED  BY <2>1, <2>3, <3>1
  <2>4. ASSUME n < m PROVE FALSE
    <3>1. m \in 1..Len(s)  BY <2>2, <2>4
    <3> QED  BY <2>1, <2>4, <3>1
  <2> QED  BY <2>2, <2>3, <2>4
<1>2. (CHOOSE m \in 0..Len(s) : SplitsAt(s, m)) = n  BY <1>1
<1> QED  BY <1>2 DEF Payload

\* The payload is a stream of tokens.
LEMMA PayloadType ==
  ASSUME NEW s \in Seq(Tokens), Orderly(s)
  PROVE  Payload(s) \in Seq(Tokens)
<1>1. PICK n \in 0..Len(s) : SplitsAt(s, n)  BY DEF Orderly
<1>2. Payload(s) = SubSeq(s, n + 1, Len(s))  BY <1>1, PayloadAt
<1> QED  BY <1>2

\* The rest of a stream after its first k tokens.
LEMMA RestOf ==
  ASSUME NEW S, NEW s \in Seq(S), NEW k \in 0..Len(s)
  PROVE  /\ SubSeq(s, k + 1, Len(s)) \in Seq(S)
         /\ SubSeq(s, k + 1, Len(s)) = << >> <=> k = Len(s)
         /\ k < Len(s) => /\ Head(SubSeq(s, k + 1, Len(s))) = s[k + 1]
                          /\ Tail(SubSeq(s, k + 1, Len(s))) = SubSeq(s, k + 2, Len(s))
<1>1. Len(s) \in Nat /\ k \in Nat  OBVIOUS
<1>2. SubSeq(s, k + 1, Len(s)) \in Seq(S) /\ Len(SubSeq(s, k + 1, Len(s))) = Len(s) - k  BY <1>1
<1>3. SubSeq(s, k + 1, Len(s)) = << >> <=> k = Len(s)
  <2>1. PICK u \in Seq(S) : u = SubSeq(s, k + 1, Len(s))  BY <1>2
  <2>2. Len(u) = Len(s) - k  BY <1>2, <2>1
  <2>3. u = << >> <=> Len(u) = 0  BY <2>1, EmptySeq
  <2> QED  BY <1>1, <2>1, <2>2, <2>3
<1>4. ASSUME k < Len(s)
      PROVE  /\ Head(SubSeq(s, k + 1, Len(s))) = s[k + 1]
             /\ Tail(SubSeq(s, k + 1, Len(s))) = SubSeq(s, k + 2, Len(s))
  <2>1. k + 1 \in 1..Len(s) /\ Len(s) \in (k + 1)..Len(s) /\ (k + 1) + 1 = k + 2  BY <1>1, <1>4
  <2> QED  BY <2>1, HeadTailOfSubSeq
<1> QED  BY <1>2, <1>3, <1>4

\* A CONNECT through an HTTP proxy leaves exactly the payload in the stream.
LEMMA ConnectLeavesPayload ==
  ASSUME NEW in \in Seq(Tokens), Orderly(in), NEW end, NEW creds,
         http_connect_handshake(in, end, creds).out = "connected"
  PROVE  http_connect_handshake(in, end, creds).rest = Payload(in)
<1> DEFINE Interim(i) == i <= Len(in) /\ parse_status_code(in[i]) = "1xx"
           Stops(k) == ~Interim(k + 1) /\ \A i \in 1..k : Interim(i)
           n == CHOOSE k \in 0..Len(in) : Stops(k)
           ahead == SubSeq(in, n + 1, Len(in))
<1>0. Len(in) \in Nat  OBVIOUS
<1>1. \E k \in 0..Len(in) : Stops(k)
  <2> DEFINE E == {k \in 0..Len(in) : ~Interim(k + 1)}
  <2>1. E \subseteq Nat /\ Len(in) \in E  BY <1>0
  <2>2. PICK k \in E : \A m \in E : ~(<<m, k>> \in OpToRel(<, Nat))  BY <2>1, WFMin, NatLessThanWellFounded
  <2>3. \A m \in E : ~(m < k)  BY <2>1, <2>2 DEF OpToRel
  <2>4. ASSUME NEW i \in 1..k PROVE Interim(i)
    <3>0. k \in 0..Len(in)  BY <2>2
    <3>1. i - 1 \in 0..Len(in) /\ i - 1 < k /\ (i - 1) + 1 = i  BY <1>0, <3>0
    <3>2. i - 1 \notin E  BY <2>3, <3>1
    <3> QED  BY <3>1, <3>2
  <2>5. k \in 0..Len(in) /\ ~Interim(k + 1)  BY <2>2
  <2> QED  BY <2>4, <2>5
<1>2. n \in 0..Len(in) /\ Stops(n)  BY <1>1
<1> HIDE DEF n, Stops
<1>3. http_connect_handshake(in, end, creds) =
        IF n >= MaxInterim THEN Dialed("failed", ahead, creds)
        ELSE IF ahead = << >> THEN Starved(ahead, end, creds)
        ELSE LET r == read_connect_response_head(ahead) IN
             Dialed(IF parse_status_code(r.head) = "2xx" THEN "connected" ELSE "failed", r.rest, creds)
  BY DEF http_connect_handshake, n, Stops
<1>4. ~(n >= MaxInterim)  BY <1>3 DEF Dialed
<1>5. ahead # << >>
  <2>1. Starved(ahead, end, creds).out # "connected"  BY DEF Starved, Dialed
  <2> QED  BY <1>3, <1>4, <2>1
<1>6. http_connect_handshake(in, end, creds) =
        Dialed(IF parse_status_code(Head(ahead)) = "2xx" THEN "connected" ELSE "failed", Tail(ahead), creds)
  BY <1>3, <1>4, <1>5 DEF read_connect_response_head
<1>7. parse_status_code(Head(ahead)) = "2xx" /\ http_connect_handshake(in, end, creds).rest = Tail(ahead)
  <2>1. PICK h, rest : h = parse_status_code(Head(ahead)) /\ rest = Tail(ahead)  OBVIOUS
  <2>2. PICK o : o = IF h = "2xx" THEN "connected" ELSE "failed"  OBVIOUS
  <2>3. http_connect_handshake(in, end, creds) = Dialed(o, rest, creds)  BY <1>6, <2>1, <2>2
  <2>4. http_connect_handshake(in, end, creds).out = o /\ http_connect_handshake(in, end, creds).rest = rest  BY <2>3 DEF Dialed
  <2> QED  BY <2>1, <2>2, <2>4
<1>8. n < Len(in) /\ Head(ahead) = in[n + 1] /\ Tail(ahead) = SubSeq(in, n + 2, Len(in))  BY <1>0, <1>2, <1>5, RestOf
<1>9. in[n + 1] = T("status", "2xx")
  <2>1. n + 1 \in 1..Len(in)  BY <1>0, <1>2, <1>8
  <2>2. PICK t \in Tokens : t = in[n + 1]  BY <2>1
  <2>3. parse_status_code(t) = "2xx"  BY <1>7, <1>8, <2>2
  <2>4. t[1] = "status" /\ t[2] = "2xx"  BY <2>3 DEF parse_status_code
  <2>5. t = <<"status", "2xx">>  BY <2>4 DEF Tokens
  <2> QED  BY <2>2, <2>5 DEF T
<1>10. PICK m \in 0..Len(in) : SplitsAt(in, m) /\ \A i \in 1..Len(in) : in[i] = T("status", "2xx") => m = i  BY DEF Orderly
<1>11. m = n + 1  BY <1>0, <1>2, <1>8, <1>9, <1>10
<1>12. Payload(in) = SubSeq(in, n + 2, Len(in))  BY <1>0, <1>2, <1>10, <1>11, PayloadAt
<1> QED  BY <1>7, <1>8, <1>12

\* The last message of a SOCKS5 handshake leaves exactly the payload in the stream.
LEMMA BoundLeavesPayload ==
  ASSUME NEW in \in Seq(Tokens), Orderly(in), NEW i \in 1..Len(in), NEW end, NEW creds,
         in[i][1] = "reply",
         consume_socks5_bound_address(SubSeq(in, i + 1, Len(in)), end, creds, in[i][2]).out = "connected"
  PROVE  consume_socks5_bound_address(SubSeq(in, i + 1, Len(in)), end, creds, in[i][2]).rest = Payload(in)
<1> DEFINE ahead == SubSeq(in, i + 1, Len(in))
<1>0. Len(in) \in Nat /\ i \in 0..Len(in)  OBVIOUS
<1>1. PICK kind : kind = in[i][2]  OBVIOUS
<1>2. PICK r : r = consume_socks5_bound_address(ahead, end, creds, kind)  OBVIOUS
<1>3. r.out = "connected"  BY <1>1, <1>2
<1>4. kind # "unknown"  BY <1>2, <1>3 DEF consume_socks5_bound_address, Dialed
<1>5. ahead # << >>
  <2>1. Starved(ahead, end, creds).out # "connected"  BY DEF Starved, Dialed
  <2> QED  BY <1>2, <1>3, <1>4, <2>1 DEF consume_socks5_bound_address
<1>6. r.rest = Tail(ahead)
  <2>1. PICK rest : rest = Tail(ahead)  OBVIOUS
  <2>2. r = Dialed("connected", rest, creds)  BY <1>2, <1>4, <1>5, <2>1 DEF consume_socks5_bound_address
  <2> QED  BY <2>1, <2>2 DEF Dialed
<1>7. i < Len(in) /\ Tail(ahead) = SubSeq(in, i + 2, Len(in))  BY <1>0, <1>5, RestOf
<1>8. PICK m \in 0..Len(in) : /\ SplitsAt(in, m)
                              /\ \A j \in 1..Len(in) : in[j][1] = "reply" /\ in[j][2] # "unknown" /\ j < Len(in) => m = j + 1
  BY DEF Orderly
<1>9. m = i + 1  BY <1>1, <1>4, <1>7, <1>8
<1>10. Payload(in) = SubSeq(in, i + 2, Len(in))  BY <1>0, <1>8, <1>9, PayloadAt
<1> QED  BY <1>1, <1>2, <1>6, <1>7, <1>10

\* So does the request that ends it, wherever the handshake has got to by then.
LEMMA RequestLeavesPayload ==
  ASSUME NEW in \in Seq(Tokens), Orderly(in), NEW k \in 0..Len(in), NEW end, NEW creds, NEW target,
         Socks5Request(SubSeq(in, k + 1, Len(in)), end, creds, target).out = "connected"
  PROVE  Socks5Request(SubSeq(in, k + 1, Len(in)), end, creds, target).rest = Payload(in)
<1> DEFINE ahead == SubSeq(in, k + 1, Len(in))
<1>0. Len(in) \in Nat  OBVIOUS
<1>1. PICK r : r = Socks5Request(ahead, end, creds, target)  OBVIOUS
<1>2. r.out = "connected"  BY <1>1
<1>3. target # "long"  BY <1>1, <1>2 DEF Socks5Request, Dialed
<1>4. r = Socks5Reply(ahead, end, creds)  BY <1>1, <1>3 DEF Socks5Request
<1>5. ahead # << >>
  <2>1. Starved(ahead, end, creds).out # "connected"  BY DEF Starved, Dialed
  <2> QED  BY <1>2, <1>4, <2>1 DEF Socks5Reply
<1>6. k < Len(in) /\ Head(ahead) = in[k + 1] /\ Tail(ahead) = SubSeq(in, k + 2, Len(in))  BY <1>0, <1>5, RestOf
<1>7. Head(ahead)[1] = "reply"  BY <1>2, <1>4, <1>5 DEF Socks5Reply, Dialed
<1>8. r = consume_socks5_bound_address(SubSeq(in, k + 2, Len(in)), end, creds, in[k + 1][2])
  BY <1>4, <1>5, <1>6, <1>7 DEF Socks5Reply
<1>9. PICK i \in 1..Len(in) : i = k + 1 /\ k + 2 = i + 1  BY <1>0, <1>6
<1>10. r = consume_socks5_bound_address(SubSeq(in, i + 1, Len(in)), end, creds, in[i][2]) /\ in[i][1] = "reply"
  BY <1>6, <1>7, <1>8, <1>9
<1>11. r.rest = Payload(in)  BY <1>2, <1>10, BoundLeavesPayload
<1> QED  BY <1>1, <1>11

\* A CONNECT through a SOCKS5 proxy leaves exactly the payload in the stream.
LEMMA SocksLeavesPayload ==
  ASSUME NEW in \in Seq(Tokens), Orderly(in), NEW end, NEW offers, NEW fit, NEW target,
         socks5_handshake(in, end, offers, fit, target).out = "connected"
  PROVE  socks5_handshake(in, end, offers, fit, target).rest = Payload(in)
<1>0. Len(in) \in Nat  OBVIOUS
<1>1. PICK r : r = socks5_handshake(in, end, offers, fit, target)  OBVIOUS
<1>2. r.out = "connected"  BY <1>1
<1>3. in # << >>
  <2>1. Starved(in, end, FALSE).out # "connected"  BY DEF Starved, Dialed
  <2> QED  BY <1>1, <1>2, <2>1 DEF socks5_handshake
<1>4. Len(in) >= 1 /\ Tail(in) = SubSeq(in, 2, Len(in))  BY <1>0, <1>3, EmptySeq, TailIsSubSeq
<1>5. CASE Head(in) = T("method", "none")
  <2>1. Head(in) # T("method", "password")  BY <1>5 DEF T
  <2>2. r = Socks5Request(Tail(in), end, FALSE, target)  BY <1>1, <1>3, <1>5, <2>1 DEF socks5_handshake
  <2>3. PICK k \in 0..Len(in) : k = 1 /\ k + 1 = 2  BY <1>0, <1>4
  <2>4. r = Socks5Request(SubSeq(in, k + 1, Len(in)), end, FALSE, target)  BY <1>4, <2>2, <2>3
  <2>5. r.rest = Payload(in)  BY <1>2, <2>4, RequestLeavesPayload
  <2> QED  BY <1>1, <2>5
<1>6. CASE Head(in) # T("method", "none") /\ Head(in) = T("method", "password") /\ offers
  <2>1. PICK rest \in Seq(Tokens) : rest = Tail(in)  BY <1>3, HeadTailProperties
  <2>2. r = socks5_username_password_auth(rest, end, target, fit)  BY <1>1, <1>3, <1>6, <2>1 DEF socks5_handshake
  <2>30. fit  BY <1>2, <2>2 DEF socks5_username_password_auth, Dialed
  <2>3. rest # << >>
    <3>1. Starved(rest, end, TRUE).out # "connected"  BY DEF Starved, Dialed
    <3> QED  BY <1>2, <2>2, <2>30, <3>1 DEF socks5_username_password_auth
  <2>4. Head(rest) = T("auth", "ok")  BY <1>2, <2>2, <2>3, <2>30 DEF socks5_username_password_auth, Dialed
  <2>5. r = Socks5Request(Tail(rest), end, TRUE, target)  BY <2>2, <2>3, <2>4, <2>30 DEF socks5_username_password_auth
  <2>6. PICK j \in 0..Len(in) : j = 1 /\ j + 1 = 2 /\ j + 2 = 3  BY <1>0, <1>4
  <2>7. rest = SubSeq(in, j + 1, Len(in))  BY <1>4, <2>1, <2>6
  <2>8. j < Len(in) /\ Tail(rest) = SubSeq(in, j + 2, Len(in))  BY <1>0, <2>3, <2>6, <2>7, RestOf
  <2>9. PICK k \in 0..Len(in) : k = 2 /\ k + 1 = 3  BY <1>0, <2>6, <2>8
  <2>10. r = Socks5Request(SubSeq(in, k + 1, Len(in)), end, TRUE, target)  BY <2>5, <2>6, <2>8, <2>9
  <2>11. r.rest = Payload(in)  BY <1>2, <2>10, RequestLeavesPayload
  <2> QED  BY <1>1, <2>11
<1>7. CASE Head(in) # T("method", "none") /\ ~(Head(in) = T("method", "password") /\ offers)
  <2>1. PICK rest : rest = Tail(in)  OBVIOUS
  <2>2. r = Dialed("failed", rest, FALSE)  BY <1>1, <1>3, <1>7, <2>1 DEF socks5_handshake
  <2> QED  BY <1>2, <2>2 DEF Dialed
<1> QED  BY <1>5, <1>6, <1>7

\* Whoever is dialed, a tunnel that is up starts with the payload, and an HTTPS proxy that
\* is not trusted is sent no credentials.
LEMMA DialLeavesPayload ==
  ASSUME NEW c \in TunnelCases
  PROVE  /\ dial_target(c).dial.out = "connected" => dial_target(c).dial.rest = Payload(c.says)
         /\ dial_target(c).dial.creds /\ Proxy(c).proto = "https" => c.proxyCert = "trusted" \/ ~Proxied(c)
         /\ ~Proxied(c) => ~dial_target(c).dial.creds
         /\ dial_target(c).route = IF Proxied(c) THEN "proxy" ELSE "direct"
<1>0. /\ c.says \in Seq(Tokens) /\ Orderly(c.says)
      /\ c.proxy.proto \in {None, "http", "https", "socks5"}
  BY TunnelCaseAssumption
<1>1. CASE ~Proxied(c)
  <2>1. PICK o, rest : /\ o = IF connect_first_reachable(c.reach.origin) THEN "connected" ELSE "failed"
                       /\ rest = Payload(c.says)
    OBVIOUS
  <2>2. dial_target(c) = [dial |-> Dialed(o, rest, FALSE), route |-> "direct"]  BY <1>1, <2>1 DEF dial_target, dial_direct
  <2>3. dial_target(c).dial = Dialed(o, rest, FALSE) /\ dial_target(c).route = "direct"  BY <2>2
  <2>4. dial_target(c).dial.rest = rest /\ dial_target(c).dial.creds = FALSE  BY <2>3 DEF Dialed
  <2> QED  BY <1>1, <2>1, <2>3, <2>4
<1>2. CASE Proxied(c)
  <2>1. PICK target : target = TargetAddress(c)  OBVIOUS
  <2>2. PICK d : d = dial_via_proxy(c, target)  OBVIOUS
  <2>3. dial_target(c) = [dial |-> d, route |-> "proxy"]  BY <1>2, <2>1, <2>2 DEF dial_target
  <2>4. dial_target(c).dial = d /\ dial_target(c).route = "proxy"  BY <2>3
  <2>5. Proxy(c).proto \in {"http", "https", "socks5"}  BY <1>0, <1>2 DEF Proxied, Proxy, proxy_to_runtime_config, None
  <2>6. PICK p, u, says, end : p = Proxy(c).proto /\ u = (Proxy(c).username # None) /\ says = c.says /\ end = c.ends  OBVIOUS
  <2>7. ASSUME ~c.reach.proxy PROVE (d.out = "connected" => d.rest = Payload(c.says)) /\ ~d.creds
    BY <2>2, <2>7 DEF dial_via_proxy, Dialed
  <2>8. ASSUME c.reach.proxy, p = "http" PROVE d.out = "connected" => d.rest = Payload(c.says)
    <3>1. d = http_connect_handshake(says, end, u)  BY <2>2, <2>6, <2>8 DEF dial_via_proxy
    <3> QED  BY <1>0, <2>6, <3>1, ConnectLeavesPayload
  <2>9. ASSUME c.reach.proxy, p = "https"
        PROVE  (d.out = "connected" => d.rest = Payload(c.says)) /\ (d.creds => c.proxyCert = "trusted")
    <3>1. CASE ~tls_wrap_proxy_hop(c)
      <4>1. d = Dialed("failed", says, FALSE)  BY <2>2, <2>6, <2>9, <3>1 DEF dial_via_proxy
      <4> QED  BY <4>1 DEF Dialed
    <3>2. CASE tls_wrap_proxy_hop(c)
      <4>1. d = http_connect_handshake(says, end, u)  BY <2>2, <2>6, <2>9, <3>2 DEF dial_via_proxy
      <4>2. d.out = "connected" => d.rest = Payload(c.says)  BY <1>0, <2>6, <4>1, ConnectLeavesPayload
      <4> QED  BY <3>2, <4>2 DEF tls_wrap_proxy_hop
    <3> QED  BY <3>1, <3>2
  <2>10. ASSUME c.reach.proxy, p = "socks5" PROVE d.out = "connected" => d.rest = Payload(c.says)
    <3>0. PICK fit : fit = ("long" \notin {Proxy(c).username, Proxy(c).password})  OBVIOUS
    <3>1. d = socks5_handshake(says, end, u, fit, target)  BY <3>0, <2>2, <2>6, <2>10 DEF dial_via_proxy
    <3> QED  BY <1>0, <2>6, <3>1, SocksLeavesPayload
  <2>11. d.out = "connected" => d.rest = Payload(c.says)  BY <2>5, <2>6, <2>7, <2>8, <2>9, <2>10
  <2>12. d.creds /\ p = "https" => c.proxyCert = "trusted"  BY <2>7, <2>9
  <2> QED  BY <1>2, <2>4, <2>6, <2>11, <2>12
<1> QED  BY <1>1, <1>2

\* The beginning of a stream is a stream.
LEMMA PrefixType ==
  ASSUME NEW s \in Seq(Tokens), NEW k \in 0..Len(s)
  PROVE  SubSeq(s, 1, k) \in Seq(Tokens) /\ SubSeq(s, 1, k) \in Seq(HeadTokens) /\ Len(SubSeq(s, 1, k)) = k
<1>1. k \in Int /\ Len(s) \in Nat /\ \A i \in 1..k : s[i] \in Tokens /\ s[i] \in HeadTokens  BY DEF HeadTokens
<1>2. SubSeq(s, 1, k) \in Seq(Tokens) /\ Len(SubSeq(s, 1, k)) = k  BY <1>1, SubSeqProperties
<1>3. SubSeq(s, 1, k) \in Seq(HeadTokens)  BY <1>1, SubSeqProperties
<1> QED  BY <1>2, <1>3

\* What an ended connection keeps.
LEMMA EndedFields ==
  ASSUME NEW c \in TunnelConns, NEW o \in Outcomes
  PROVE  /\ Ended(c, o) \in TunnelConns /\ Ended(c, o).at = "over" /\ Ended(c, o).outcome = o
         /\ Ended(c, o).mode = c.mode /\ Ended(c, o).answer = c.answer /\ Ended(c, o).route = c.route
         /\ Ended(c, o).creds = c.creds /\ Ended(c, o).buffered = c.buffered
BY DEF Ended, TunnelConns, ConnStates

\* A connection that is not in the relay moves or ends.
LEMMA ConnectionMoves ==
  ASSUME NEW t, NEW c, NEW r, Tunneled(t, c, r), c.at # "relay", NEW d \in TunnelConns,
         d.at # "relay", d.outcome \notin {"idle", "done"}, Placed(d), Prefixed(t, d), Decided(t, d)
  PROVE  Tunneled(t, d, r)
BY DEF Tunneled, Relayed

\* A connection that ends without the relay.
LEMMA ConnectionEnds ==
  ASSUME NEW t, NEW c, NEW r, Tunneled(t, c, r), c.at # "relay", NEW d \in TunnelConns,
         d.at = "over", d.outcome \notin {"idle", "done"}, Decided(t, d)
  PROVE  Tunneled(t, d, r)
<1>1. Placed(d) /\ Prefixed(t, d)  BY DEF Placed, Prefixed
<1> QED  BY <1>1, ConnectionMoves

\* The listener takes a connection, or turns it away when every permit is out.
LEMMA AcceptKeeps ==
  ASSUME TunnelInv, Accept
  PROVE  TunnelInv'
<1>0. PICK t, c, r, d : t = tcase /\ c = conn /\ r = relay /\ d = conn'  OBVIOUS
<1>1. tcase' = t /\ relay' = r /\ conn' = d /\ Tunneled(t, c, r) /\ c.at = "waiting" /\ c \in TunnelConns
  BY <1>0 DEF Accept, TunnelInv, Tunneled
<1>2. d = [c EXCEPT !.at = "probe", !.permit = TRUE] \/ d = Ended(c, "rejected")  BY <1>0 DEF Accept
<1>3. CASE d = [c EXCEPT !.at = "probe", !.permit = TRUE]
  <2>1. /\ d \in TunnelConns /\ d.at = "probe" /\ d.outcome = c.outcome /\ d.mode = c.mode /\ d.answer = c.answer /\ d.route = c.route
        /\ d.creds = c.creds
    BY <1>1, <1>3 DEF TunnelConns, ConnStates
  <2>2. Placed(d) /\ Prefixed(t, d) /\ d.outcome \notin {"idle", "done"} /\ Decided(t, d)
    BY <1>1, <2>1 DEF Tunneled, Placed, Prefixed, Decided, None
  <2>3. Tunneled(t, d, r)  BY <1>1, <2>1, <2>2, ConnectionMoves
  <2> QED  BY <1>1, <2>3 DEF TunnelInv
<1>4. CASE d = Ended(c, "rejected")
  <2>1. /\ d \in TunnelConns /\ d.at = "over" /\ d.outcome = "rejected" /\ d.mode = c.mode /\ d.answer = c.answer /\ d.route = c.route
        /\ d.creds = c.creds
    BY <1>1, <1>4, EndedFields DEF Outcomes
  <2>2. Decided(t, d)  BY <1>1, <2>1 DEF Tunneled, Placed, Decided, None
  <2>3. Tunneled(t, d, r)  BY <1>1, <2>1, <2>2, ConnectionEnds
  <2> QED  BY <1>1, <2>3 DEF TunnelInv
<1> QED  BY <1>2, <1>3, <1>4

\* The head is read; what came with it stays the beginning of the client's stream.
LEMMA ProbeKeeps ==
  ASSUME TunnelInv, read_header_only
  PROVE  TunnelInv'
<1>0. PICK t, c, r, d : t = tcase /\ c = conn /\ r = relay /\ d = conn'  OBVIOUS
<1>1. tcase' = t /\ relay' = r /\ conn' = d /\ Tunneled(t, c, r) /\ c.at = "probe" /\ c \in TunnelConns /\ t \in TunnelCases
  BY <1>0 DEF read_header_only, TunnelInv, Tunneled
<1>2. \/ d = [Ended(c, "bad_request") EXCEPT !.answer = "400"]
      \/ \E k \in 0..Len(t.client) : d = [c EXCEPT !.at = "routed", !.buffered = SubSeq(t.client, 1, k)]
  BY <1>0 DEF read_header_only, Leftover
<1>3. CASE d = [Ended(c, "bad_request") EXCEPT !.answer = "400"]
  <2>0. PICK e \in TunnelConns : e = Ended(c, "bad_request")  BY <1>1, EndedFields DEF Outcomes
  <2>1. e.at = "over" /\ e.outcome = "bad_request" /\ e.mode = c.mode /\ e.route = c.route /\ e.creds = c.creds
    BY <1>1, <2>0, EndedFields DEF Outcomes
  <2>2. d \in TunnelConns /\ d.at = "over" /\ d.outcome = "bad_request" /\ d.mode = c.mode /\ d.route = c.route /\ d.creds = c.creds
    BY <1>3, <2>0, <2>1 DEF TunnelConns
  <2>3. Decided(t, d)  BY <1>1, <2>2 DEF Tunneled, Placed, Decided, None
  <2>4. Tunneled(t, d, r)  BY <1>1, <2>2, <2>3, ConnectionEnds
  <2> QED  BY <1>1, <2>4 DEF TunnelInv
<1>4. CASE \E k \in 0..Len(t.client) : d = [c EXCEPT !.at = "routed", !.buffered = SubSeq(t.client, 1, k)]
  <2>1. PICK k \in 0..Len(t.client) : d = [c EXCEPT !.at = "routed", !.buffered = SubSeq(t.client, 1, k)]  BY <1>4
  <2>2. t.client \in Seq(Tokens)  BY <1>1, TunnelCaseAssumption
  <2>3. PICK b \in Seq(HeadTokens) : b = SubSeq(t.client, 1, k)  BY <2>2, PrefixType
  <2>4. d = [c EXCEPT !.at = "routed", !.buffered = b]  BY <2>1, <2>3
  <2>5. /\ d \in TunnelConns /\ d.at = "routed" /\ d.outcome = c.outcome /\ d.mode = c.mode /\ d.answer = c.answer /\ d.route = c.route
        /\ d.creds = c.creds /\ d.buffered = b
    BY <1>1, <2>4 DEF TunnelConns, ConnStates
  <2>6. Placed(d) /\ Prefixed(t, d) /\ d.outcome \notin {"idle", "done"} /\ Decided(t, d)
    BY <1>1, <2>3, <2>5 DEF Tunneled, Placed, Prefixed, Decided, None
  <2>7. Tunneled(t, d, r)  BY <1>1, <2>5, <2>6, ConnectionMoves
  <2> QED  BY <1>1, <2>7 DEF TunnelInv
<1> QED  BY <1>2, <1>3, <1>4

\* The certificate page is served and the connection is over.
LEMMA CertificateKeeps ==
  ASSUME TunnelInv, ServeCertificate
  PROVE  TunnelInv'
<1>0. PICK t, c, r, d : t = tcase /\ c = conn /\ r = relay /\ d = conn'  OBVIOUS
<1>1. tcase' = t /\ relay' = r /\ conn' = d /\ Tunneled(t, c, r) /\ c.at = "routed" /\ c \in TunnelConns
  BY <1>0 DEF ServeCertificate, TunnelInv, Tunneled
<1>2. PICK a \in {"200", "404"} : a = IF t.tls THEN "200" ELSE "404"  OBVIOUS
<1>3. d = [Ended(c, "served") EXCEPT !.answer = a]  BY <1>0, <1>2 DEF ServeCertificate
<1>4. PICK e \in TunnelConns : e = Ended(c, "served")  BY <1>1, EndedFields DEF Outcomes
<1>5. e.at = "over" /\ e.outcome = "served" /\ e.mode = c.mode /\ e.route = c.route /\ e.creds = c.creds
  BY <1>1, <1>4, EndedFields DEF Outcomes
<1>6. d \in TunnelConns /\ d.at = "over" /\ d.outcome = "served" /\ d.mode = c.mode /\ d.route = c.route /\ d.creds = c.creds
  BY <1>3, <1>4, <1>5 DEF TunnelConns
<1>7. Decided(t, d)  BY <1>1, <1>6 DEF Tunneled, Placed, Decided, None
<1>8. Tunneled(t, d, r)  BY <1>1, <1>6, <1>7, ConnectionEnds
<1> QED  BY <1>1, <1>8 DEF TunnelInv

\* A token put before a stream.
LEMMA Prepended ==
  ASSUME NEW S, NEW b \in Seq(S), NEW h \in S
  PROVE  <<h>> \o b \in Seq(S) /\ Head(<<h>> \o b) = h /\ Tail(<<h>> \o b) = b
<1>1. <<h>> \in Seq(S) /\ Len(<<h>>) = 1 /\ <<h>>[1] = h  OBVIOUS
<1>2. PICK u \in Seq(S) : u = <<h>> \o b  BY <1>1, ConcatProperties
<1>3. Len(u) = 1 + Len(b) /\ \A i \in 1..(1 + Len(b)) : u[i] = IF i <= 1 THEN <<h>>[i] ELSE b[i - 1]
  BY <1>1, <1>2, ConcatProperties
<1>4. Len(b) \in Nat /\ u # << >>  BY <1>2, <1>3
<1>5. Head(u) = h  BY <1>1, <1>3, <1>4
<1>6. Tail(u) \in Seq(S) /\ Len(Tail(u)) = Len(b) /\ \A i \in 1..Len(Tail(u)) : Tail(u)[i] = u[i + 1]
  BY <1>2, <1>3, <1>4, HeadTailProperties
<1>7. \A i \in 1..Len(b) : Tail(u)[i] = b[i]
  <2> SUFFICES ASSUME NEW i \in 1..Len(b) PROVE Tail(u)[i] = b[i]  OBVIOUS
  <2>1. i + 1 \in 1..(1 + Len(b)) /\ ~(i + 1 <= 1) /\ (i + 1) - 1 = i  BY <1>4
  <2>2. Tail(u)[i] = u[i + 1]  BY <1>6
  <2>3. u[i + 1] = b[(i + 1) - 1]  BY <1>3, <2>1
  <2> QED  BY <2>1, <2>2, <2>3
<1>8. Tail(u) = b  BY <1>6, <1>7, SeqEqual
<1> QED  BY <1>2, <1>5, <1>8

\* The beginning of a stream is a prefix of it.
LEMMA PrefixOf ==
  ASSUME NEW s \in Seq(Tokens), NEW k \in 0..Len(s)
  PROVE  IsPrefix(SubSeq(s, 1, k), s)
BY DEF IsPrefix

\* A connection is handed to the server, to the TLS handshake or to the blind relay.
LEMMA HandleKeeps ==
  ASSUME TunnelInv, handle_connection
  PROVE  TunnelInv'
<1>0. PICK t, c, r, d : t = tcase /\ c = conn /\ r = relay /\ d = conn'  OBVIOUS
<1>1. tcase' = t /\ relay' = r /\ conn' = d /\ Tunneled(t, c, r) /\ c.at = "routed" /\ c \in TunnelConns /\ t \in TunnelCases
  BY <1>0 DEF handle_connection, TunnelInv, Tunneled
<1>2. \/ d = HandToServer(c)
      \/ d = [c EXCEPT !.at = "tls", !.mode = "mitm", !.answer = "200"] /\ should_intercept(Policy(t), t.host)
      \/ d = [c EXCEPT !.at = "dial", !.mode = "blind"]
  BY <1>0 DEF handle_connection
<1>3. PICK k \in 0..Len(t.client) : c.buffered = SubSeq(t.client, 1, k)  BY <1>1 DEF Tunneled, Prefixed
<1>4. CASE d = HandToServer(c)
  <2>1. PICK h \in HeadTokens : h = T("head", "plain")  BY DEF HeadTokens
  <2>2. PICK b \in Seq(HeadTokens) : b = c.buffered  BY <1>1 DEF TunnelConns
  <2>3. PICK u \in Seq(HeadTokens) : u = <<h>> \o b  BY Prepended
  <2>4. Head(u) = h /\ Tail(u) = b  BY <2>3, Prepended
  <2>5. d = [c EXCEPT !.at = "forward", !.mode = "plain", !.buffered = u]  BY <1>4, <2>1, <2>2, <2>3 DEF HandToServer
  <2>6. /\ d \in TunnelConns /\ d.at = "forward" /\ d.outcome = c.outcome /\ d.mode = "plain" /\ d.route = c.route
        /\ d.creds = c.creds /\ d.buffered = u
    BY <1>1, <2>5 DEF TunnelConns, ConnStates, Modes
  <2>7. IsPrefix(b, t.client)  BY <1>1, <1>3, <2>2, PrefixOf, TunnelCaseAssumption
  <2>8. Head(d.buffered) = T("head", "plain") /\ IsPrefix(Tail(d.buffered), t.client)  BY <2>1, <2>4, <2>6, <2>7
  <2>9. Placed(d) /\ Prefixed(t, d) /\ d.outcome \notin {"idle", "done"} /\ Decided(t, d)
    BY <1>1, <2>6, <2>8 DEF Tunneled, Placed, Prefixed, Decided, None
  <2>10. Tunneled(t, d, r)  BY <1>1, <2>6, <2>9, ConnectionMoves
  <2> QED  BY <1>1, <2>10 DEF TunnelInv
<1>5. CASE d = [c EXCEPT !.at = "tls", !.mode = "mitm", !.answer = "200"] /\ should_intercept(Policy(t), t.host)
  <2>1. /\ d \in TunnelConns /\ d.at = "tls" /\ d.outcome = c.outcome /\ d.mode = "mitm" /\ d.route = c.route
        /\ d.creds = c.creds /\ d.buffered = c.buffered
    BY <1>1, <1>5 DEF TunnelConns, ConnStates, Modes
  <2>2. Placed(d) /\ Prefixed(t, d) /\ d.outcome \notin {"idle", "done"} /\ Decided(t, d)
    BY <1>1, <1>3, <1>5, <2>1 DEF Tunneled, Placed, Prefixed, Decided, None
  <2>3. Tunneled(t, d, r)  BY <1>1, <2>1, <2>2, ConnectionMoves
  <2> QED  BY <1>1, <2>3 DEF TunnelInv
<1>6. CASE d = [c EXCEPT !.at = "dial", !.mode = "blind"]
  <2>1. /\ d \in TunnelConns /\ d.at = "dial" /\ d.outcome = c.outcome /\ d.mode = "blind" /\ d.route = c.route
        /\ d.creds = c.creds /\ d.buffered = c.buffered /\ d.answer = c.answer
    BY <1>1, <1>6 DEF TunnelConns, ConnStates, Modes
  <2>2. Placed(d) /\ Prefixed(t, d) /\ d.outcome \notin {"idle", "done"} /\ Decided(t, d)
    BY <1>1, <1>3, <2>1 DEF Tunneled, Placed, Prefixed, Decided, None
  <2>3. Tunneled(t, d, r)  BY <1>1, <2>1, <2>2, ConnectionMoves
  <2> QED  BY <1>1, <2>3 DEF TunnelInv
<1> QED  BY <1>2, <1>4, <1>5, <1>6

\* What a failed connection keeps.
LEMMA FailedFields ==
  ASSUME NEW c \in TunnelConns, NEW o \in Outcomes, NEW a \in {None, "502", "504"}
  PROVE  /\ Failed(c, a, o) \in TunnelConns /\ Failed(c, a, o).at = "over" /\ Failed(c, a, o).outcome = o
         /\ Failed(c, a, o).mode = c.mode /\ Failed(c, a, o).route = c.route /\ Failed(c, a, o).creds = c.creds
         /\ Failed(c, a, o).buffered = c.buffered /\ Failed(c, a, o).answer = IF a = None THEN c.answer ELSE a
<1>1. PICK e \in TunnelConns : e = Ended(c, o)  BY EndedFields
<1>2. /\ e.at = "over" /\ e.outcome = o /\ e.mode = c.mode /\ e.answer = c.answer /\ e.route = c.route
      /\ e.creds = c.creds /\ e.buffered = c.buffered
  BY <1>1, EndedFields
<1>3. PICK b \in BOOLEAN : b = should_emit_connect_failure  BY DEF should_emit_connect_failure
<1>4. PICK x : x = IF a = None THEN e.answer ELSE a  OBVIOUS
<1>5. x \in {None, "200", "400", "404", "502", "504"}  BY <1>1, <1>4 DEF TunnelConns
<1>6. Failed(c, a, o) = [e EXCEPT !.answer = x, !.reported = b]  BY <1>1, <1>3, <1>4 DEF Failed
<1>7. PICK f : f = Failed(c, a, o)  OBVIOUS
<1>8. f = [e EXCEPT !.answer = x, !.reported = b]  BY <1>6, <1>7
<1>9. /\ f \in TunnelConns /\ f.at = e.at /\ f.outcome = e.outcome /\ f.mode = e.mode /\ f.answer = x /\ f.route = e.route
      /\ f.creds = e.creds /\ f.buffered = e.buffered
  BY <1>5, <1>8 DEF TunnelConns
<1> QED  BY <1>2, <1>4, <1>7, <1>9

\* The client's handshake succeeds, fails or is taken for an untrusted root.
LEMMA HandshakeKeeps ==
  ASSUME TunnelInv, ClientHandshake
  PROVE  TunnelInv'
<1>0. PICK t, c, r, d : t = tcase /\ c = conn /\ r = relay /\ d = conn'  OBVIOUS
<1>1. tcase' = t /\ relay' = r /\ conn' = d /\ Tunneled(t, c, r) /\ c.at = "tls" /\ c \in TunnelConns
  BY <1>0 DEF ClientHandshake, TunnelInv, Tunneled
<1>2. \/ \E alpn \in {"h2", "http/1.1"} : d = ServeDecrypted(c, alpn)
      \/ \E why \in ClientRejections : d = Failed(c, None, why)
  BY <1>0 DEF ClientHandshake
<1>3. CASE \E alpn \in {"h2", "http/1.1"} : d = ServeDecrypted(c, alpn)
  <2>1. PICK alpn \in {"h2", "http/1.1"} : d = ServeDecrypted(c, alpn)  BY <1>3
  <2>2. PICK b \in BOOLEAN : b = (alpn = "h2")  OBVIOUS
  <2>3. d = [c EXCEPT !.at = "forward", !.h2 = b]  BY <2>1, <2>2 DEF ServeDecrypted
  <2>4. /\ d \in TunnelConns /\ d.at = "forward" /\ d.outcome = c.outcome /\ d.mode = c.mode /\ d.route = c.route
        /\ d.creds = c.creds /\ d.buffered = c.buffered /\ d.answer = c.answer
    BY <1>1, <2>3 DEF TunnelConns, ConnStates
  <2>5. Placed(d) /\ Prefixed(t, d) /\ d.outcome \notin {"idle", "done"} /\ Decided(t, d)
    BY <1>1, <2>4 DEF Tunneled, Placed, Prefixed, Decided, None
  <2>6. Tunneled(t, d, r)  BY <1>1, <2>4, <2>5, ConnectionMoves
  <2> QED  BY <1>1, <2>6 DEF TunnelInv
<1>4. CASE \E why \in ClientRejections : d = Failed(c, None, why)
  <2>1. PICK why \in ClientRejections : d = Failed(c, None, why)  BY <1>4
  <2>2. why \in Outcomes /\ why \notin {"idle", "done", "forwarded"}  BY DEF ClientRejections, Outcomes
  <2>3. /\ d \in TunnelConns /\ d.at = "over" /\ d.outcome = why /\ d.mode = c.mode /\ d.route = c.route
        /\ d.creds = c.creds /\ d.buffered = c.buffered /\ d.answer = c.answer
    BY <1>1, <2>1, <2>2, FailedFields
  <2>4. Decided(t, d)  BY <1>1, <2>2, <2>3 DEF Tunneled, Placed, Decided, None
  <2>5. Tunneled(t, d, r)  BY <1>1, <2>2, <2>3, <2>4, ConnectionEnds
  <2> QED  BY <1>1, <2>5 DEF TunnelInv
<1> QED  BY <1>2, <1>3, <1>4

\* The protocol whose credentials went out, if any did.
LEMMA CredsSent ==
  ASSUME NEW t \in TunnelCases
  PROVE  \E x \in {None, "http", "https", "socks5"} :
           /\ x = IF dial_target(t).dial.creds THEN Proxy(t).proto ELSE None
           /\ x = "https" => t.proxyCert = "trusted"
<1>1. t.proxy.proto \in {None, "http", "https", "socks5"}  BY TunnelCaseAssumption
<1>2. Proxy(t).proto \in {None, "http", "https", "socks5"}  BY <1>1 DEF Proxy, proxy_to_runtime_config
<1>3. dial_target(t).dial.creds /\ Proxy(t).proto = "https" => t.proxyCert = "trusted"  BY DialLeavesPayload
<1>4. PICK x : x = IF dial_target(t).dial.creds THEN Proxy(t).proto ELSE None  OBVIOUS
<1>5. x \in {None, "http", "https", "socks5"}  BY <1>2, <1>4
<1>6. x = "https" => t.proxyCert = "trusted"  BY <1>3, <1>4 DEF None
<1> QED  BY <1>4, <1>5, <1>6

\* The exchange goes out over a connector that verifies as the policy says.
LEMMA ForwardKeeps ==
  ASSUME TunnelInv, TimingConnectorCall
  PROVE  TunnelInv'
<1>0. PICK t, c, r, d : t = tcase /\ c = conn /\ r = relay /\ d = conn'  OBVIOUS
<1>1. tcase' = t /\ relay' = r /\ conn' = d /\ Tunneled(t, c, r) /\ c.at = "forward" /\ c \in TunnelConns /\ t \in TunnelCases
  BY <1>0 DEF TimingConnectorCall, TunnelInv, Tunneled
<1>2. PICK v \in BOOLEAN : v = (c.mode = "mitm" /\ should_verify(t))  OBVIOUS
<1>3. PICK up \in BOOLEAN : up = (dial_target(t).dial.out = "connected" /\ ~(v /\ t.originCert # "trusted"))  OBVIOUS
<1>4. PICK o \in Outcomes : o = IF up THEN "forwarded" ELSE "upstream_error"  BY DEF Outcomes
<1>5. PICK w \in BOOLEAN : w = (up /\ v)  OBVIOUS
<1>6. PICK x \in {None, "http", "https", "socks5"} :
        /\ x = IF dial_target(t).dial.creds THEN Proxy(t).proto ELSE None
        /\ x = "https" => t.proxyCert = "trusted"
  BY <1>1, CredsSent
<1>7. PICK route \in {"proxy", "direct"} : route = dial_target(t).route /\ (route = "direct" => ~Proxied(t))
  BY <1>1, DialLeavesPayload
<1>8. d = [Ended(c, o) EXCEPT !.route = route, !.verified = w, !.creds = x]
  BY <1>0, <1>2, <1>3, <1>4, <1>5, <1>6, <1>7 DEF TimingConnectorCall
<1>9. PICK e \in TunnelConns : e = Ended(c, o)  BY <1>1, EndedFields
<1>10. e.at = "over" /\ e.outcome = o /\ e.mode = c.mode /\ e.answer = c.answer /\ e.buffered = c.buffered
  BY <1>1, <1>9, EndedFields
<1>11. d = [e EXCEPT !.route = route, !.verified = w, !.creds = x]  BY <1>8, <1>9
<1>12. /\ d \in TunnelConns /\ d.at = "over" /\ d.outcome = o /\ d.mode = c.mode /\ d.answer = c.answer
       /\ d.buffered = c.buffered /\ d.route = route /\ d.creds = x
  BY <1>10, <1>11 DEF TunnelConns
<1>13. o = "forwarded" /\ c.mode = "mitm" /\ should_verify(t) => t.originCert = "trusted"  BY <1>2, <1>3, <1>4
<1>14. Decided(t, d)  BY <1>1, <1>6, <1>7, <1>12, <1>13 DEF Tunneled, Placed, Decided, None
<1>15. d.outcome \notin {"idle", "done"}  BY <1>4, <1>12
<1>16. Tunneled(t, d, r)  BY <1>1, <1>12, <1>14, <1>15, ConnectionEnds
<1> QED  BY <1>1, <1>16 DEF TunnelInv

\* What was read with the head and what is still on the wire are the client's stream.
LEMMA ClientStream ==
  ASSUME NEW s \in Seq(Tokens), NEW k \in 0..Len(s), NEW b, b = SubSeq(s, 1, k)
  PROVE  b \o SubSeq(s, Len(b) + 1, Len(s)) = s
<1>1. Len(s) \in Nat /\ Len(b) = k  BY PrefixType
<1>2. 1 \in 1..(Len(s) + 1) /\ k \in (1 - 1)..Len(s) /\ Len(s) \in k..Len(s)  BY <1>1
<1>3. SubSeq(s, 1, k) \o SubSeq(s, k + 1, Len(s)) = SubSeq(s, 1, Len(s))  BY <1>2, ConcatAdjacentSubSeq
<1>4. SubSeq(s, 1, Len(s)) = s  BY SubSeqFull
<1> QED  BY <1>1, <1>3, <1>4

\* A relay that has its whole streams ahead of it.
LEMMA WholeAhead ==
  ASSUME NEW both \in Streams, NEW none \in Streams, \A x \in Directions : none[x] = << >>,
         NEW h \in (Directions \cup {None}) \X Seq(Tokens), h[1] = None, NEW nobody, nobody = {}, NEW r,
         r = [at |-> "top", src |-> both, left |-> both, got |-> none, eof |-> nobody, held |-> h, quiet |-> 0]
  PROVE  r \in TunnelRelays /\ r.at = "top" /\ Flow(r)
<1>8. r.at = "top" /\ r.src = both /\ r.left = both /\ r.got = none /\ r.eof = nobody /\ r.held = h  OBVIOUS
<1>9. r \in TunnelRelays  BY DEF TunnelRelays
<1>10. None \notin Directions  BY DEF None, Directions
<1>11. \A x \in Directions : r.got[x] \o HeldFor(r, x) \o r.left[x] = r.src[x]
  <2> SUFFICES ASSUME NEW x \in Directions PROVE r.got[x] \o HeldFor(r, x) \o r.left[x] = r.src[x]  OBVIOUS
  <2>1. HeldFor(r, x) = << >>  BY <1>8, <1>10 DEF HeldFor
  <2>2. r.got[x] = << >> /\ r.left[x] = both[x] /\ r.src[x] = both[x]  BY <1>8
  <2>3. PICK s \in Seq(Tokens) : s = both[x]  BY DEF Streams
  <2>4. << >> \o << >> \o s = s  BY <2>3
  <2> QED  BY <2>1, <2>2, <2>3, <2>4
<1> QED  BY <1>8, <1>9, <1>11 DEF Flow

\* A fresh relay has its whole streams ahead of it.
LEMMA FreshRelay ==
  ASSUME NEW up \in Seq(Tokens), NEW down \in Seq(Tokens)
  PROVE  \E r \in TunnelRelays :
           /\ r = [NewRelay EXCEPT !.at = "top", !.src = [up |-> up, down |-> down], !.left = [up |-> up, down |-> down]]
           /\ r.at = "top" /\ Flow(r)
<1>0. PICK empty \in Seq(Tokens) : empty = << >>  BY EmptySeq
<1>1. PICK both : both = [up |-> up, down |-> down]  OBVIOUS
<1>2. PICK none : none = [up |-> empty, down |-> empty]  OBVIOUS
<1>3. both \in Streams  BY <1>1 DEF Streams, Directions
<1>4. none \in Streams /\ none["up"] = empty /\ none["down"] = empty  BY <1>2 DEF Streams, Directions
<1>5. PICK h : h = <<None, empty>>  OBVIOUS
<1>6. h \in (Directions \cup {None}) \X Seq(Tokens) /\ h[1] = None  BY <1>5
<1>a. NewRelay = [at |-> "off", src |-> none, left |-> none, got |-> none, eof |-> {}, held |-> h, quiet |-> 0]
  BY <1>0, <1>2, <1>5 DEF NewRelay, T
<1>b. PICK nobody : nobody = {}  OBVIOUS
<1>c. PICK r : r = [NewRelay EXCEPT !.at = "top", !.src = [up |-> up, down |-> down], !.left = [up |-> up, down |-> down]]
  OBVIOUS
<1>7. r = [at |-> "top", src |-> both, left |-> both, got |-> none, eof |-> nobody, held |-> h, quiet |-> 0]
  BY <1>1, <1>a, <1>b, <1>c
<1>8. \A x \in Directions : none[x] = << >>  BY <1>0, <1>4 DEF Directions
<1>9. r \in TunnelRelays /\ r.at = "top" /\ Flow(r)  BY <1>3, <1>4, <1>6, <1>7, <1>8, <1>b, WholeAhead
<1> QED  BY <1>9, <1>c

\* The blind tunnel is dialed: the relay starts with both whole streams ahead of it.
LEMMA DialKeeps ==
  ASSUME TunnelInv, tunnel_blind_relay
  PROVE  TunnelInv'
<1>0. PICK t, c, r, d : t = tcase /\ c = conn /\ r = relay /\ d = conn'  OBVIOUS
<1>1. tcase' = t /\ conn' = d /\ Tunneled(t, c, r) /\ c.at = "dial" /\ c \in TunnelConns /\ t \in TunnelCases
  BY <1>0 DEF tunnel_blind_relay, TunnelInv, Tunneled
<1>2. PICK x \in {None, "http", "https", "socks5"} :
        /\ x = IF dial_target(t).dial.creds THEN Proxy(t).proto ELSE None
        /\ x = "https" => t.proxyCert = "trusted"
  BY <1>1, CredsSent
<1>3. PICK route \in {"proxy", "direct"} : route = dial_target(t).route /\ (route = "direct" => ~Proxied(t))
  BY <1>1, DialLeavesPayload
<1>4. PICK seen : seen = [c EXCEPT !.route = route, !.creds = x]  OBVIOUS
<1>5. /\ seen \in TunnelConns /\ seen.at = c.at /\ seen.mode = c.mode /\ seen.answer = c.answer /\ seen.route = route
      /\ seen.creds = x /\ seen.buffered = c.buffered /\ seen.outcome = c.outcome
  BY <1>1, <1>4 DEF TunnelConns
<1>6. c.mode = "blind" /\ c.answer = None /\ c.outcome = None  BY <1>1 DEF Tunneled, Placed
<1>7. \/ /\ dial_target(t).dial.out = "connected"
         /\ d = [seen EXCEPT !.at = "relay", !.answer = "200"]
         /\ relay' = [NewRelay EXCEPT !.at = "top",
                        !.src = [up |-> t.client, down |-> Payload(t.says)],
                        !.left = [up |-> c.buffered \o SubSeq(t.client, Len(c.buffered) + 1, Len(t.client)),
                                  down |-> dial_target(t).dial.rest]]
      \/ d = Failed(seen, "502", "upstream_error") /\ relay' = r
      \/ d = Failed(seen, "504", "timeout") /\ relay' = r
      \/ d = Ended(seen, "client_gone") /\ relay' = r
  BY <1>0, <1>2, <1>3, <1>4 DEF tunnel_blind_relay
<1>8. CASE /\ dial_target(t).dial.out = "connected"
           /\ d = [seen EXCEPT !.at = "relay", !.answer = "200"]
           /\ relay' = [NewRelay EXCEPT !.at = "top",
                          !.src = [up |-> t.client, down |-> Payload(t.says)],
                          !.left = [up |-> c.buffered \o SubSeq(t.client, Len(c.buffered) + 1, Len(t.client)),
                                    down |-> dial_target(t).dial.rest]]
  <2>1. t.client \in Seq(Tokens) /\ t.says \in Seq(Tokens) /\ Orderly(t.says)  BY <1>1, TunnelCaseAssumption
  <2>2. PICK up \in Seq(Tokens), down \in Seq(Tokens) : up = t.client /\ down = Payload(t.says)  BY <2>1, PayloadType
  <2>3. PICK k \in 0..Len(up) : c.buffered = SubSeq(up, 1, k)  BY <1>1, <2>2 DEF Tunneled, Prefixed
  <2>4. c.buffered \o SubSeq(t.client, Len(c.buffered) + 1, Len(t.client)) = up
    <3>1. PICK b : b = c.buffered  OBVIOUS
    <3>2. b \o SubSeq(up, Len(b) + 1, Len(up)) = up  BY <2>3, <3>1, ClientStream
    <3> QED  BY <2>2, <3>1, <3>2
  <2>5. dial_target(t).dial.rest = down  BY <1>1, <1>8, <2>2, DialLeavesPayload
  <2>6. PICK q \in TunnelRelays :
          /\ q = [NewRelay EXCEPT !.at = "top", !.src = [up |-> up, down |-> down], !.left = [up |-> up, down |-> down]]
          /\ q.at = "top" /\ Flow(q)
    BY FreshRelay
  <2>7. q = relay'  BY <1>8, <2>2, <2>4, <2>5, <2>6
  <2>8. q.at = "top" /\ Flow(q)  BY <2>6
  <2>9. /\ d \in TunnelConns /\ d.at = "relay" /\ d.mode = c.mode /\ d.answer = "200" /\ d.route = route
        /\ d.creds = x /\ d.buffered = c.buffered /\ d.outcome = c.outcome
    BY <1>5, <1>8 DEF TunnelConns, ConnStates
  <2>10. Placed(d) /\ Prefixed(t, d) /\ Decided(t, d)  BY <1>2, <1>3, <1>6, <2>9 DEF Placed, Prefixed, Decided, None
  <2>11. Relayed(d, q)  BY <1>6, <2>8, <2>9 DEF Relayed, None
  <2>12. Tunneled(t, d, q)  BY <1>1, <2>6, <2>8, <2>9, <2>10, <2>11 DEF Tunneled
  <2> QED  BY <1>1, <2>7, <2>12 DEF TunnelInv
<1>9. ASSUME relay' = r, d \in TunnelConns, d.at = "over", d.outcome \in {"upstream_error", "timeout", "client_gone"},
             d.mode = seen.mode, d.route = seen.route, d.creds = seen.creds
      PROVE  TunnelInv'
  <2>1. Decided(t, d)  BY <1>2, <1>3, <1>5, <1>6, <1>9 DEF Decided, None
  <2>2. Tunneled(t, d, r)  BY <1>1, <1>9, <2>1, ConnectionEnds
  <2> QED  BY <1>1, <1>9, <2>2 DEF TunnelInv
<1>10. CASE d = Failed(seen, "502", "upstream_error") /\ relay' = r
  <2>1. /\ d \in TunnelConns /\ d.at = "over" /\ d.outcome = "upstream_error" /\ d.mode = seen.mode /\ d.route = seen.route
        /\ d.creds = seen.creds
    BY <1>5, <1>10, FailedFields DEF Outcomes
  <2> QED  BY <1>9, <1>10, <2>1
<1>11. CASE d = Failed(seen, "504", "timeout") /\ relay' = r
  <2>1. /\ d \in TunnelConns /\ d.at = "over" /\ d.outcome = "timeout" /\ d.mode = seen.mode /\ d.route = seen.route
        /\ d.creds = seen.creds
    BY <1>5, <1>11, FailedFields DEF Outcomes
  <2> QED  BY <1>9, <1>11, <2>1
<1>12. CASE d = Ended(seen, "client_gone") /\ relay' = r
  <2>1. /\ d \in TunnelConns /\ d.at = "over" /\ d.outcome = "client_gone" /\ d.mode = seen.mode /\ d.route = seen.route
        /\ d.creds = seen.creds
    BY <1>5, <1>12, EndedFields DEF Outcomes
  <2> QED  BY <1>9, <1>12, <2>1
<1> QED  BY <1>7, <1>8, <1>10, <1>11, <1>12

\* The relay ends: in order, in silence, or with an error.
LEMMA FinishKeeps ==
  ASSUME NEW t, NEW c, NEW r, Tunneled(t, c, r), c.at = "relay", NEW o \in {"done", "idle", "error"},
         NEW d, d = Ended(c, o), NEW q, q = [r EXCEPT !.at = "off"],
         o \in {"done", "idle"} => r.at # "write", o = "done" => r.eof = Directions
  PROVE  Tunneled(t, d, q)
<1>1. c \in TunnelConns /\ r \in TunnelRelays /\ o \in Outcomes  BY DEF Tunneled, Outcomes
<1>2. /\ d \in TunnelConns /\ d.at = "over" /\ d.outcome = o /\ d.mode = c.mode /\ d.answer = c.answer /\ d.route = c.route
      /\ d.creds = c.creds /\ d.buffered = c.buffered
  BY <1>1, EndedFields
<1>3. /\ q \in TunnelRelays /\ q.at = "off" /\ q.src = r.src /\ q.left = r.left /\ q.got = r.got /\ q.eof = r.eof /\ q.held = r.held
  BY <1>1 DEF TunnelRelays
<1>4. Decided(t, d)  BY <1>2 DEF Tunneled, Decided, Placed, None
<1>5. Placed(d) /\ Prefixed(t, d)  BY <1>2 DEF Placed, Prefixed
<1>6. Flow(r)  BY DEF Tunneled, Relayed
<1>7. o \in {"done", "idle"} => Flow(q)
  <2>1. \A x \in Directions : HeldFor(q, x) = HeldFor(r, x)  BY <1>3 DEF HeldFor
  <2> QED  BY <1>3, <1>6, <2>1 DEF Flow
<1>8. Relayed(d, q)  BY <1>2, <1>3, <1>7 DEF Relayed
<1> QED  BY <1>2, <1>3, <1>4, <1>5, <1>8 DEF Tunneled

\* A relay that goes on.
LEMMA RelayGoesOn ==
  ASSUME NEW t, NEW c, NEW r, Tunneled(t, c, r), c.at = "relay", NEW q \in TunnelRelays, q.at # "off", Flow(q)
  PROVE  Tunneled(t, c, q)
BY DEF Tunneled, Relayed, Placed, None

\* The relay ends when both directions have.
LEMMA RelayTopKeeps ==
  ASSUME TunnelInv, RelayTop
  PROVE  TunnelInv'
<1>0. PICK t, c, r, d, q : t = tcase /\ c = conn /\ r = relay /\ d = conn' /\ q = relay'  OBVIOUS
<1>1. tcase' = t /\ conn' = d /\ relay' = q /\ Tunneled(t, c, r) /\ r.at = "top" /\ r \in TunnelRelays
  BY <1>0 DEF RelayTop, TunnelInv, Tunneled
<1>2. c.at = "relay" /\ Flow(r)  BY <1>1 DEF Tunneled, Relayed
<1>3. \/ r.eof = Directions /\ d = Ended(c, "done") /\ q = [r EXCEPT !.at = "off"]
      \/ d = Ended(c, "idle") /\ q = [r EXCEPT !.at = "off"]
      \/ q = [r EXCEPT !.at = "select"] /\ d = c
  BY <1>0 DEF RelayTop, TunnelFinish
<1>4. CASE r.eof = Directions /\ d = Ended(c, "done") /\ q = [r EXCEPT !.at = "off"]
  <2>1. Tunneled(t, d, q)  BY <1>1, <1>2, <1>4, FinishKeeps
  <2> QED  BY <1>1, <2>1 DEF TunnelInv
<1>5. CASE d = Ended(c, "idle") /\ q = [r EXCEPT !.at = "off"]
  <2>1. Tunneled(t, d, q)  BY <1>1, <1>2, <1>5, FinishKeeps
  <2> QED  BY <1>1, <2>1 DEF TunnelInv
<1>6. CASE q = [r EXCEPT !.at = "select"] /\ d = c
  <2>1. /\ q \in TunnelRelays /\ q.at = "select" /\ q.src = r.src /\ q.left = r.left /\ q.got = r.got /\ q.eof = r.eof
        /\ q.held = r.held
    BY <1>1, <1>6 DEF TunnelRelays
  <2>2. \A x \in Directions : HeldFor(q, x) = HeldFor(r, x)  BY <2>1 DEF HeldFor
  <2>3. Flow(q)  BY <1>1, <1>2, <2>1, <2>2 DEF Flow
  <2>4. Tunneled(t, d, q)  BY <1>1, <1>2, <1>6, <2>1, <2>3, RelayGoesOn
  <2> QED  BY <1>1, <2>4 DEF TunnelInv
<1> QED  BY <1>3, <1>4, <1>5, <1>6

\* What is read leaves what is to be read, and nothing in between.
LEMMA ReadSplits ==
  ASSUME NEW S, NEW g \in Seq(S), NEW s \in Seq(S), NEW k \in 1..Len(s)
  PROVE  /\ SubSeq(s, 1, k) \in Seq(S) /\ SubSeq(s, k + 1, Len(s)) \in Seq(S)
         /\ g \o SubSeq(s, 1, k) \o SubSeq(s, k + 1, Len(s)) = g \o s
<1>1. Len(s) \in Nat /\ k \in Nat  OBVIOUS
<1>2. 1 \in 1..(Len(s) + 1) /\ k \in (1 - 1)..Len(s) /\ Len(s) \in k..Len(s)  BY <1>1
<1>3. SubSeq(s, 1, k) \o SubSeq(s, k + 1, Len(s)) = SubSeq(s, 1, Len(s))  BY <1>2, ConcatAdjacentSubSeq
<1>4. SubSeq(s, 1, Len(s)) = s  BY SubSeqFull
<1>5. SubSeq(s, 1, k) \in Seq(S) /\ SubSeq(s, k + 1, Len(s)) \in Seq(S)  BY <1>1
<1>6. PICK u \in Seq(S), v \in Seq(S) : u = SubSeq(s, 1, k) /\ v = SubSeq(s, k + 1, Len(s))  BY <1>5
<1>7. (g \o u) \o v = g \o (u \o v)
  <2>1. g \in Seq(S) /\ u \in Seq(S) /\ v \in Seq(S)  BY <1>6
  <2> QED  BY ONLY <2>1, ConcatAssociative, SMTT(60)
<1> QED  BY <1>3, <1>4, <1>6, <1>7

\* A read moves tokens from what is left to what is held, or finds the end or an error.
LEMMA RelayReadKeeps ==
  ASSUME TunnelInv, NEW x \in Directions, RelayRead(x)
  PROVE  TunnelInv'
<1>0. PICK t, c, r, d, q : t = tcase /\ c = conn /\ r = relay /\ d = conn' /\ q = relay'  OBVIOUS
<1>1. tcase' = t /\ conn' = d /\ relay' = q /\ Tunneled(t, c, r) /\ r.at = "select" /\ r \in TunnelRelays /\ x \notin r.eof
  BY <1>0 DEF RelayRead, TunnelInv, Tunneled
<1>2. c.at = "relay" /\ Flow(r)  BY <1>1 DEF Tunneled, Relayed
<1>3. \/ \E k \in 1..Len(r.left[x]) :
           /\ q = [r EXCEPT !.at = "write", !.held = T(x, SubSeq(r.left[x], 1, k)), !.quiet = 0,
                            !.left[x] = SubSeq(@, k + 1, Len(@))]
           /\ d = c
      \/ r.left[x] = << >> /\ q = [r EXCEPT !.at = "top", !.eof = @ \cup {x}] /\ d = c
      \/ d = Ended(c, "error") /\ q = [r EXCEPT !.at = "off"]
  BY <1>0 DEF RelayRead, TunnelFinish
<1>4. r.held[1] = None /\ None \notin Directions  BY <1>1, <1>2 DEF Flow, None, Directions
<1>5. CASE \E k \in 1..Len(r.left[x]) :
             /\ q = [r EXCEPT !.at = "write", !.held = T(x, SubSeq(r.left[x], 1, k)), !.quiet = 0,
                              !.left[x] = SubSeq(@, k + 1, Len(@))]
             /\ d = c
  <2>1. PICK k \in 1..Len(r.left[x]) :
          /\ q = [r EXCEPT !.at = "write", !.held = T(x, SubSeq(r.left[x], 1, k)), !.quiet = 0,
                           !.left[x] = SubSeq(@, k + 1, Len(@))]
          /\ d = c
    BY <1>5
  <2>2. PICK s \in Seq(Tokens) : s = r.left[x]  BY <1>1 DEF TunnelRelays, Streams
  <2>3. PICK g \in Seq(Tokens) : g = r.got[x]  BY <1>1 DEF TunnelRelays, Streams
  <2>4. PICK chunk \in Seq(Tokens), rest \in Seq(Tokens) : chunk = SubSeq(s, 1, k) /\ rest = SubSeq(s, k + 1, Len(s))
    BY <2>1, <2>2, ReadSplits
  <2>5. g \o chunk \o rest = g \o s
    <3>1. PICK j \in 1..Len(s) : j = k  BY <2>2
    <3>2. g \o SubSeq(s, 1, j) \o SubSeq(s, j + 1, Len(s)) = g \o s  BY ReadSplits
    <3> QED  BY <2>4, <3>1, <3>2
  <2>6. PICK ahead : ahead = [r.left EXCEPT ![x] = rest]  OBVIOUS
  <2>7. ahead \in Streams /\ ahead[x] = rest /\ \A y \in Directions \ {x} : ahead[y] = r.left[y]
    BY <1>1, <2>6 DEF TunnelRelays, Streams
  <2>8. PICK h : h = <<x, chunk>>  OBVIOUS
  <2>9. h \in (Directions \cup {None}) \X Seq(Tokens) /\ h[1] = x /\ h[2] = chunk  BY <2>8
  <2>10. q = [r EXCEPT !.at = "write", !.held = h, !.quiet = 0, !.left = ahead]
    BY <1>1, <2>1, <2>2, <2>4, <2>6, <2>8 DEF T, TunnelRelays
  <2>11. /\ q \in TunnelRelays /\ q.at = "write" /\ q.src = r.src /\ q.left = ahead /\ q.got = r.got /\ q.eof = r.eof
         /\ q.held = h
    BY <1>1, <2>7, <2>9, <2>10 DEF TunnelRelays
  <2>12. \A y \in Directions : q.got[y] \o HeldFor(q, y) \o q.left[y] = q.src[y]
    <3> SUFFICES ASSUME NEW y \in Directions PROVE q.got[y] \o HeldFor(q, y) \o q.left[y] = q.src[y]  OBVIOUS
    <3>1. r.got[y] \o HeldFor(r, y) \o r.left[y] = r.src[y] /\ HeldFor(r, y) = << >>  BY <1>2, <1>4 DEF Flow, HeldFor
    <3>2. CASE y = x
      <4>1. HeldFor(q, y) = chunk /\ q.left[y] = rest /\ q.got[y] = g  BY <2>3, <2>7, <2>9, <2>11, <3>2 DEF HeldFor
      <4>2. g \o << >> = g  OBVIOUS
      <4>3. g \o s = r.src[y]  BY <2>2, <2>3, <3>1, <3>2, <4>2
      <4> QED  BY <2>5, <2>11, <4>1, <4>3
    <3>3. CASE y # x
      <4>1. HeldFor(q, y) = << >> /\ q.left[y] = r.left[y]  BY <2>7, <2>9, <2>11, <3>3 DEF HeldFor
      <4> QED  BY <2>11, <3>1, <4>1
    <3> QED  BY <3>2, <3>3
  <2>13. \A y \in q.eof : q.left[y] = << >> /\ q.held[1] # y
    <3> SUFFICES ASSUME NEW y \in q.eof PROVE q.left[y] = << >> /\ q.held[1] # y  OBVIOUS
    <3>1. y \in r.eof /\ y # x /\ y \in Directions  BY <1>1, <2>11 DEF TunnelRelays
    <3> QED  BY <1>2, <2>7, <2>9, <2>11, <3>1 DEF Flow
  <2>14. Flow(q)  BY <2>9, <2>11, <2>12, <2>13 DEF Flow
  <2>15. Tunneled(t, d, q)  BY <1>1, <1>2, <2>1, <2>11, <2>14, RelayGoesOn
  <2> QED  BY <1>1, <2>15 DEF TunnelInv
<1>6. CASE r.left[x] = << >> /\ q = [r EXCEPT !.at = "top", !.eof = @ \cup {x}] /\ d = c
  <2>1. /\ q \in TunnelRelays /\ q.at = "top" /\ q.src = r.src /\ q.left = r.left /\ q.got = r.got /\ q.eof = r.eof \cup {x}
        /\ q.held = r.held
    BY <1>1, <1>6 DEF TunnelRelays
  <2>2. \A y \in Directions : HeldFor(q, y) = HeldFor(r, y)  BY <2>1 DEF HeldFor
  <2>3. \A y \in q.eof : q.left[y] = << >> /\ q.held[1] # y  BY <1>2, <1>4, <1>6, <2>1 DEF Flow
  <2>4. Flow(q)  BY <1>2, <1>4, <2>1, <2>2, <2>3 DEF Flow
  <2>5. Tunneled(t, d, q)  BY <1>1, <1>2, <1>6, <2>1, <2>4, RelayGoesOn
  <2> QED  BY <1>1, <2>5 DEF TunnelInv
<1>7. CASE d = Ended(c, "error") /\ q = [r EXCEPT !.at = "off"]
  <2>1. Tunneled(t, d, q)  BY <1>1, <1>2, <1>7, FinishKeeps
  <2> QED  BY <1>1, <2>1 DEF TunnelInv
<1> QED  BY <1>3, <1>5, <1>6, <1>7

\* A write moves what is held to what was written.
LEMMA RelayWriteKeeps ==
  ASSUME TunnelInv, RelayWrite
  PROVE  TunnelInv'
<1>0. PICK t, c, r, d, q : t = tcase /\ c = conn /\ r = relay /\ d = conn' /\ q = relay'  OBVIOUS
<1>1. tcase' = t /\ conn' = d /\ relay' = q /\ Tunneled(t, c, r) /\ r.at = "write" /\ r \in TunnelRelays
  BY <1>0 DEF RelayWrite, TunnelInv, Tunneled
<1>2. c.at = "relay" /\ Flow(r)  BY <1>1 DEF Tunneled, Relayed
<1>3. PICK x \in Directions : x = r.held[1]  BY <1>1, <1>2 DEF Flow
<1>4. \/ q = [r EXCEPT !.at = "top", !.got[x] = @ \o r.held[2], !.held = T(None, << >>)] /\ d = c
      \/ d = Ended(c, "error") /\ q = [r EXCEPT !.at = "off"]
  BY <1>0, <1>3 DEF RelayWrite, TunnelFinish
<1>5. CASE q = [r EXCEPT !.at = "top", !.got[x] = @ \o r.held[2], !.held = T(None, << >>)] /\ d = c
  <2>1. PICK chunk \in Seq(Tokens) : chunk = r.held[2]  BY <1>1 DEF TunnelRelays
  <2>2. PICK g \in Seq(Tokens) : g = r.got[x]  BY <1>1 DEF TunnelRelays, Streams
  <2>3. PICK w \in Seq(Tokens) : w = g \o chunk  BY ConcatProperties
  <2>4. PICK written : written = [r.got EXCEPT ![x] = w]  OBVIOUS
  <2>5. written \in Streams /\ written[x] = w /\ \A y \in Directions \ {x} : written[y] = r.got[y]
    BY <1>1, <2>4 DEF TunnelRelays, Streams
  <2>6. PICK empty \in Seq(Tokens) : empty = << >>  BY EmptySeq
  <2>7. PICK h : h = <<None, empty>>  OBVIOUS
  <2>8. h \in (Directions \cup {None}) \X Seq(Tokens) /\ h[1] = None  BY <2>7
  <2>9. q = [r EXCEPT !.at = "top", !.got = written, !.held = h]
    BY <1>1, <1>5, <2>1, <2>2, <2>3, <2>4, <2>6, <2>7 DEF T, TunnelRelays
  <2>10. /\ q \in TunnelRelays /\ q.at = "top" /\ q.src = r.src /\ q.left = r.left /\ q.got = written /\ q.eof = r.eof
         /\ q.held = h
    BY <1>1, <2>5, <2>8, <2>9 DEF TunnelRelays
  <2>11. None \notin Directions  BY DEF None, Directions
  <2>12. \A y \in Directions : q.got[y] \o HeldFor(q, y) \o q.left[y] = q.src[y]
    <3> SUFFICES ASSUME NEW y \in Directions PROVE q.got[y] \o HeldFor(q, y) \o q.left[y] = q.src[y]  OBVIOUS
    <3>1. r.got[y] \o HeldFor(r, y) \o r.left[y] = r.src[y]  BY <1>2 DEF Flow
    <3>2. HeldFor(q, y) = << >>  BY <2>8, <2>10, <2>11 DEF HeldFor
    <3>3. CASE y = x
      <4>1. HeldFor(r, y) = chunk  BY <1>3, <2>1, <3>3 DEF HeldFor
      <4>2. w \o << >> = w  OBVIOUS
      <4> QED  BY <2>2, <2>3, <2>5, <2>10, <3>1, <3>2, <3>3, <4>1, <4>2
    <3>4. CASE y # x
      <4>1. HeldFor(r, y) = << >>  BY <1>3, <3>4 DEF HeldFor
      <4> QED  BY <2>5, <2>10, <3>1, <3>2, <3>4, <4>1
    <3> QED  BY <3>3, <3>4
  <2>13. \A y \in q.eof : q.left[y] = << >> /\ q.held[1] # y
    <3>1. r.eof \subseteq Directions  BY <1>1 DEF TunnelRelays
    <3> QED  BY <1>2, <2>8, <2>10, <2>11, <3>1 DEF Flow
  <2>14. Flow(q)  BY <2>8, <2>10, <2>12, <2>13 DEF Flow
  <2>15. Tunneled(t, d, q)  BY <1>1, <1>2, <1>5, <2>10, <2>14, RelayGoesOn
  <2> QED  BY <1>1, <2>15 DEF TunnelInv
<1>6. CASE d = Ended(c, "error") /\ q = [r EXCEPT !.at = "off"]
  <2>1. Tunneled(t, d, q)  BY <1>1, <1>2, <1>6, FinishKeeps
  <2> QED  BY <1>1, <2>1 DEF TunnelInv
<1> QED  BY <1>4, <1>5, <1>6

\* A tick of silence changes no stream.
LEMMA IdleKeeps ==
  ASSUME TunnelInv, RelayIdle
  PROVE  TunnelInv'
<1>0. PICK t, c, r, d, q : t = tcase /\ c = conn /\ r = relay /\ d = conn' /\ q = relay'  OBVIOUS
<1>1. tcase' = t /\ conn' = d /\ relay' = q /\ Tunneled(t, c, r) /\ r.at = "select"  BY <1>0 DEF RelayIdle, TunnelInv
<1>2. d = Ended(c, "idle") /\ q = [r EXCEPT !.at = "off"]  BY <1>0 DEF RelayIdle, TunnelFinish
<1>3. c.at = "relay"  BY <1>1 DEF Tunneled, Relayed
<1>4. Tunneled(t, d, q)  BY <1>1, <1>2, <1>3, FinishKeeps
<1> QED  BY <1>1, <1>4 DEF TunnelInv

\* Enough of them end the relay with nothing held.
LEMMA SilenceKeeps ==
  ASSUME TunnelInv, Silence
  PROVE  TunnelInv'
<1>0. PICK t, c, r, q : t = tcase /\ c = conn /\ r = relay /\ q = relay'  OBVIOUS
<1>1. /\ tcase' = t /\ conn' = c /\ relay' = q /\ Tunneled(t, c, r) /\ r.at \in {"select", "write"} /\ r \in TunnelRelays
      /\ q = [r EXCEPT !.quiet = @ + 1]
  BY <1>0 DEF Silence, TunnelInv, Tunneled
<1>2. c.at = "relay" /\ Flow(r)  BY <1>1 DEF Tunneled, Relayed
<1>3. /\ q \in TunnelRelays /\ q.at = r.at /\ q.src = r.src /\ q.left = r.left /\ q.got = r.got /\ q.eof = r.eof
      /\ q.held = r.held
  BY <1>1 DEF TunnelRelays
<1>4. \A y \in Directions : HeldFor(q, y) = HeldFor(r, y)  BY <1>3 DEF HeldFor
<1>5. Flow(q)  BY <1>2, <1>3, <1>4 DEF Flow
<1>6. Tunneled(t, c, q)  BY <1>1, <1>2, <1>3, <1>5, RelayGoesOn
<1> QED  BY <1>1, <1>6 DEF TunnelInv

\* A composed request is sent without the listener.
LEMMA ComposeKeeps ==
  ASSUME TunnelInv, send_direct_request_bytes
  PROVE  TunnelInv'
<1>0. PICK t, c, r, d : t = tcase /\ c = conn /\ r = relay /\ d = conn'  OBVIOUS
<1>1. tcase' = t /\ relay' = r /\ conn' = d /\ Tunneled(t, c, r) /\ c.at = "waiting" /\ c \in TunnelConns
  BY <1>0 DEF send_direct_request_bytes, TunnelInv, Tunneled
<1>2. \/ d = [Ended(c, "invalid") EXCEPT !.mode = "compose"]
      \/ \E out \in {"sent", "failed", "timeout", "body_failed"} :
           d = [Ended(c, out) EXCEPT !.mode = "compose", !.route = "direct"]
  BY <1>0 DEF send_direct_request_bytes
<1>3. CASE d = [Ended(c, "invalid") EXCEPT !.mode = "compose"]
  <2>1. PICK e \in TunnelConns : e = Ended(c, "invalid")  BY <1>1, EndedFields DEF Outcomes
  <2>2. e.at = "over" /\ e.outcome = "invalid" /\ e.route = c.route /\ e.creds = c.creds  BY <1>1, <2>1, EndedFields DEF Outcomes
  <2>3. d \in TunnelConns /\ d.at = "over" /\ d.outcome = "invalid" /\ d.mode = "compose" /\ d.route = c.route /\ d.creds = c.creds
    BY <1>3, <2>1, <2>2 DEF TunnelConns, Modes
  <2>4. Decided(t, d)  BY <1>1, <2>3 DEF Tunneled, Placed, Decided, None
  <2>5. Tunneled(t, d, r)  BY <1>1, <2>3, <2>4, ConnectionEnds
  <2> QED  BY <1>1, <2>5 DEF TunnelInv
<1>4. CASE \E out \in {"sent", "failed", "timeout", "body_failed"} :
             d = [Ended(c, out) EXCEPT !.mode = "compose", !.route = "direct"]
  <2>0. PICK out \in {"sent", "failed", "timeout", "body_failed"} :
          d = [Ended(c, out) EXCEPT !.mode = "compose", !.route = "direct"]
    BY <1>4
  <2>1. PICK e \in TunnelConns : e = Ended(c, out)  BY <1>1, EndedFields DEF Outcomes
  <2>2. e.at = "over" /\ e.outcome = out /\ e.creds = c.creds  BY <1>1, <2>1, EndedFields DEF Outcomes
  <2>3. d \in TunnelConns /\ d.at = "over" /\ d.outcome = out /\ d.mode = "compose" /\ d.creds = c.creds
    BY <2>0, <2>1, <2>2 DEF TunnelConns, Modes
  <2>4. Decided(t, d)  BY <1>1, <2>3 DEF Tunneled, Placed, Decided, None
  <2>5. Tunneled(t, d, r)  BY <1>1, <2>3, <2>4, ConnectionEnds
  <2> QED  BY <1>1, <2>5 DEF TunnelInv
<1> QED  BY <1>2, <1>3, <1>4

\* The settings page probes the upstream proxy.
LEMMA ProxyProbeKeeps ==
  ASSUME TunnelInv, probe_upstream_proxy
  PROVE  TunnelInv'
<1>0. PICK t, c, r, d : t = tcase /\ c = conn /\ r = relay /\ d = conn'  OBVIOUS
<1>1. tcase' = t /\ relay' = r /\ conn' = d /\ Tunneled(t, c, r) /\ c.at = "waiting" /\ c \in TunnelConns
  BY <1>0 DEF probe_upstream_proxy, TunnelInv, Tunneled
<1>2. PICK reached : reached = (dial_via_proxy(t, TargetAddress([t EXCEPT !.override = FALSE])).out = "connected")  OBVIOUS
<1>3. PICK out \in {"reached", "unreached"} : out = IF reached THEN "reached" ELSE "unreached"  OBVIOUS
<1>4. \/ d = [Ended(c, "invalid") EXCEPT !.mode = "probe"]
      \/ d = [Ended(c, out) EXCEPT !.mode = "probe", !.route = "proxy"]
  BY <1>0, <1>2, <1>3 DEF probe_upstream_proxy
<1>5. CASE d = [Ended(c, "invalid") EXCEPT !.mode = "probe"]
  <2>1. PICK e \in TunnelConns : e = Ended(c, "invalid")  BY <1>1, EndedFields DEF Outcomes
  <2>2. e.at = "over" /\ e.outcome = "invalid" /\ e.route = c.route /\ e.creds = c.creds  BY <1>1, <2>1, EndedFields DEF Outcomes
  <2>3. d \in TunnelConns /\ d.at = "over" /\ d.outcome = "invalid" /\ d.mode = "probe" /\ d.route = c.route /\ d.creds = c.creds
    BY <1>5, <2>1, <2>2 DEF TunnelConns, Modes
  <2>4. Decided(t, d)  BY <1>1, <2>3 DEF Tunneled, Placed, Decided, None
  <2>5. Tunneled(t, d, r)  BY <1>1, <2>3, <2>4, ConnectionEnds
  <2> QED  BY <1>1, <2>5 DEF TunnelInv
<1>6. CASE d = [Ended(c, out) EXCEPT !.mode = "probe", !.route = "proxy"]
  <2>1. PICK e \in TunnelConns : e = Ended(c, out)  BY <1>1, EndedFields DEF Outcomes
  <2>2. e.at = "over" /\ e.outcome = out /\ e.creds = c.creds  BY <1>1, <2>1, EndedFields DEF Outcomes
  <2>3. d \in TunnelConns /\ d.at = "over" /\ d.outcome = out /\ d.mode = "probe" /\ d.route = "proxy" /\ d.creds = c.creds
    BY <1>6, <2>1, <2>2 DEF TunnelConns, Modes
  <2>4. Decided(t, d)  BY <1>1, <2>3 DEF Tunneled, Placed, Decided, None
  <2>5. Tunneled(t, d, r)  BY <1>1, <2>3, <2>4, ConnectionEnds
  <2> QED  BY <1>1, <2>5 DEF TunnelInv
<1> QED  BY <1>4, <1>5, <1>6

\* A connection that has not begun.
LEMMA NewKeeps ==
  ASSUME NEW t \in TunnelCases
  PROVE  Tunneled(t, NewConn, NewRelay)
<1>1. PICK c, r : c = NewConn /\ r = NewRelay  OBVIOUS
<1>2. PICK nothing \in Seq(HeadTokens) : nothing = << >>  BY EmptySeq
<1>3. PICK empty \in Seq(Tokens) : empty = << >>  BY EmptySeq
<1>4. c = [at |-> "waiting", mode |-> None, permit |-> FALSE, answer |-> None, route |-> None,
           creds |-> None, verified |-> FALSE, h2 |-> FALSE, buffered |-> nothing, reported |-> FALSE, outcome |-> None]
  BY <1>1, <1>2 DEF NewConn
<1>5. /\ c \in TunnelConns /\ c.at = "waiting" /\ c.mode = None /\ c.answer = None /\ c.route = None /\ c.creds = None
      /\ c.outcome = None
  BY <1>4 DEF TunnelConns, ConnStates, Modes, Outcomes
<1>6. PICK none : none = [up |-> empty, down |-> empty]  OBVIOUS
<1>7. none \in Streams  BY <1>6 DEF Streams, Directions
<1>8. PICK h : h = <<None, empty>>  OBVIOUS
<1>9. h \in (Directions \cup {None}) \X Seq(Tokens)  BY <1>8
<1>10. PICK nobody : nobody = {}  OBVIOUS
<1>11. r = [at |-> "off", src |-> none, left |-> none, got |-> none, eof |-> nobody, held |-> h, quiet |-> 0]
  BY <1>1, <1>3, <1>6, <1>8, <1>10 DEF NewRelay, T
<1>12. r \in TunnelRelays /\ r.at = "off"  BY <1>7, <1>9, <1>10, <1>11 DEF TunnelRelays
<1>13. Placed(c) /\ Prefixed(t, c) /\ Decided(t, c)  BY <1>5 DEF Placed, Prefixed, Decided, None
<1>14. Relayed(c, r)  BY <1>5, <1>12 DEF Relayed, None
<1> QED  BY <1>1, <1>5, <1>12, <1>13, <1>14 DEF Tunneled

\* Every step of a connection, its listener and its relay keeps the invariant.
LEMMA TunnelStep ==
  ASSUME TunnelInv, [NextTunnel]_tunnelVars
  PROVE  TunnelInv'
<1>1. CASE UNCHANGED <<tcase, conn, relay>>  BY <1>1 DEF TunnelInv
<1>2. CASE UNCHANGED tunnelVars  BY <1>1, <1>2 DEF tunnelVars
<1>3. CASE AcceptOther \/ OtherEnds \/ AcceptFails \/ BackoffEnds \/ Shutdown \/ WindowPasses
  BY <1>1, <1>3 DEF AcceptOther, OtherEnds, AcceptFails, BackoffEnds, Shutdown, WindowPasses
<1>4. CASE NextConnection
  <2>1. tcase \in TunnelCases /\ tcase' = tcase /\ conn' = NewConn /\ relay' = NewRelay
    BY <1>4 DEF NextConnection, TunnelInv, Tunneled
  <2>2. PICK t \in TunnelCases : t = tcase  BY <2>1
  <2>3. Tunneled(t, NewConn, NewRelay)  BY NewKeeps
  <2>4. PICK c, r : c = NewConn /\ r = NewRelay  OBVIOUS
  <2>5. Tunneled(t, c, r) /\ tcase' = t /\ conn' = c /\ relay' = r  BY <2>1, <2>2, <2>3, <2>4
  <2> QED  BY <2>5 DEF TunnelInv
<1>5. CASE Accept  BY <1>5, AcceptKeeps
<1>6. CASE read_header_only  BY <1>6, ProbeKeeps
<1>7. CASE ServeCertificate  BY <1>7, CertificateKeeps
<1>8. CASE handle_connection  BY <1>8, HandleKeeps
<1>9. CASE ClientHandshake  BY <1>9, HandshakeKeeps
<1>10. CASE TimingConnectorCall  BY <1>10, ForwardKeeps
<1>11. CASE tunnel_blind_relay  BY <1>11, DialKeeps
<1>12. CASE RelayTop  BY <1>12, RelayTopKeeps
<1>13. CASE \E d \in Directions : RelayRead(d)  BY <1>13, RelayReadKeeps
<1>14. CASE RelayWrite  BY <1>14, RelayWriteKeeps
<1>15. CASE RelayIdle  BY <1>15, IdleKeeps
<1>16. CASE Silence  BY <1>16, SilenceKeeps
<1>17. CASE send_direct_request_bytes  BY <1>17, ComposeKeeps
<1>18. CASE probe_upstream_proxy  BY <1>18, ProxyProbeKeeps
<1> QED BY <1>2, <1>3, <1>4, <1>5, <1>6, <1>7, <1>8, <1>9, <1>10, <1>11, <1>12, <1>13, <1>14, <1>15, <1>16, <1>17, <1>18
  DEF NextTunnel

\* A host that a stored list of the old shape excludes is not intercepted.
LEMMA ExcludedIsNot ==
  ASSUME NEW t \in TunnelCases, should_intercept(Policy(t), t.host), t.host.labels # << >>, t.ssl.shape = "legacy",
         NEW e \in t.ssl.exclude
  PROVE  ~matches(e.pattern, t.host)
<1>1. /\ {"shape", "excludeOn", "exclude", "includeOn", "include"} \subseteq DOMAIN t.ssl
      /\ {"pattern", "enabled"} \subseteq DOMAIN e
  BY TunnelCaseAssumption
<1>2. PICK f : f = [e EXCEPT !.enabled = TRUE]  OBVIOUS
<1>3. f.enabled /\ f.pattern = e.pattern  BY <1>1, <1>2
<1>4. PICK s : s = ssl_deserialize(t.ssl)  OBVIOUS
<1>5. PICK listed : listed = AllEnabled(t.ssl.exclude)  OBVIOUS
<1>6. f \in listed  BY <1>2, <1>5 DEF AllEnabled
<1>7. s.excludeOn /\ s.exclude = listed
  <2>1. PICK st, b, x, y : st = t.ssl /\ b = (t.ssl.include # {}) /\ x = AllEnabled(t.ssl.exclude) /\ y = AllEnabled(t.ssl.include)
    OBVIOUS
  <2>2. s = [st EXCEPT !.excludeOn = TRUE, !.includeOn = b, !.exclude = x, !.include = y]  BY <1>4, <2>1 DEF ssl_deserialize
  <2>3. /\ "excludeOn" \in DOMAIN st /\ "includeOn" \in DOMAIN st /\ "exclude" \in DOMAIN st /\ "include" \in DOMAIN st
    BY <1>1, <2>1
  <2>4. s.excludeOn = TRUE /\ s.exclude = x  BY <2>2, <2>3
  <2> QED  BY <1>5, <2>1, <2>4
<1>8. e.pattern \in enabled_patterns(listed)  BY <1>3, <1>6 DEF enabled_patterns
<1>9. Policy(t).excludeOn /\ Policy(t).exclude = enabled_patterns(listed)
  <2>1. PICK xo, ex, io, in : xo = s.excludeOn /\ ex = enabled_patterns(s.exclude) /\ io = s.includeOn /\ in = enabled_patterns(s.include)
    OBVIOUS
  <2>2. Policy(t) = [excludeOn |-> xo, exclude |-> ex, includeOn |-> io, include |-> in]
    BY <1>4, <2>1 DEF Policy, ssl_to_runtime_config
  <2>3. Policy(t).excludeOn = xo /\ Policy(t).exclude = ex  BY <2>2
  <2> QED  BY <1>7, <2>1, <2>3
<1>10. ~matches_any(enabled_patterns(listed), t.host)  BY <1>9 DEF should_intercept
<1> QED  BY <1>8, <1>10 DEF matches_any

\* What the invariant says of a connection and its relay is what the property asks.
LEMMA TunneledIsTransparent ==
  ASSUME TunnelInv
  PROVE  TunnelIsTransparent
<1>0. PICK t, c, r : t = tcase /\ c = conn /\ r = relay  OBVIOUS
<1>1. Tunneled(t, c, r) /\ t \in TunnelCases /\ r \in TunnelRelays  BY <1>0 DEF TunnelInv, Tunneled
<1>2. ASSUME r.at # "off" \/ c.outcome \in {"idle", "done"}, NEW d \in Directions
      PROVE  /\ r.got[d] \o (IF r.held[1] = d THEN r.held[2] ELSE << >>) \o r.left[d] = r.src[d]
             /\ d \in r.eof \/ c.outcome = "done" => r.got[d] = r.src[d]
             /\ r.at = "off" => r.held[1] = None
  <2>1. Flow(r)  BY <1>1, <1>2 DEF Tunneled, Relayed
  <2>2. r.got[d] \o HeldFor(r, d) \o r.left[d] = r.src[d]  BY <2>1 DEF Flow
  <2>3. ASSUME d \in r.eof \/ c.outcome = "done" PROVE r.got[d] = r.src[d]
    <3>1. d \in r.eof  BY <1>1, <2>3 DEF Tunneled, Relayed
    <3>2. r.left[d] = << >> /\ HeldFor(r, d) = << >>  BY <2>1, <3>1 DEF Flow, HeldFor
    <3>3. PICK g \in Seq(Tokens) : g = r.got[d]  BY <1>1 DEF TunnelRelays, Streams
    <3>4. g \o << >> \o << >> = g  BY <3>3
    <3> QED  BY <2>2, <3>2, <3>3, <3>4
  <2>4. r.at = "off" => r.held[1] = None  BY <2>1 DEF Flow
  <2> QED  BY <2>2, <2>3, <2>4 DEF HeldFor
<1>3. /\ c.mode = "blind" /\ c.answer = "200" => c.route # None
      /\ c.route = "direct" /\ c.mode # "compose" => ~Proxied(t)
      /\ c.mode = "plain" => Head(c.buffered) = T("head", "plain") /\ IsPrefix(Tail(c.buffered), t.client)
      /\ c.creds = "https" => t.proxyCert = "trusted"
  BY <1>1 DEF Tunneled, Decided
<1>4. ASSUME c.outcome = "forwarded", c.mode = "mitm", t.host.labels # << >>
      PROVE  /\ \A e \in t.ssl.exclude : t.ssl.shape = "legacy" => ~matches(e.pattern, t.host)
             /\ t.host \in t.verifyHosts => t.originCert = "trusted"
  <2>1. should_intercept(Policy(t), t.host) /\ (should_verify(t) => t.originCert = "trusted")  BY <1>1, <1>4 DEF Tunneled, Decided
  <2>2. \A e \in t.ssl.exclude : t.ssl.shape = "legacy" => ~matches(e.pattern, t.host)  BY <1>1, <1>4, <2>1, ExcludedIsNot
  <2>3. t.host \in t.verifyHosts => should_verify(t)  BY <1>4 DEF should_verify, host_in_allowlist
  <2> QED  BY <2>1, <2>2, <2>3
<1> QED  BY <1>0, <1>2, <1>3, <1>4 DEF TunnelIsTransparent

\* For any hosts, lists, proxies and streams, a blind tunnel carries exactly what was sent
\* (TunnelIsTransparent).  TunnelInv says where each connection is and what has been decided
\* by then, that what was read past the head is a prefix of the client's stream, and that
\* written, held and unread tokens make up each direction of the relay.
THEOREM TunnelsAreTransparent == TunnelSpec => []TunnelIsTransparent
<1>1. TunnelInit => TunnelInv
  <2> SUFFICES ASSUME TunnelInit PROVE TunnelInv  OBVIOUS
  <2>1. tcase \in TunnelCases /\ conn = NewConn /\ relay = NewRelay  BY DEF TunnelInit, AcceptedCases
  <2> QED  BY <2>1, NewKeeps DEF TunnelInv
<1>2. TunnelInv /\ [NextTunnel]_tunnelVars => TunnelInv'  BY TunnelStep
<1>3. TunnelInv => TunnelIsTransparent  BY TunneledIsTransparent
<1> QED  BY <1>1, <1>2, <1>3, PTL DEF TunnelSpec

-----------------------------------------------------------------------------
(* How an agent follows the sessions (SessionWatch).                       *)

\* The rows: finitely many, none of a session that was removed.
RowsFit(rs, out) ==
  /\ IsFiniteSet(DOMAIN rs) /\ DOMAIN rs \subseteq WatchSessions /\ DOMAIN rs \cap out = {}
  /\ \A s \in DOMAIN rs : rs[s] \in [rowid : Nat, done : BOOLEAN]

\* A session a wait returned is removed, or finished at or below the watermark; one on the
\* page of a poll was not returned before.  While a poll holds its page, every finished match
\* was returned or passed, or it is on the page, cut off it or finished since.
ChainFits(rs, out, w, given, p) ==
  /\ {"pc", "after", "started", "count", "page", "cut", "late"} \subseteq DOMAIN w
  /\ w.after \in Nat /\ (~w.started => w.pc \in {"idle", "off"} /\ given = {})
  /\ \A s \in given : s \in out \/ (s \in DOMAIN rs /\ rs[s].done /\ rs[s].rowid <= w.after)
  /\ w.pc = "counted" =>
       /\ w.page \cap given = {}
       /\ \A s \in w.page : s \in out \/ (s \in DOMAIN rs /\ rs[s].done)
       /\ \A s \in Completed(rs) \cap Matching : s \in given \cup p \cup w.page \cup w.cut \cup w.late
  /\ w.started => \A s \in Completed(rs) \cap Matching : s \in given \cup p \/ rs[s].rowid > w.after

\* Where a search by start stands: what it listed began at or after its cursor, and what was
\* there throughout is listed or began before.
ListedTo(k, c) == /\ \A s \in k.listed : c <= s
                  /\ \A s \in k.there : s \in k.listed \/ s < c
WalkFits(rs, k) ==
  /\ {"pc", "sort", "cursor", "listed", "twice", "there"} \subseteq DOMAIN k
  /\ k.sort = "startedAt" =>
       /\ k.there \subseteq DOMAIN rs /\ k.twice = {} /\ k.listed \subseteq WatchSessions
       /\ \/ k.pc # "walked" /\ k.cursor = << >> /\ k.listed = {}
          \/ k.pc = "walking" /\ \E c \in Nat : k.cursor = <<0, c>> /\ ListedTo(k, c)
          \/ k.pc = "walked" /\ k.there \subseteq k.listed

WatchInv == RowsFit(rows, gone) /\ ChainFits(rows, gone, watch, handed, passed) /\ again = {} /\ WalkFits(rows, walk)

\* Of two numbers of a finite set, fewer lie above the larger one.
LEMMA FewerAbove ==
  ASSUME NEW S, IsFiniteSet(S), S \subseteq Nat, NEW a \in S, NEW b \in S, a < b
  PROVE  Cardinality({t \in S : b < t}) < Cardinality({t \in S : a < t})
<1>1. PICK A : A = {t \in S : a < t}  OBVIOUS
<1>2. PICK B : B = {t \in S : b < t}  OBVIOUS
<1>3. B \in SUBSET A
  <2>1. ASSUME NEW t \in S, b < t PROVE a < t
    <3>1. a \in Nat /\ b \in Nat /\ t \in Nat  BY <2>1
    <3> QED  BY <2>1, <3>1
  <2> QED  BY <1>1, <1>2, <2>1
<1>4. b \in A /\ b \notin B  BY <1>1, <1>2
<1>5. IsFiniteSet(A) /\ A \in SUBSET S  BY <1>1, FS_Subset
<1>6. IsFiniteSet(B) /\ Cardinality(B) <= Cardinality(A) /\ (Cardinality(A) = Cardinality(B) => A = B)  BY <1>3, <1>5, FS_Subset
<1>7. Cardinality(A) \in Nat /\ Cardinality(B) \in Nat  BY <1>5, <1>6, FS_CardinalityType
<1> QED  BY <1>1, <1>2, <1>4, <1>6, <1>7

\* How many of a finite set lie above a number is a number, smaller than their number.
LEMMA CountAbove ==
  ASSUME NEW S, IsFiniteSet(S), S \subseteq Nat, NEW a \in S
  PROVE  /\ Cardinality({t \in S : a < t}) \in Nat
         /\ Cardinality({t \in S : a < t}) < Cardinality(S)
<1>1. PICK A : A = {t \in S : a < t}  OBVIOUS
<1>2. A \in SUBSET S /\ a \notin A  BY <1>1
<1>3. IsFiniteSet(A) /\ Cardinality(A) <= Cardinality(S) /\ (Cardinality(S) = Cardinality(A) => S = A)  BY <1>2, FS_Subset
<1>4. Cardinality(A) \in Nat /\ Cardinality(S) \in Nat  BY <1>3, FS_CardinalityType
<1> QED  BY <1>1, <1>2, <1>3, <1>4

\* A finite set of numbers that is not empty has a greatest one.
LEMMA GreatestExists ==
  ASSUME NEW S, IsFiniteSet(S), S \subseteq Nat, S # {}
  PROVE  \E m \in S : \A t \in S : t <= m
<1>1. PICK I : I = {Cardinality({t \in S : a < t}) : a \in S}  OBVIOUS
<1>2. I \subseteq Nat /\ I # {}  BY <1>1, CountAbove
<1>3. PICK i \in I : \A j \in I : i <= j  BY <1>2, LeastExists
<1>4. PICK m \in S : i = Cardinality({t \in S : m < t})  BY <1>1
<1>5. ASSUME NEW t \in S, m < t PROVE FALSE
  <2>1. PICK j : j = Cardinality({u \in S : t < u})  OBVIOUS
  <2>2. j \in I  BY <1>1, <2>1
  <2>3. j < i  BY <1>4, <1>5, <2>1, FewerAbove
  <2> QED  BY <1>2, <1>3, <2>2, <2>3
<1> QED  BY <1>5

\* Max of such a set.
LEMMA MaxIsGreatest ==
  ASSUME NEW S, IsFiniteSet(S), S \subseteq Nat, S # {}
  PROVE  Max(S) \in S /\ \A t \in S : t <= Max(S)
<1>1. PICK m \in S : \A t \in S : t <= m  BY GreatestExists
<1>2. \E x \in S : \A y \in S : x >= y  BY <1>1
<1>3. Max(S) \in S /\ \A y \in S : Max(S) >= y  BY <1>2 DEF Max
<1> QED  BY <1>3

\* The greatest rowid of some rows, 0 when there is none.
LEMMA GreatestRowid ==
  ASSUME NEW rs, NEW out, RowsFit(rs, out), NEW D, D \subseteq DOMAIN rs
  PROVE  /\ Max({rs[s].rowid : s \in D} \cup {0}) \in Nat
         /\ \A s \in D : rs[s].rowid <= Max({rs[s1].rowid : s1 \in D} \cup {0})
<1>1. IsFiniteSet(D)  BY FS_Subset DEF RowsFit
<1>2. PICK ids : ids = {rs[s].rowid : s \in D}  OBVIOUS
<1>3. IsFiniteSet(ids)
  <2>1. PICK f : f = [s \in D |-> rs[s].rowid]  OBVIOUS
  <2>2. f \in Surjection(D, ids)  BY <1>2, <2>1 DEF Surjection
  <2> QED  BY <1>1, <2>2, FS_Surjection
<1>4. ids \subseteq Nat  BY <1>2 DEF RowsFit
<1>5. PICK U : U = ids \cup {0}  OBVIOUS
<1>6. IsFiniteSet(U) /\ U \subseteq Nat /\ U # {}  BY <1>3, <1>4, <1>5, FS_AddElement
<1>7. Max(U) \in U /\ \A t \in U : t <= Max(U)  BY <1>6, MaxIsGreatest
<1>8. \A s \in D : rs[s].rowid \in U  BY <1>2, <1>5
<1> QED  BY <1>2, <1>5, <1>6, <1>7, <1>8

\* The watermark is at or above every finished row.
LEMMA WatermarkCovers ==
  ASSUME NEW rs, NEW out, RowsFit(rs, out), NEW mark, mark = latest_completed_session_rowid(rs)
  PROVE  mark \in Nat /\ \A s \in Completed(rs) : rs[s].rowid <= mark
<1>1. PICK D : D = Completed(rs)  OBVIOUS
<1>2. D \subseteq DOMAIN rs  BY <1>1 DEF Completed
<1> QED  BY <1>1, <1>2, GreatestRowid DEF latest_completed_session_rowid

\* A page of a search by start: what it leaves out began before everything on it, it leaves
\* out nothing when there is no more, and otherwise its last row is where the next one begins.
LEMMA PageFits ==
  ASSUME NEW S, IsFiniteSet(S), S \subseteq Nat, NEW rs, NEW page, page = FirstOf(rs, "startedAt", S, PageLimit)
  PROVE  /\ page \subseteq S
         /\ \A s \in S \ page : \A t \in page : s < t
         /\ ~(Cardinality(S) > PageLimit) => page = S
         /\ Cardinality(S) > PageLimit =>
              \E l \in page : SortKey(rs, "startedAt", LastOnPage(rs, "startedAt", page)) = <<0, l>> /\ \A t \in page : l <= t
<1>1. \A a, b : Before(SortKey(rs, "startedAt", a), SortKey(rs, "startedAt", b)) <=> a < b  BY DEF SortKey, Before
<1>2. page = {s \in S : Cardinality({t \in S : s < t}) < PageLimit}
  <2>1. ASSUME NEW s PROVE {t \in S : Before(SortKey(rs, "startedAt", s), SortKey(rs, "startedAt", t))} = {t \in S : s < t}
    BY <1>1
  <2> QED  BY <2>1 DEF FirstOf
<1>3. ASSUME NEW s \in S \ page, NEW t \in page PROVE s < t
  <2>1. s \in Nat /\ t \in Nat /\ s # t /\ s \in S /\ t \in S  BY <1>2, <1>3
  <2>2. CASE t < s
    <3>1. PICK i, j : i = Cardinality({u \in S : s < u}) /\ j = Cardinality({u \in S : t < u})  OBVIOUS
    <3>2. i < j /\ i \in Nat /\ j \in Nat  BY <2>1, <2>2, <3>1, FewerAbove, CountAbove
    <3>3. j < PageLimit /\ ~(i < PageLimit)  BY <1>2, <1>3, <2>1, <3>1
    <3> QED  BY <3>2, <3>3, WatchAssumption
  <2> QED  BY <2>1, <2>2
<1>4. ASSUME ~(Cardinality(S) > PageLimit) PROVE page = S
  <2>1. Cardinality(S) \in Nat  BY FS_CardinalityType
  <2>2. ASSUME NEW s \in S PROVE Cardinality({t \in S : s < t}) < PageLimit
    <3>1. PICK i : i = Cardinality({t \in S : s < t})  OBVIOUS
    <3>2. i \in Nat /\ i < Cardinality(S)  BY <3>1, CountAbove
    <3> QED  BY <1>4, <2>1, <3>1, <3>2, WatchAssumption
  <2> QED  BY <1>2, <2>2
<1>5. ASSUME Cardinality(S) > PageLimit
      PROVE  \E l \in page : SortKey(rs, "startedAt", LastOnPage(rs, "startedAt", page)) = <<0, l>> /\ \A t \in page : l <= t
  <2>1. S # {}  BY <1>5, FS_EmptySet, WatchAssumption
  <2>2. PICK m \in S : \A t \in S : t <= m  BY <2>1, GreatestExists
  <2>3. m \in page
    <3>1. {t \in S : m < t} = {}
      <4>1. ASSUME NEW t \in S PROVE ~(m < t)
        <5>1. t \in Nat /\ m \in Nat /\ t <= m  BY <2>2
        <5> QED  BY <5>1
      <4> QED  BY <4>1
    <3> QED  BY <1>2, <3>1, FS_EmptySet, WatchAssumption
  <2>4. page \subseteq Nat  BY <1>2
  <2>5. PICK l \in page : \A t \in page : l <= t  BY <2>3, <2>4, LeastExists
  <2>6. \A t \in page \ {l} : l < t  BY <2>4, <2>5
  <2>7. PICK d : d = LastOnPage(rs, "startedAt", page)  OBVIOUS
  <2>8. d = CHOOSE s \in page : \A t \in page \ {s} : s < t  BY <1>1, <2>7 DEF LastOnPage
  <2>9. d \in page /\ \A t \in page \ {d} : d < t  BY <2>6, <2>8
  <2>10. d = l
    <3>1. CASE d # l
      <4>1. d < l /\ l < d  BY <2>6, <2>9, <3>1
      <4> QED  BY <2>4, <2>9, <4>1
    <3> QED  BY <3>1
  <2> QED  BY <2>5, <2>7, <2>10 DEF SortKey
<1> QED  BY <1>2, <1>3, <1>4, <1>5

\* The rows once a session is written: it is finished or not as written, every other row and
\* every rowid stays.
LEMMA WrittenRows ==
  ASSUME NEW rs, NEW out, RowsFit(rs, out), NEW s \in WatchSessions \ out, NEW done \in BOOLEAN, NEW new,
         new = IF s \in DOMAIN rs THEN [rs EXCEPT ![s].done = done]
               ELSE [t \in DOMAIN rs \cup {s} |-> IF t = s THEN Row(NextRowid(rs), done) ELSE rs[t]]
  PROVE  /\ RowsFit(new, out) /\ DOMAIN new = DOMAIN rs \cup {s} /\ new[s].done = done
         /\ \A t \in DOMAIN rs : new[t].rowid = rs[t].rowid /\ (t # s => new[t] = rs[t])
<1>1. IsFiniteSet(DOMAIN rs \cup {s})  BY FS_AddElement DEF RowsFit
<1>2. CASE s \in DOMAIN rs
  <2>1. PICK f : f = [rs[s] EXCEPT !.done = done]  OBVIOUS
  <2>2. f \in [rowid : Nat, done : BOOLEAN] /\ f.rowid = rs[s].rowid /\ f.done = done  BY <1>2, <2>1 DEF RowsFit
  <2>3. new = [rs EXCEPT ![s] = f]  BY <1>2, <2>1
  <2>4. DOMAIN new = DOMAIN rs /\ new[s] = f /\ \A t \in DOMAIN rs : t # s => new[t] = rs[t]  BY <1>2, <2>3
  <2> QED  BY <1>2, <2>2, <2>4 DEF RowsFit
<1>3. CASE s \notin DOMAIN rs
  <2>1. PICK n : n = NextRowid(rs)  OBVIOUS
  <2>2. n \in Nat
    <3>1. PICK D : D = DOMAIN rs  OBVIOUS
    <3>2. Max({rs[t].rowid : t \in D} \cup {0}) \in Nat  BY <3>1, GreatestRowid
    <3> QED  BY <2>1, <3>1, <3>2 DEF NextRowid
  <2>3. PICK f : f = Row(n, done)  OBVIOUS
  <2>4. f \in [rowid : Nat, done : BOOLEAN] /\ f.done = done  BY <2>2, <2>3 DEF Row
  <2>5. new = [t \in DOMAIN rs \cup {s} |-> IF t = s THEN f ELSE rs[t]]  BY <1>3, <2>1, <2>3
  <2>6. DOMAIN new = DOMAIN rs \cup {s} /\ new[s] = f /\ \A t \in DOMAIN rs : t # s => new[t] = rs[t]  BY <2>5
  <2>7. s \notin out  OBVIOUS
  <2> QED  BY <1>1, <1>3, <2>4, <2>6, <2>7 DEF RowsFit
<1> QED  BY <1>2, <1>3

\* A session is inserted, or one in flight is written again.
LEMMA WrittenStep ==
  ASSUME WatchInv, NEW s \in WatchSessions \ gone, s \in DOMAIN rows => ~rows[s].done,
         NEW done \in BOOLEAN, Written(s, done)
  PROVE  WatchInv'
<1>1. PICK rs, new, out, w, given, p, k : /\ rs = rows /\ new = rows' /\ out = gone /\ w = watch /\ given = handed
                                          /\ p = passed /\ k = walk
  OBVIOUS
<1>2. RowsFit(rs, out) /\ ChainFits(rs, out, w, given, p) /\ WalkFits(rs, k)  BY <1>1 DEF WatchInv
<1>3. new = IF s \in DOMAIN rs THEN [rs EXCEPT ![s].done = done]
            ELSE [t \in DOMAIN rs \cup {s} |-> IF t = s THEN Row(NextRowid(rs), done) ELSE rs[t]]
  BY <1>1 DEF Written
<1>4. /\ RowsFit(new, out) /\ DOMAIN new = DOMAIN rs \cup {s} /\ new[s].done = done
      /\ \A t \in DOMAIN rs : new[t].rowid = rs[t].rowid /\ (t # s => new[t] = rs[t])
  BY <1>1, <1>2, <1>3, WrittenRows
<1>5. PICK v, q : v = watch' /\ q = passed'  OBVIOUS
<1>6. PICK late : late = w.late \cup (IF w.pc = "counted" /\ new[s].done THEN {s} ELSE {})  OBVIOUS
<1>7. v = [w EXCEPT !.late = late]
  <2>1. watch' = [watch EXCEPT !.late = @ \cup Late(s, new)]  BY <1>1 DEF Written
  <2> QED  BY <1>1, <1>5, <1>6, <2>1 DEF Late
<1>8. q = IF w.started /\ new[s].rowid <= w.after THEN p \cup {s} ELSE p  BY <1>1, <1>5 DEF Written, Overtaken
<1>9. /\ {"pc", "after", "started", "count", "page", "cut", "late"} \subseteq DOMAIN v /\ v.pc = w.pc /\ v.after = w.after
      /\ v.started = w.started /\ v.page = w.page /\ v.cut = w.cut /\ v.late = late
  BY <1>2, <1>7 DEF ChainFits
<1>10. s \notin given /\ (w.pc = "counted" => s \notin w.page)  BY <1>1, <1>2 DEF ChainFits
<1>11. new[s].rowid \in Nat /\ w.after \in Nat  BY <1>2, <1>4 DEF RowsFit, ChainFits
<1>12. \A t \in Completed(new) : t = s \/ t \in Completed(rs)  BY <1>4 DEF Completed
<1>13. ChainFits(new, out, v, given, q)
  <2>1. \A t \in given : t \in out \/ (t \in DOMAIN new /\ new[t].done /\ new[t].rowid <= v.after)
    BY <1>2, <1>4, <1>9, <1>10 DEF ChainFits
  <2>2. ASSUME v.pc = "counted"
        PROVE  /\ v.page \cap given = {}
               /\ \A t \in v.page : t \in out \/ (t \in DOMAIN new /\ new[t].done)
               /\ \A t \in Completed(new) \cap Matching : t \in given \cup q \cup v.page \cup v.cut \cup v.late
    <3>1. v.page \cap given = {} /\ \A t \in v.page : t \in out \/ (t \in DOMAIN new /\ new[t].done)
      BY <1>2, <1>4, <1>9, <1>10, <2>2 DEF ChainFits
    <3>2. ASSUME NEW t \in Completed(new) \cap Matching PROVE t \in given \cup q \cup v.page \cup v.cut \cup v.late
      <4>1. CASE t = s  BY <1>4, <1>6, <1>9, <2>2, <3>2, <4>1 DEF Completed
      <4>2. CASE t # s  BY <1>2, <1>6, <1>8, <1>9, <1>12, <2>2, <3>2, <4>2 DEF ChainFits
      <4> QED  BY <4>1, <4>2
    <3> QED  BY <3>1, <3>2
  <2>3. ASSUME v.started, NEW t \in Completed(new) \cap Matching PROVE t \in given \cup q \/ new[t].rowid > v.after
    <3>1. CASE t = s  BY <1>8, <1>9, <1>11, <2>3, <3>1
    <3>2. CASE t # s
      <4>1. t \in Completed(rs) \cap Matching  BY <1>12, <2>3, <3>2
      <4>2. t \in given \cup p \/ rs[t].rowid > w.after  BY <1>2, <1>9, <2>3, <4>1 DEF ChainFits
      <4>3. t \in DOMAIN rs  BY <4>1 DEF Completed
      <4> QED  BY <1>4, <1>8, <1>9, <4>2, <4>3
    <3> QED  BY <3>1, <3>2
  <2>4. v.after \in Nat /\ (~v.started => v.pc \in {"idle", "off"} /\ given = {})  BY <1>2, <1>9 DEF ChainFits
  <2> QED  BY <1>9, <2>1, <2>2, <2>3, <2>4 DEF ChainFits
<1>14. WalkFits(new, k)  BY <1>2, <1>4 DEF WalkFits
<1>15. gone' = out /\ handed' = given /\ again' = again /\ walk' = k  BY <1>1 DEF Written
<1> QED  BY <1>1, <1>4, <1>5, <1>13, <1>14, <1>15 DEF WatchInv

\* Rows are removed.
LEMMA RemovedStep ==
  ASSUME WatchInv, NEW S, S \subseteq DOMAIN rows, Removed(S)
  PROVE  WatchInv'
<1>1. PICK rs, new, out, w, given, p, k, l : /\ rs = rows /\ new = rows' /\ out = gone /\ w = watch /\ given = handed
                                             /\ p = passed /\ k = walk /\ l = walk'
  OBVIOUS
<1>2. RowsFit(rs, out) /\ ChainFits(rs, out, w, given, p) /\ WalkFits(rs, k)  BY <1>1 DEF WatchInv
<1>3. new = [s \in DOMAIN rs \ S |-> rs[s]]  BY <1>1 DEF Removed
<1>4. DOMAIN new = DOMAIN rs \ S /\ \A s \in DOMAIN new : new[s] = rs[s]  BY <1>3
<1>5. RowsFit(new, out \cup S)
  <2>1. IsFiniteSet(DOMAIN rs \ S)  BY <1>2, FS_Subset DEF RowsFit
  <2> QED  BY <1>1, <1>2, <1>4, <2>1 DEF RowsFit
<1>6. Completed(new) \subseteq Completed(rs)  BY <1>4 DEF Completed
<1>7. ChainFits(new, out \cup S, w, given, p)
  <2>1. \A s \in given : s \in out \cup S \/ (s \in DOMAIN new /\ new[s].done /\ new[s].rowid <= w.after)
    BY <1>2, <1>4 DEF ChainFits
  <2>2. w.pc = "counted" => \A s \in w.page : s \in out \cup S \/ (s \in DOMAIN new /\ new[s].done)  BY <1>2, <1>4 DEF ChainFits
  <2>3. ASSUME w.started, NEW s \in Completed(new) \cap Matching PROVE s \in given \cup p \/ new[s].rowid > w.after
    <3>1. s \in DOMAIN new  BY <2>3 DEF Completed
    <3> QED  BY <1>2, <1>4, <1>6, <2>3, <3>1 DEF ChainFits
  <2> QED  BY <1>2, <1>6, <2>1, <2>2, <2>3 DEF ChainFits
<1>8. WalkFits(new, l)
  <2>1. l = [k EXCEPT !.there = @ \ S]  BY <1>1 DEF Removed
  <2>2. /\ {"pc", "sort", "cursor", "listed", "twice", "there"} \subseteq DOMAIN l /\ l.pc = k.pc /\ l.sort = k.sort
        /\ l.cursor = k.cursor /\ l.listed = k.listed /\ l.twice = k.twice /\ l.there = k.there \ S
    BY <1>2, <2>1 DEF WalkFits
  <2>3. ASSUME NEW c, ListedTo(k, c) PROVE ListedTo(l, c)  BY <2>2, <2>3 DEF ListedTo
  <2>4. k.there \subseteq DOMAIN rs => l.there \subseteq DOMAIN new  BY <1>4, <2>2
  <2> QED  BY <1>2, <2>2, <2>3, <2>4 DEF WalkFits
<1>9. gone' = out \cup S /\ watch' = w /\ handed' = given /\ again' = again /\ passed' = p  BY <1>1 DEF Removed
<1> QED  BY <1>1, <1>5, <1>7, <1>8, <1>9 DEF WatchInv

\* A wait starts.
LEMMA StartWaitStep ==
  ASSUME WatchInv, NEW n, StartWait(n)
  PROVE  WatchInv'
<1>1. PICK rs, out, w, given, p, v, q : /\ rs = rows /\ out = gone /\ w = watch /\ given = handed
                                        /\ p = passed /\ v = watch' /\ q = passed'
  OBVIOUS
<1>2. RowsFit(rs, out) /\ ChainFits(rs, out, w, given, p)  BY <1>1 DEF WatchInv
<1>3. PICK mark : mark = latest_completed_session_rowid(rs)  OBVIOUS
<1>4. mark \in Nat /\ \A s \in Completed(rs) : rs[s].rowid <= mark  BY <1>2, <1>3, WatermarkCovers
<1>5. PICK after : after = IF w.started THEN w.after ELSE mark  OBVIOUS
<1>6. v = [w EXCEPT !.pc = "polling", !.started = TRUE, !.count = n, !.after = after]  BY <1>1, <1>3, <1>5 DEF StartWait
<1>7. /\ {"pc", "after", "started", "count", "page", "cut", "late"} \subseteq DOMAIN v /\ v.pc = "polling" /\ v.started
      /\ v.after = after /\ after \in Nat
  BY <1>2, <1>4, <1>5, <1>6 DEF ChainFits
<1>8. q = IF w.started THEN p ELSE {s \in DOMAIN rs : rs[s].rowid <= mark}  BY <1>1, <1>3 DEF StartWait
<1>9. \A s \in given : s \in out \/ (s \in DOMAIN rs /\ rs[s].done /\ rs[s].rowid <= v.after)  BY <1>2, <1>5, <1>7 DEF ChainFits
<1>10. \A s \in Completed(rs) \cap Matching : s \in given \cup q \/ rs[s].rowid > v.after
  <2>1. CASE w.started  BY <1>2, <1>5, <1>7, <1>8, <2>1 DEF ChainFits
  <2>2. CASE ~w.started  BY <1>4, <1>8, <2>2 DEF Completed
  <2> QED  BY <2>1, <2>2
<1>11. ChainFits(rs, out, v, given, q)  BY <1>7, <1>9, <1>10 DEF ChainFits
<1>12. rows' = rs /\ gone' = out /\ handed' = given /\ again' = again /\ walk' = walk  BY <1>1 DEF StartWait
<1> QED  BY <1>1, <1>11, <1>12 DEF WatchInv

\* The page of a poll: nothing on it was returned before.
LEMMA PollPageStep ==
  ASSUME WatchInv, PollPage
  PROVE  WatchInv'
<1>1. PICK rs, out, w, given, p, v : /\ rs = rows /\ out = gone /\ w = watch /\ given = handed
                                     /\ p = passed /\ v = watch'
  OBVIOUS
<1>2. RowsFit(rs, out) /\ ChainFits(rs, out, w, given, p)  BY <1>1 DEF WatchInv
<1>3. PICK found : found = Fresh(rs, w.after)  OBVIOUS
<1>4. PICK page : page = Newest(found, w.count)  OBVIOUS
<1>5. v = [w EXCEPT !.pc = "counted", !.page = page, !.late = {}, !.cut = found \ page] /\ w.pc = "polling"
  BY <1>1, <1>3, <1>4 DEF PollPage
<1>6. /\ {"pc", "after", "started", "count", "page", "cut", "late"} \subseteq DOMAIN v /\ v.pc = "counted" /\ v.started = w.started
      /\ v.after = w.after /\ v.page = page /\ v.cut = found \ page /\ w.started
  BY <1>2, <1>5 DEF ChainFits
<1>7. page \subseteq found  BY <1>4 DEF Newest
<1>8. \A s \in found : s \in DOMAIN rs /\ rs[s].done /\ rs[s].rowid > w.after  BY <1>3 DEF Fresh, Completed
<1>9. page \cap given = {}
  <2>1. ASSUME NEW s \in found, s \in given PROVE FALSE
    <3>1. s \in DOMAIN rs /\ rs[s].rowid > w.after /\ rs[s].rowid \in Nat /\ w.after \in Nat
      BY <1>2, <1>8, <2>1 DEF RowsFit, ChainFits
    <3>2. s \notin out  BY <1>2, <3>1 DEF RowsFit
    <3>3. rs[s].rowid <= w.after  BY <1>2, <2>1, <3>2 DEF ChainFits
    <3> QED  BY <3>1, <3>3
  <2> QED  BY <1>7, <2>1
<1>10. \A s \in page : s \in out \/ (s \in DOMAIN rs /\ rs[s].done)  BY <1>7, <1>8
<1>11. ASSUME NEW s \in Completed(rs) \cap Matching PROVE s \in given \cup p \cup page \cup (found \ page)
  <2>1. s \in given \cup p \/ rs[s].rowid > w.after  BY <1>2, <1>6, <1>11 DEF ChainFits
  <2>2. rs[s].rowid > w.after => s \in found  BY <1>3, <1>11 DEF Fresh
  <2> QED  BY <2>1, <2>2
<1>12. ChainFits(rs, out, v, given, p)  BY <1>2, <1>6, <1>9, <1>10, <1>11 DEF ChainFits
<1>13. rows' = rs /\ gone' = out /\ handed' = given /\ again' = again /\ passed' = p /\ walk' = walk  BY <1>1 DEF PollPage
<1> QED  BY <1>1, <1>12, <1>13 DEF WatchInv

\* An answer: the new watermark is at or above everything it returns.
LEMMA PollAnswersStep ==
  ASSUME WatchInv, PollAnswers
  PROVE  WatchInv'
<1>1. PICK rs, out, w, given, p, v, q : /\ rs = rows /\ out = gone /\ w = watch /\ given = handed
                                        /\ p = passed /\ v = watch' /\ q = passed'
  OBVIOUS
<1>2. RowsFit(rs, out) /\ ChainFits(rs, out, w, given, p)  BY <1>1 DEF WatchInv
<1>3. PICK mark : mark = latest_completed_session_rowid(rs)  OBVIOUS
<1>4. mark \in Nat /\ \A s \in Completed(rs) : rs[s].rowid <= mark  BY <1>2, <1>3, WatermarkCovers
<1>5. v = [w EXCEPT !.pc = "idle", !.after = mark, !.page = {}, !.cut = {}, !.late = {}] /\ w.pc = "counted"
  BY <1>1, <1>3 DEF PollAnswers
<1>6. /\ {"pc", "after", "started", "count", "page", "cut", "late"} \subseteq DOMAIN v /\ v.pc = "idle" /\ v.started = w.started
      /\ v.after = mark /\ w.started
  BY <1>2, <1>5 DEF ChainFits
<1>7. p \cup w.cut \cup w.late \subseteq q  BY <1>1 DEF PollAnswers
<1>8. \A s \in given \cup w.page : s \in out \/ (s \in DOMAIN rs /\ rs[s].done /\ rs[s].rowid <= mark)
  <2>1. \A s \in given \cup w.page : s \in out \/ (s \in DOMAIN rs /\ rs[s].done)  BY <1>2, <1>5 DEF ChainFits
  <2> QED  BY <1>4, <2>1 DEF Completed
<1>9. \A s \in Completed(rs) \cap Matching : s \in given \cup w.page \cup q  BY <1>2, <1>5, <1>7 DEF ChainFits
<1>10. ChainFits(rs, out, v, given \cup w.page, q)  BY <1>4, <1>6, <1>8, <1>9 DEF ChainFits
<1>11. rows' = rs /\ gone' = out /\ handed' = given \cup w.page /\ walk' = walk  BY <1>1 DEF PollAnswers
<1>12. again' = {}
  <2>1. again' = again \cup (given \cap w.page) /\ again = {}  BY <1>1 DEF PollAnswers, WatchInv
  <2> QED  BY <1>2, <1>5, <2>1 DEF ChainFits
<1> QED  BY <1>1, <1>10, <1>11, <1>12 DEF WatchInv

\* A poll found too few and asks again.
LEMMA PollAgainStep ==
  ASSUME WatchInv, PollAgain
  PROVE  WatchInv'
<1>1. PICK rs, out, w, given, p, v : /\ rs = rows /\ out = gone /\ w = watch /\ given = handed
                                     /\ p = passed /\ v = watch'
  OBVIOUS
<1>2. ChainFits(rs, out, w, given, p)  BY <1>1 DEF WatchInv
<1>3. v = [w EXCEPT !.pc = "polling", !.page = {}, !.cut = {}, !.late = {}] /\ w.pc = "counted"  BY <1>1 DEF PollAgain
<1>4. /\ {"pc", "after", "started", "count", "page", "cut", "late"} \subseteq DOMAIN v /\ v.pc = "polling" /\ v.started = w.started
      /\ v.after = w.after /\ w.started
  BY <1>2, <1>3 DEF ChainFits
<1>5. ChainFits(rs, out, v, given, p)  BY <1>2, <1>4 DEF ChainFits
<1>6. rows' = rs /\ gone' = out /\ handed' = given /\ again' = again /\ passed' = p /\ walk' = walk  BY <1>1 DEF PollAgain
<1> QED  BY <1>1, <1>5, <1>6 DEF WatchInv

\* A search starts.
LEMMA StartWalkStep ==
  ASSUME WatchInv, StartWalk
  PROVE  WatchInv'
<1>1. PICK rs, k, l : rs = rows /\ k = walk /\ l = walk'  OBVIOUS
<1>2. WalkFits(rs, k)  BY <1>1 DEF WatchInv
<1>3. l = [k EXCEPT !.pc = "walking", !.there = DOMAIN rs] /\ k.pc = "idle"  BY <1>1 DEF StartWalk
<1>4. /\ {"pc", "sort", "cursor", "listed", "twice", "there"} \subseteq DOMAIN l /\ l.pc = "walking" /\ l.sort = k.sort
      /\ l.cursor = k.cursor /\ l.listed = k.listed /\ l.twice = k.twice /\ l.there = DOMAIN rs
  BY <1>2, <1>3 DEF WalkFits
<1>5. WalkFits(rs, l)  BY <1>2, <1>3, <1>4 DEF WalkFits
<1>6. UNCHANGED <<rows, gone, watch, handed, again, passed>>  BY DEF StartWalk
<1> QED  BY <1>1, <1>5, <1>6 DEF WatchInv

\* A page of a search: the rows behind the cursor were not listed before.
LEMMA WalkPageStep ==
  ASSUME WatchInv, WalkPage
  PROVE  WatchInv'
<1>1. PICK rs, out, k, l : rs = rows /\ out = gone /\ k = walk /\ l = walk'  OBVIOUS
<1>2. RowsFit(rs, out) /\ WalkFits(rs, k)  BY <1>1 DEF WatchInv
<1>3. PICK found : found = Behind(rs, k.sort, k.cursor)  OBVIOUS
<1>4. PICK page : page = FirstOf(rs, k.sort, found, PageLimit)  OBVIOUS
<1>5. PICK more \in BOOLEAN : more <=> Cardinality(found) > PageLimit  OBVIOUS
<1>6. PICK pc, cursor, listed, twice : /\ pc = IF more THEN "walking" ELSE "walked"
                                       /\ cursor = IF more THEN SortKey(rs, k.sort, LastOnPage(rs, k.sort, page)) ELSE k.cursor
                                       /\ listed = k.listed \cup page /\ twice = k.twice \cup (k.listed \cap page)
  OBVIOUS
<1>7. l = [k EXCEPT !.listed = listed, !.twice = twice, !.pc = pc, !.cursor = cursor] /\ k.pc = "walking"
  BY <1>1, <1>3, <1>4, <1>5, <1>6 DEF WalkPage
<1>8. /\ {"pc", "sort", "cursor", "listed", "twice", "there"} \subseteq DOMAIN l /\ l.pc = pc /\ l.sort = k.sort
      /\ l.cursor = cursor /\ l.listed = listed /\ l.twice = twice /\ l.there = k.there
  BY <1>2, <1>7 DEF WalkFits
<1>9. ASSUME k.sort = "startedAt" PROVE WalkFits(rs, l)
  <2>1. IsFiniteSet(found) /\ found \subseteq DOMAIN rs /\ found \subseteq Nat
    <3>1. found \in SUBSET DOMAIN rs  BY <1>3 DEF Behind
    <3>2. DOMAIN rs \subseteq Nat  BY <1>2, WatchAssumption DEF RowsFit
    <3> QED  BY <1>2, <3>1, <3>2, FS_Subset DEF RowsFit
  <2>2. /\ page \subseteq found
        /\ \A s \in found \ page : \A t \in page : s < t
        /\ ~more => page = found
        /\ more => \E d \in page : cursor = <<0, d>> /\ \A t \in page : d <= t
    BY <1>4, <1>5, <1>6, <1>9, <2>1, PageFits
  <2>3. /\ k.there \subseteq DOMAIN rs /\ k.twice = {} /\ k.listed \subseteq WatchSessions
        /\ \/ k.cursor = << >> /\ k.listed = {}
           \/ \E c \in Nat : k.cursor = <<0, c>> /\ ListedTo(k, c)
    BY <1>2, <1>7, <1>9 DEF WalkFits
  <2>4. k.listed \subseteq Nat /\ k.there \subseteq Nat /\ page \subseteq WatchSessions
    BY <1>2, <2>1, <2>2, <2>3, WatchAssumption DEF RowsFit
  <2>5. k.listed \cap page = {} /\ (\A s \in k.there : s \in k.listed \/ s \in found) /\ \A s \in k.listed : \A t \in page : t < s
    <3>1. CASE k.cursor = << >> /\ k.listed = {}  BY <1>3, <2>3, <3>1 DEF Behind
    <3>2. ASSUME NEW c \in Nat, k.cursor = <<0, c>>, ListedTo(k, c)
          PROVE  /\ k.listed \cap page = {} /\ (\A s \in k.there : s \in k.listed \/ s \in found)
                 /\ \A s \in k.listed : \A t \in page : t < s
      <4>1. \A s \in DOMAIN rs : s \in found <=> s < c  BY <1>3, <1>9, <3>2 DEF Behind, SortKey, Before
      <4>2. \A s \in k.there : s \in k.listed \/ s \in found  BY <2>3, <3>2, <4>1 DEF ListedTo
      <4>3. ASSUME NEW s \in k.listed, NEW t \in page PROVE t < s
        <5>1. c <= s /\ t < c /\ s \in Nat /\ t \in Nat  BY <2>1, <2>2, <2>4, <3>2, <4>1, <4>3 DEF ListedTo
        <5> QED  BY <5>1
      <4>4. ASSUME NEW s \in k.listed, s \in page PROVE FALSE
        <5>1. s < s /\ s \in Nat  BY <2>4, <4>3, <4>4
        <5> QED  BY <5>1
      <4> QED  BY <4>2, <4>3, <4>4
    <3> QED  BY <2>3, <3>1, <3>2
  <2>6. twice = {} /\ listed \subseteq WatchSessions  BY <1>6, <2>3, <2>4, <2>5
  <2>7. CASE more
    <3>1. PICK d \in page : cursor = <<0, d>> /\ \A t \in page : d <= t  BY <2>2, <2>7
    <3>2. d \in Nat  BY <2>1, <2>2, <3>1
    <3>3. ASSUME NEW s \in listed PROVE d <= s
      <4>1. CASE s \in page  BY <3>1, <4>1
      <4>2. CASE s \in k.listed
        <5>1. d < s /\ s \in Nat  BY <2>4, <2>5, <3>1, <4>2
        <5> QED  BY <3>2, <5>1
      <4> QED  BY <1>6, <3>3, <4>1, <4>2
    <3>4. \A s \in k.there : s \in listed \/ s < d  BY <1>6, <2>2, <2>5, <3>1
    <3>5. ListedTo(l, d)  BY <1>8, <3>3, <3>4 DEF ListedTo
    <3>6. pc = "walking"  BY <1>6, <2>7
    <3> QED  BY <1>8, <2>3, <2>6, <3>1, <3>2, <3>5, <3>6 DEF WalkFits
  <2>8. CASE ~more
    <3>1. pc = "walked" /\ k.there \subseteq listed  BY <1>6, <2>2, <2>5, <2>8
    <3> QED  BY <1>8, <2>3, <2>6, <3>1 DEF WalkFits
  <2> QED  BY <2>7, <2>8
<1>10. ASSUME k.sort # "startedAt" PROVE WalkFits(rs, l)  BY <1>8, <1>10 DEF WalkFits
<1>11. UNCHANGED <<rows, gone, watch, handed, again, passed>>  BY DEF WalkPage
<1> QED  BY <1>1, <1>9, <1>10, <1>11 DEF WatchInv

\* Every step keeps the invariant.
LEMMA WatchStep == WatchInv /\ [WatchNext]_watchVars => WatchInv'
<1> SUFFICES ASSUME WatchInv, [WatchNext]_watchVars PROVE WatchInv'  OBVIOUS
<1>1. ASSUME NEW s \in WatchSessions, NEW done \in BOOLEAN, InsertSession(s, done) PROVE WatchInv'
  BY <1>1, WrittenStep DEF InsertSession
<1>2. ASSUME NEW s \in WatchSessions, FinishSession(s) PROVE WatchInv'
  <2>1. s \notin gone  BY <1>2 DEF FinishSession, WatchInv, RowsFit
  <2> QED  BY <1>2, <2>1, WrittenStep DEF FinishSession
<1>3. ASSUME NEW s \in WatchSessions, RemoveSession(s) PROVE WatchInv'
  <2>1. PICK S : S = {s}  OBVIOUS
  <2>2. S \subseteq DOMAIN rows /\ Removed(S)  BY <1>3, <2>1 DEF RemoveSession
  <2> QED  BY <2>2, RemovedStep
<1>4. CASE ClearSessions  BY <1>4, RemovedStep DEF ClearSessions
<1>5. ASSUME NEW n \in 1..MaxCount, StartWait(n) PROVE WatchInv'  BY <1>5, StartWaitStep
<1>6. CASE PollPage  BY <1>6, PollPageStep
<1>7. CASE PollAnswers  BY <1>7, PollAnswersStep
<1>8. CASE PollAgain  BY <1>8, PollAgainStep
<1>9. CASE StartWalk  BY <1>9, StartWalkStep
<1>10. CASE WalkPage  BY <1>10, WalkPageStep
<1>11. CASE UNCHANGED watchVars  BY <1>11 DEF watchVars, WatchInv
<1> QED  BY <1>1, <1>2, <1>3, <1>4, <1>5, <1>6, <1>7, <1>8, <1>9, <1>10, <1>11 DEF WatchNext

\* For any number of sessions, any filter, page size and count, and rows written, finished and
\* removed between any two queries: a chain of waits hands over no session twice and misses
\* none but for the reasons the code accepts, and a search by start lists every row that was
\* there throughout, none twice (TrafficIsFollowed).  WatchInv adds that a session the waits
\* returned lies at or below the watermark, and where a search stands.
THEOREM TrafficAlwaysFollowed == WatchSpec => []TrafficIsFollowed
<1>1. WatchInit => WatchInv
  <2> SUFFICES ASSUME WatchInit PROVE WatchInv  OBVIOUS
  <2>1. PICK rs, out, w, given, p, k : /\ rs = rows /\ out = gone /\ w = watch /\ given = handed /\ p = passed /\ k = walk
    OBVIOUS
  <2>2. DOMAIN rs = {} /\ out = {} /\ given = {} /\ p = {} /\ again = {}  BY <2>1 DEF WatchInit
  <2>3. RowsFit(rs, out)  BY <2>2, FS_EmptySet DEF RowsFit
  <2>4. w = NoWatch \/ w = [NoWatch EXCEPT !.pc = Off]  BY <2>1 DEF WatchInit
  <2>5. /\ {"pc", "after", "started", "count", "page", "cut", "late"} \subseteq DOMAIN w
        /\ w.after = 0 /\ w.started = FALSE /\ w.pc \in {"idle", "off"}
    BY <2>4 DEF NoWatch, Off
  <2>6. ChainFits(rs, out, w, given, p)  BY <2>2, <2>5 DEF ChainFits, Completed
  <2>7. k = [NoWalk EXCEPT !.pc = Off] \/ \E f \in {"startedAt", "sizeBytes"} : k = [NoWalk EXCEPT !.sort = f]
    BY <2>1 DEF WatchInit
  <2>8. /\ {"pc", "sort", "cursor", "listed", "twice", "there"} \subseteq DOMAIN k /\ k.pc \in {"idle", "off"}
        /\ k.cursor = << >> /\ k.listed = {} /\ k.twice = {} /\ k.there = {}
    BY <2>7 DEF NoWalk, Off
  <2>9. WalkFits(rs, k)  BY <2>8 DEF WalkFits
  <2> QED  BY <2>1, <2>2, <2>3, <2>6, <2>9 DEF WatchInv
<1>2. WatchInv /\ [WatchNext]_watchVars => WatchInv'  BY WatchStep
<1>3. WatchInv => TrafficIsFollowed  BY DEF WatchInv, TrafficIsFollowed, ChainIsFaithful, WalkIsComplete, ChainFits, WalkFits
<1> QED  BY <1>1, <1>2, <1>3, PTL DEF WatchSpec

=============================================================================
