--------------------------- MODULE DesktopProofs ---------------------------
(***************************************************************************)
(* Proofs about the user's own data, for any number of folders, items,     *)
(* exports and edits.  Collections: the folders stay a tree, a move leaves *)
(* both its lists without a gap, and a batch works on what it loaded.      *)
(* FileExport: exports keep what they find, account for what they were     *)
(* asked for, and write nothing through a link or under an unsafe name.    *)
(***************************************************************************)
EXTENDS Collections, FileExport, SequenceTheorems, FiniteSetTheorems, TLAPS

---------------------------------------------------------------------------
(* Collections. *)

FolderRows == [parent : 0..MaxCollection + 1, pos : Nat]
ItemRows == [col : 0..MaxCollection + 1, pos : Nat, type : {"none", "raw", "urlencoded", "formdata"},
             body : {"empty", "blank", "pairs", "text", "file"}, headers : {"plain", "a"}]
VarValues == {"none", "off", "text", "quote", "ref"}
Requests == [body : BOOLEAN, type : {"own", "urlencoded", "formdata"},
             headers : {"plain", "a", "b", "broken", "filled", "dropped"}]

\* The folders form a tree: a parent is there, and no set of folders has the parents of all
\* its members.
TreeFits(f) ==
  /\ f \in [Folders -> FolderRows]
  /\ \A c \in LiveFolders(f) : f[c].parent = Top \/ f[c].parent \in LiveFolders(f)
  /\ \A S \in SUBSET LiveFolders(f) : S # {} => \E d \in S : f[d].parent \notin S

\* The bodies an item of each type is given.
BodyFits(item) ==
  \/ item.type = "raw"
  \/ item.type = "none" /\ item.body = "empty"
  \/ item.type = "urlencoded" /\ item.body \in {"blank", "pairs", "text"}
  \/ item.type = "formdata" /\ item.body \in {"empty", "file"}
ItemsFit(t, f) ==
  /\ t \in [ItemIds -> ItemRows]
  /\ \A i \in ItemIds : BodyFits(t[i]) /\ (t[i].col # Gone => t[i].col \in LiveFolders(f))

\* A value that names b meets a plain value of b.
ValuesFit(v) == v \in [VarKeys -> VarValues] /\ v["b"] \in {"none", "text"}

\* A batch: what it loaded and what it sent.
Runs == [state : {"idle", "running", "failed", "done"}, next : Nat, values : {v \in [VarKeys -> VarValues] : ValuesFit(v)},
         order : {<<"a", "b">>, <<"b", "a">>}, sent : Seq(Requests), list : Seq([id : ItemIds, item : ItemRows])]

\* What a batch sent and recorded is built from the beginning of its list.
RunFits(run, rec) ==
  /\ run \in Runs
  /\ rec \in Seq(ItemIds) /\ Len(rec) = Len(run.sent) /\ run.next = Len(run.sent) + 1 /\ Len(run.sent) <= Len(run.list)
  /\ \A k \in 1..Len(run.list) : BodyFits(run.list[k].item)
  /\ \A k \in 1..Len(run.sent) :
       rec[k] = run.list[k].id /\ run.sent[k] = build_collection_item_request(run.list[k].item, run.values, run.order)
  /\ run.state = "idle" => run.sent = << >>
  /\ run.state = "done" => Len(run.sent) = Len(run.list)

\* A list after a move: its positions are 0, 1, ... and the moved one is at its place.
PutInto(f, to, x, at) ==
  Dense(f, to) /\ f[x].pos = IF at < Cardinality(to) THEN at ELSE Cardinality(to) - 1
EditFits(f, t, e) ==
  /\ e.kind = "move" => /\ PutInto(f, list_collection_ids_by_parent(f, e.to), e.id, e.at)
                        /\ Dense(f, list_collection_ids_by_parent(f, e.from))
  /\ e.kind = "shift" => /\ PutInto(t, list_collection_item_ids_by_collection(t, e.to), e.id, e.at)
                         /\ Dense(t, list_collection_item_ids_by_collection(t, e.from))

CollectionsInv ==
  /\ TreeFits(folders) /\ ItemsFit(items, folders)
  /\ environment \in [exists : BOOLEAN, table : {v \in [VarKeys -> VarValues] : ValuesFit(v)}]
  /\ RunFits(sendRun, recorded) /\ EditFits(folders, items, lastEdit)

\* A folder is above itself, and so is the parent of whatever is; nothing else is.
LEMMA AboveIsClosed ==
  ASSUME NEW f, NEW c \in Folders
  PROVE  /\ c \in Above(f, c) /\ ClosedUp(f, Above(f, c)) /\ Above(f, c) \subseteq Folders
         /\ \A S \in SUBSET Folders : c \in S /\ ClosedUp(f, S) => Above(f, c) \subseteq S
<1>1. Above(f, c) \subseteq Folders /\ c \in Above(f, c)  BY DEF Above
<1>2. \A S \in SUBSET Folders : c \in S /\ ClosedUp(f, S) => Above(f, c) \subseteq S  BY DEF Above
<1>3. ASSUME NEW d \in Above(f, c), f[d].parent \in Folders PROVE f[d].parent \in Above(f, c)
  <2>1. ASSUME NEW S \in SUBSET Folders, c \in S, ClosedUp(f, S) PROVE f[d].parent \in S  BY <1>2, <1>3, <2>1 DEF ClosedUp
  <2> QED  BY <1>3, <2>1 DEF Above
<1>4. ClosedUp(f, Above(f, c))  BY <1>3 DEF ClosedUp
<1> QED  BY <1>1, <1>2, <1>4

\* What is above a parent is above its child.
LEMMA AboveParent ==
  ASSUME NEW f, NEW d \in Folders, f[d].parent \in Folders
  PROVE  Above(f, f[d].parent) \subseteq Above(f, d)
<1>1. PICK p : p = f[d].parent  OBVIOUS
<1>2. PICK A : A = Above(f, d)  OBVIOUS
<1>3. A \in SUBSET Folders /\ d \in A /\ ClosedUp(f, A)  BY <1>2, AboveIsClosed
<1>4. p \in A  BY <1>1, <1>3 DEF ClosedUp
<1> QED  BY <1>1, <1>2, <1>3, <1>4, AboveIsClosed

\* What is above a folder that exists exists.
LEMMA AboveIsLive ==
  ASSUME NEW f, TreeFits(f), NEW c \in LiveFolders(f)
  PROVE  Above(f, c) \subseteq LiveFolders(f)
<1>1. PICK L : L = LiveFolders(f)  OBVIOUS
<1>2. L \in SUBSET Folders /\ c \in L  BY <1>1 DEF LiveFolders
<1>3. ClosedUp(f, L)  BY <1>1, CollectionsAssumption DEF ClosedUp, TreeFits, Top, Folders
<1> QED  BY <1>1, <1>2, <1>3, AboveIsClosed

\* In a tree every folder leads up to the top.
LEMMA LeadsToTop ==
  ASSUME NEW f, TreeFits(f), NEW c \in LiveFolders(f)
  PROVE  \E d \in Above(f, c) : f[d].parent = Top
<1>1. PICK A : A = Above(f, c)  OBVIOUS
<1>2. c \in Folders  BY DEF LiveFolders
<1>3. A \in SUBSET LiveFolders(f) /\ A # {} /\ ClosedUp(f, A)  BY <1>1, <1>2, AboveIsLive, AboveIsClosed
<1>4. PICK d \in A : f[d].parent \notin A  BY <1>3 DEF TreeFits
<1>5. f[d].parent \notin Folders  BY <1>3, <1>4 DEF ClosedUp
<1>6. d \in LiveFolders(f)  BY <1>3, <1>4
<1>7. f[d].parent = Top  BY <1>5, <1>6 DEF TreeFits, LiveFolders
<1> QED  BY <1>1, <1>4, <1>7

\* A folder put under the top, or under a folder it is not above, leaves a tree.
LEMMA Reparented ==
  ASSUME NEW f, TreeFits(f), NEW c \in Folders, NEW p \in Folders \cup {Top},
         p \in Folders => p \in LiveFolders(f) /\ c \notin Above(f, p),
         NEW g, g \in [Folders -> FolderRows], g[c].parent = p, \A d \in Folders : d # c => g[d].parent = f[d].parent
  PROVE  TreeFits(g) /\ LiveFolders(g) = LiveFolders(f) \cup {c}
<1>1. p # Gone  BY CollectionsAssumption DEF Folders, Top, Gone
<1>2. LiveFolders(g) = LiveFolders(f) \cup {c}  BY <1>1 DEF LiveFolders
<1>3. \A d \in LiveFolders(g) : g[d].parent = Top \/ g[d].parent \in LiveFolders(g)
  <2>1. \A d \in LiveFolders(g) : d \in Folders  BY DEF LiveFolders
  <2> QED  BY <1>2, <2>1 DEF TreeFits
<1>4. ASSUME NEW S \in SUBSET LiveFolders(g), S # {}, \A d \in S : g[d].parent \in S PROVE FALSE
  <2>1. S \subseteq Folders  BY <1>4 DEF LiveFolders
  <2>2. CASE c \notin S
    <3>1. S \in SUBSET LiveFolders(f) /\ \A d \in S : f[d].parent \in S  BY <1>2, <1>4, <2>1, <2>2
    <3> QED  BY <1>4, <3>1 DEF TreeFits
  <2>3. CASE c \in S
    <3>1. p \in S /\ p \in Folders  BY <1>4, <2>1, <2>3
    <3>2. PICK A : A = Above(f, p)  OBVIOUS
    <3>3. p \in A /\ ClosedUp(f, A) /\ A \subseteq LiveFolders(f) /\ c \notin A  BY <3>1, <3>2, AboveIsClosed, AboveIsLive
    <3>4. PICK B : B = S \cap A  OBVIOUS
    <3>5. B \in SUBSET LiveFolders(f) /\ B # {}  BY <3>1, <3>3, <3>4
    <3>6. ASSUME NEW d \in B PROVE f[d].parent \in B
      <4>1. d \in S /\ d \in A /\ d # c /\ d \in Folders  BY <2>1, <3>3, <3>4, <3>6
      <4>2. f[d].parent \in S  BY <1>4, <4>1
      <4>3. f[d].parent \in A  BY <2>1, <3>3, <4>1, <4>2 DEF ClosedUp
      <4> QED  BY <3>4, <4>2, <4>3
    <3> QED  BY <3>5, <3>6 DEF TreeFits
  <2> QED  BY <2>2, <2>3
<1> QED  BY <1>2, <1>3, <1>4 DEF TreeFits

\* A folder removed with everything below it leaves a tree.
LEMMA TreeRemoved ==
  ASSUME NEW f, TreeFits(f), NEW c \in Folders, NEW tree, tree = {d \in LiveFolders(f) : c \in Above(f, d)},
         NEW g, g = [d \in Folders |-> IF d \in tree THEN NoFolder ELSE f[d]]
  PROVE  TreeFits(g) /\ LiveFolders(g) = LiveFolders(f) \ tree
<1>1. NoFolder \in FolderRows /\ NoFolder.parent = Gone  BY CollectionsAssumption DEF NoFolder, FolderRows, Gone
<1>2. g \in [Folders -> FolderRows]  BY <1>1 DEF TreeFits
<1>3. \A d \in Folders : g[d].parent = IF d \in tree THEN Gone ELSE f[d].parent  BY <1>1
<1>4. LiveFolders(g) = LiveFolders(f) \ tree  BY <1>3 DEF LiveFolders
<1>5. ASSUME NEW d \in LiveFolders(g) PROVE g[d].parent = Top \/ g[d].parent \in LiveFolders(g)
  <2>1. d \in Folders /\ d \in LiveFolders(f) /\ d \notin tree /\ g[d].parent = f[d].parent  BY <1>3, <1>4, <1>5 DEF LiveFolders
  <2>2. CASE f[d].parent = Top  BY <2>1, <2>2
  <2>3. CASE f[d].parent \in LiveFolders(f)
    <3>1. f[d].parent \in Folders  BY <2>3 DEF LiveFolders
    <3>2. Above(f, f[d].parent) \subseteq Above(f, d)  BY <2>1, <3>1, AboveParent
    <3>3. f[d].parent \notin tree  BY <2>1, <3>2
    <3> QED  BY <1>4, <2>1, <2>3, <3>3
  <2> QED  BY <2>1, <2>2, <2>3 DEF TreeFits
<1>6. ASSUME NEW S \in SUBSET LiveFolders(g), S # {} PROVE \E d \in S : g[d].parent \notin S
  <2>1. S \in SUBSET LiveFolders(f) /\ \A d \in S : d \in Folders /\ d \notin tree  BY <1>4, <1>6 DEF LiveFolders
  <2>2. PICK d \in S : f[d].parent \notin S  BY <1>6, <2>1 DEF TreeFits
  <2> QED  BY <1>3, <2>1, <2>2
<1> QED  BY <1>2, <1>4, <1>5, <1>6 DEF TreeFits

\* An order of a set in which of two members one comes first.
Orders(R, S) ==
  /\ \A x \in S : <<x, x>> \notin R
  /\ \A x, y \in S : x # y => <<x, y>> \in R \/ <<y, x>> \in R
  /\ \A x, y, z \in S : <<x, y>> \in R /\ <<y, z>> \in R => <<x, z>> \in R

\* How many come before each member of a finite set: 0, 1, ..., each once.
LEMMA RanksAreDense ==
  ASSUME NEW S, IsFiniteSet(S), NEW R, Orders(R, S), NEW r, r = [x \in S |-> Cardinality({y \in S : <<y, x>> \in R})]
  PROVE  /\ r \in [S -> Nat] /\ Cardinality(S) \in Nat /\ \A x, y \in S : r[x] = r[y] => x = y
         /\ (\A x \in S : r[x] < Cardinality(S)) /\ \A k \in Nat : k < Cardinality(S) => \E x \in S : r[x] = k
<1>1. ASSUME NEW x \in S PROVE IsFiniteSet({y \in S : <<y, x>> \in R}) /\ r[x] \in Nat /\ r[x] < Cardinality(S)
  <2>1. PICK B : B = {y \in S : <<y, x>> \in R}  OBVIOUS
  <2>2. B \in SUBSET S /\ x \notin B  BY <2>1 DEF Orders
  <2>3. IsFiniteSet(B) /\ Cardinality(B) <= Cardinality(S) /\ (Cardinality(S) = Cardinality(B) => S = B)  BY <2>2, FS_Subset
  <2>4. Cardinality(B) \in Nat /\ Cardinality(S) \in Nat  BY <2>3, FS_CardinalityType
  <2> QED  BY <2>1, <2>2, <2>3, <2>4
<1>2. ASSUME NEW x \in S, NEW y \in S, <<x, y>> \in R PROVE r[x] < r[y]
  <2>1. PICK A : A = {z \in S : <<z, x>> \in R}  OBVIOUS
  <2>2. PICK B : B = {z \in S : <<z, y>> \in R}  OBVIOUS
  <2>3. A \in SUBSET B /\ x \in B /\ x \notin A  BY <1>2, <2>1, <2>2 DEF Orders
  <2>4. IsFiniteSet(B) /\ r[x] = Cardinality(A) /\ r[y] = Cardinality(B)  BY <1>1, <2>1, <2>2
  <2>5. Cardinality(A) <= Cardinality(B) /\ (Cardinality(B) = Cardinality(A) => B = A)  BY <2>3, <2>4, FS_Subset
  <2>6. r[x] \in Nat /\ r[y] \in Nat  BY <1>1
  <2> QED  BY <2>3, <2>4, <2>5, <2>6
<1>3. ASSUME NEW x \in S, NEW y \in S, r[x] = r[y] PROVE x = y
  <2>1. r[x] \in Nat  BY <1>1
  <2>2. CASE x # y
    <3>1. r[x] < r[y] \/ r[y] < r[x]  BY <1>2, <2>2 DEF Orders
    <3> QED  BY <1>3, <2>1, <3>1
  <2> QED  BY <2>2
<1>4. PICK n : n = Cardinality(S)  OBVIOUS
<1>5. n \in Nat  BY <1>4, FS_CardinalityType
<1>6. PICK I : I = {r[x] : x \in S}  OBVIOUS
<1>7. I \in SUBSET (0..n - 1)
  <2>1. ASSUME NEW x \in S PROVE r[x] \in 0..n - 1
    <3>1. r[x] \in Nat /\ r[x] < n  BY <1>1, <1>4
    <3> QED  BY <1>5, <3>1
  <2> QED  BY <1>6, <2>1
<1>8. IsFiniteSet(0..n - 1) /\ Cardinality(0..n - 1) = n
  <2>1. n - 1 \in Int /\ 0 \in Int  BY <1>5
  <2> QED  BY <1>5, <2>1, FS_Interval
<1>9. Cardinality(I) = n
  <2>1. r \in [S -> I] /\ \A i \in I : \E x \in S : r[x] = i  BY <1>6
  <2>2. IsInjective(r)  BY <1>3 DEF IsInjective
  <2>3. r \in Bijection(S, I)  BY <2>1, <2>2 DEF Bijection, Injection, Surjection
  <2>4. \E f : f \in Bijection(S, I)  BY <2>3
  <2> QED  BY <1>4, <2>4, FS_Bijection DEF ExistsBijection
<1>10. I = 0..n - 1  BY <1>7, <1>8, <1>9, FS_Subset
<1>11. r \in [S -> Nat]  BY <1>1
<1>12. ASSUME NEW k \in Nat, k < n PROVE \E x \in S : r[x] = k
  <2>1. k \in 0..n - 1  BY <1>5, <1>12
  <2> QED  BY <1>6, <1>10, <2>1
<1> QED  BY <1>1, <1>3, <1>4, <1>5, <1>11, <1>12

\* Rows with a position.
Placeable(f, S) ==
  IsFiniteSet(S) /\ S \subseteq DOMAIN f /\ S \subseteq Nat /\ \A x \in S : "pos" \in DOMAIN f[x] /\ f[x].pos \in Nat

\* Ranks along a list are 0, 1, ..., each once.
LEMMA ListRanks ==
  ASSUME NEW f, NEW S, Placeable(f, S)
  PROVE  /\ Cardinality(S) \in Nat /\ \A x \in S : Rank(f, S, x) \in Nat
         /\ \A x, y \in S : Rank(f, S, x) = Rank(f, S, y) => x = y
         /\ \A x \in S : Rank(f, S, x) < Cardinality(S)
         /\ \A k \in Nat : k < Cardinality(S) => \E x \in S : Rank(f, S, x) = k
<1>1. PICK R : R = {z \in S \X S : Before(f, z[1], z[2])}  OBVIOUS
<1>2. \A x, y \in S : <<x, y>> \in R <=> Before(f, x, y)  BY <1>1
<1>3. PICK r : r = [x \in S |-> Cardinality({y \in S : <<y, x>> \in R})]  OBVIOUS
<1>4. ASSUME NEW x \in S PROVE r[x] = Rank(f, S, x)
  <2>1. {y \in S : <<y, x>> \in R} = {y \in S : Before(f, y, x)}  BY <1>2
  <2> QED  BY <1>3, <2>1 DEF Rank
<1>5. \A x \in S : ~Before(f, x, x)  BY DEF Before, Placeable
<1>6. \A x, y \in S : x # y => Before(f, x, y) \/ Before(f, y, x)  BY DEF Before, Placeable
<1>7. ASSUME NEW x \in S, NEW y \in S, NEW z \in S, Before(f, x, y), Before(f, y, z) PROVE Before(f, x, z)
  <2>1. PICK i \in Nat, j \in Nat, k \in Nat : i = f[x].pos /\ j = f[y].pos /\ k = f[z].pos  BY DEF Placeable
  <2>2. x \in Nat /\ y \in Nat /\ z \in Nat  BY DEF Placeable
  <2>3. (i < j \/ (i = j /\ x < y)) /\ (j < k \/ (j = k /\ y < z))  BY <1>7, <2>1 DEF Before
  <2>4. i < k \/ (i = k /\ x < z)  BY <2>2, <2>3
  <2> QED  BY <2>1, <2>4 DEF Before
<1>8. Orders(R, S)  BY <1>2, <1>5, <1>6, <1>7 DEF Orders
<1>9. /\ r \in [S -> Nat] /\ Cardinality(S) \in Nat /\ \A x, y \in S : r[x] = r[y] => x = y
      /\ (\A x \in S : r[x] < Cardinality(S)) /\ \A k \in Nat : k < Cardinality(S) => \E x \in S : r[x] = k
  BY <1>3, <1>8, RanksAreDense DEF Placeable
<1> QED  BY <1>4, <1>9

\* A list renumbered has the positions 0, 1, ..., each once.
LEMMA RenumberedIsDense ==
  ASSUME NEW f, NEW S, Placeable(f, S), NEW g, g = Renumbered(f, S)
  PROVE  /\ Dense(g, S) /\ DOMAIN g = DOMAIN f /\ \A x \in DOMAIN f \ S : g[x] = f[x]
         /\ \A x \in S : \E n \in Nat : g[x] = [f[x] EXCEPT !.pos = n]
<1>1. PICK r : r = [x \in S |-> Rank(f, S, x)]  OBVIOUS
<1>2. /\ Cardinality(S) \in Nat /\ \A x \in S : r[x] \in Nat
      /\ \A x, y \in S : r[x] = r[y] => x = y
      /\ \A x \in S : r[x] < Cardinality(S)
      /\ \A k \in Nat : k < Cardinality(S) => \E x \in S : r[x] = k
  BY <1>1, ListRanks
<1>3. DOMAIN g = DOMAIN f /\ \A x \in DOMAIN f \ S : g[x] = f[x]  BY DEF Renumbered
<1>4. \A x \in S : g[x] = [f[x] EXCEPT !.pos = r[x]]  BY <1>1 DEF Renumbered, WithPos, Placeable
<1>5. \A x \in S : g[x].pos = r[x]  BY <1>4 DEF Placeable
<1>6. {g[x].pos + 1 : x \in S} = 1..Cardinality(S)
  <2>1. \A x \in S : g[x].pos + 1 \in 1..Cardinality(S)  BY <1>2, <1>5
  <2>2. ASSUME NEW k \in 1..Cardinality(S) PROVE \E x \in S : k = g[x].pos + 1
    <3>1. k - 1 \in Nat /\ k - 1 < Cardinality(S)  BY <1>2
    <3>2. PICK x \in S : r[x] = k - 1  BY <1>2, <3>1
    <3> QED  BY <1>5, <3>1, <3>2
  <2> QED  BY <2>1, <2>2
<1>7. Dense(g, S)  BY <1>2, <1>5, <1>6 DEF Dense
<1> QED  BY <1>2, <1>3, <1>4, <1>7

\* A list with one of its rows put at a place.
LEMMA PlacedIsDense ==
  ASSUME NEW f, NEW S, Placeable(f, S), NEW x \in S, NEW at \in Nat, NEW g, g = PlacedAt(f, S, x, at)
  PROVE  /\ PutInto(g, S, x, at) /\ DOMAIN g = DOMAIN f /\ \A y \in DOMAIN f \ S : g[y] = f[y]
         /\ \A y \in S : \E n \in Nat : g[y] = [f[y] EXCEPT !.pos = n]
<1>1. PICK others : others = S \ {x}  OBVIOUS
<1>2. Placeable(f, others)  BY <1>1, FS_Subset DEF Placeable
<1>3. PICK m : m = Cardinality(others)  OBVIOUS
<1>4. PICK r : r = [y \in others |-> Rank(f, others, y)]  OBVIOUS
<1>5. /\ m \in Nat /\ \A y \in others : r[y] \in Nat
      /\ \A y, z \in others : r[y] = r[z] => y = z
      /\ \A y \in others : r[y] < m
      /\ \A k \in Nat : k < m => \E y \in others : r[y] = k
  BY <1>2, <1>3, <1>4, ListRanks
<1>6. Cardinality(S) = m + 1
  <2>1. IsFiniteSet(others)  BY <1>2 DEF Placeable
  <2>2. Cardinality(others \cup {x}) = m + 1  BY <1>1, <1>3, <2>1, FS_AddElement
  <2>3. S = others \cup {x}  BY <1>1
  <2> QED  BY <2>2, <2>3
<1>7. PICK k : k = Place(others, at)  OBVIOUS
<1>8. k \in Nat /\ k <= m /\ k = IF at < m + 1 THEN at ELSE m  BY <1>3, <1>5, <1>7 DEF Place
<1>9. PICK s : s = [y \in others |-> Shifted(r[y], k)]  OBVIOUS
<1>10. ASSUME NEW y \in others PROVE s[y] \in Nat /\ s[y] <= m /\ s[y] # k
  <2>1. s[y] = IF r[y] < k THEN r[y] ELSE r[y] + 1  BY <1>9 DEF Shifted
  <2> QED  BY <1>5, <1>8, <2>1
<1>11. ASSUME NEW y \in others, NEW z \in others, s[y] = s[z] PROVE y = z
  <2>1. s[y] = (IF r[y] < k THEN r[y] ELSE r[y] + 1) /\ s[z] = (IF r[z] < k THEN r[z] ELSE r[z] + 1)  BY <1>9 DEF Shifted
  <2>2. r[y] \in Nat /\ r[z] \in Nat  BY <1>5
  <2>3. PICK i \in Nat, j \in Nat : i = r[y] /\ j = r[z]  BY <2>2
  <2>4. (IF i < k THEN i ELSE i + 1) = (IF j < k THEN j ELSE j + 1)  BY <1>11, <2>1, <2>3
  <2>5. i = j  BY <1>8, <2>4
  <2> QED  BY <1>5, <2>3, <2>5
<1>12. ASSUME NEW v \in Nat, v <= m, v # k PROVE \E y \in others : s[y] = v
  <2>1. CASE v < k
    <3>1. PICK y \in others : r[y] = v  BY <1>5, <1>8, <2>1
    <3> QED  BY <1>9, <2>1, <3>1 DEF Shifted
  <2>2. CASE k < v
    <3>1. v - 1 \in Nat /\ v - 1 < m /\ ~(v - 1 < k)  BY <1>5, <1>8, <1>12, <2>2
    <3>2. PICK y \in others : r[y] = v - 1  BY <1>5, <3>1
    <3>3. s[y] = (v - 1) + 1  BY <1>9, <3>1, <3>2 DEF Shifted
    <3> QED  BY <3>3
  <2> QED  BY <1>8, <1>12, <2>1, <2>2
<1>13. DOMAIN g = DOMAIN f /\ \A y \in DOMAIN f \ S : g[y] = f[y]  BY <1>1 DEF PlacedAt
<1>14. g[x] = [f[x] EXCEPT !.pos = k]  BY <1>1, <1>7 DEF PlacedAt, WithPos, Placeable
<1>15. \A y \in others : g[y] = [f[y] EXCEPT !.pos = s[y]]  BY <1>1, <1>4, <1>7, <1>9 DEF PlacedAt, WithPos, Placeable
<1>16. g[x].pos = k /\ \A y \in others : g[y].pos = s[y]  BY <1>1, <1>14, <1>15 DEF Placeable
<1>17. \A y \in S : y = x \/ y \in others  BY <1>1
<1>18. {g[y].pos + 1 : y \in S} = 1..m + 1
  <2>1. \A y \in S : g[y].pos + 1 \in 1..m + 1  BY <1>5, <1>8, <1>10, <1>16, <1>17
  <2>2. ASSUME NEW v \in 1..m + 1 PROVE \E y \in S : v = g[y].pos + 1
    <3>1. v - 1 \in Nat /\ v - 1 <= m /\ v = (v - 1) + 1  BY <1>5
    <3>2. CASE v - 1 = k  BY <1>16, <3>1, <3>2
    <3>3. CASE v - 1 # k
      <4>1. PICK y \in others : s[y] = v - 1  BY <1>12, <3>1, <3>3
      <4> QED  BY <1>1, <1>16, <3>1, <4>1
    <3> QED  BY <3>2, <3>3
  <2> QED  BY <2>1, <2>2
<1>19. \A y, z \in S : g[y].pos = g[z].pos => y = z  BY <1>10, <1>11, <1>16, <1>17
<1>20. Dense(g, S)  BY <1>6, <1>18, <1>19 DEF Dense
<1>21. k = IF at < Cardinality(S) THEN at ELSE Cardinality(S) - 1  BY <1>5, <1>6, <1>8
<1>22. PutInto(g, S, x, at)  BY <1>16, <1>20, <1>21 DEF PutInto
<1>23. \A y \in S : \E n \in Nat : g[y] = [f[y] EXCEPT !.pos = n]  BY <1>8, <1>10, <1>14, <1>15, <1>17
<1> QED  BY <1>13, <1>22, <1>23

\* Another position leaves the rest of a row as it is.
LEMMA FolderRowPos ==
  ASSUME NEW row \in FolderRows, NEW n \in Nat, NEW put, put = [row EXCEPT !.pos = n]
  PROVE  put \in FolderRows /\ put.parent = row.parent
BY DEF FolderRows

\* The same for an item.
LEMMA ItemRowPos ==
  ASSUME NEW row \in ItemRows, NEW n \in Nat, NEW put, put = [row EXCEPT !.pos = n]
  PROVE  /\ put \in ItemRows /\ put.col = row.col
         /\ BodyFits(row) => BodyFits(put)
BY DEF ItemRows, BodyFits

\* The folders under one parent and the items of one folder are finitely many.
LEMMA ListsArePlaceable ==
  ASSUME NEW f, NEW t, NEW p
  PROVE  /\ f \in [Folders -> FolderRows] => Placeable(f, list_collection_ids_by_parent(f, p))
         /\ t \in [ItemIds -> ItemRows] => Placeable(t, list_collection_item_ids_by_collection(t, p))
<1>1. IsFiniteSet(Folders) /\ Folders \subseteq Nat
  <2>1. 1 \in Int /\ MaxCollection \in Int  BY CollectionsAssumption
  <2>2. IsFiniteSet(1..MaxCollection)  BY <2>1, FS_Interval
  <2> QED  BY <2>1, <2>2 DEF Folders
<1>2. IsFiniteSet(ItemIds) /\ ItemIds \subseteq Nat
  <2>1. 1 \in Int /\ MaxItem \in Int  BY CollectionsAssumption
  <2>2. IsFiniteSet(1..MaxItem)  BY <2>1, FS_Interval
  <2> QED  BY <2>1, <2>2 DEF ItemIds
<1>3. ASSUME f \in [Folders -> FolderRows] PROVE Placeable(f, list_collection_ids_by_parent(f, p))
  <2>1. PICK S : S = list_collection_ids_by_parent(f, p)  OBVIOUS
  <2>2. S \in SUBSET Folders  BY <2>1 DEF list_collection_ids_by_parent, LiveFolders
  <2>3. IsFiniteSet(S)  BY <1>1, <2>2, FS_Subset
  <2>4. \A x \in Folders : "pos" \in DOMAIN f[x] /\ f[x].pos \in Nat  BY <1>3 DEF FolderRows
  <2> QED  BY <1>1, <1>3, <2>1, <2>2, <2>3, <2>4 DEF Placeable
<1>4. ASSUME t \in [ItemIds -> ItemRows] PROVE Placeable(t, list_collection_item_ids_by_collection(t, p))
  <2>1. PICK S : S = list_collection_item_ids_by_collection(t, p)  OBVIOUS
  <2>2. S \in SUBSET ItemIds  BY <2>1 DEF list_collection_item_ids_by_collection
  <2>3. IsFiniteSet(S)  BY <1>2, <2>2, FS_Subset
  <2>4. \A x \in ItemIds : "pos" \in DOMAIN t[x] /\ t[x].pos \in Nat  BY <1>4 DEF ItemRows
  <2> QED  BY <1>2, <1>4, <2>1, <2>2, <2>3, <2>4 DEF Placeable
<1> QED  BY <1>3, <1>4

\* Positions do not matter to the tree.
LEMMA SameParents ==
  ASSUME NEW f, TreeFits(f), NEW g \in [Folders -> FolderRows], \A d \in Folders : g[d].parent = f[d].parent
  PROVE  /\ TreeFits(g) /\ LiveFolders(g) = LiveFolders(f)
         /\ \A p : list_collection_ids_by_parent(g, p) = list_collection_ids_by_parent(f, p)
<1>1. LiveFolders(g) = LiveFolders(f)  BY DEF LiveFolders
<1>2. \A d \in LiveFolders(f) : d \in Folders  BY DEF LiveFolders
<1>3. \A p : list_collection_ids_by_parent(g, p) = list_collection_ids_by_parent(f, p)
  BY <1>1, <1>2 DEF list_collection_ids_by_parent
<1>4. \A c \in LiveFolders(g) : g[c].parent = Top \/ g[c].parent \in LiveFolders(g)  BY <1>1, <1>2 DEF TreeFits
<1>5. ASSUME NEW S \in SUBSET LiveFolders(g), S # {} PROVE \E d \in S : g[d].parent \notin S
  <2>1. PICK d \in S : f[d].parent \notin S  BY <1>1, <1>5 DEF TreeFits
  <2> QED  BY <1>1, <1>2, <2>1
<1> QED  BY <1>1, <1>3, <1>4, <1>5 DEF TreeFits

\* A list is as it was put if none of its rows changed since.
LEMMA PutStays ==
  ASSUME NEW f, NEW g, NEW S, NEW x \in S, NEW at, PutInto(f, S, x, at), \A y \in S : g[y] = f[y]
  PROVE  PutInto(g, S, x, at)
<1>1. {g[y].pos + 1 : y \in S} = {f[y].pos + 1 : y \in S}  OBVIOUS
<1>2. Dense(g, S)  BY <1>1 DEF PutInto, Dense
<1> QED  BY <1>2 DEF PutInto

\* A folder may be put under the top, or under a folder it is not above.
MayLieUnder(f, c, p) ==
  p \in Folders \cup {Top} /\ (p \in Folders => p \in LiveFolders(f) /\ c \notin Above(f, p))

\* What a move writes.
FolderMove(f, c, p, at) ==
  LET old == f[c].parent
      moved == [f EXCEPT ![c].parent = p]
      here == PlacedAt(moved, list_collection_ids_by_parent(moved, p), c, at)
  IN IF old = p THEN here ELSE Renumbered(here, list_collection_ids_by_parent(here, old))

\* A folder is moved: both lists are numbered without a gap and it is at its place.
LEMMA MovedFolder ==
  ASSUME NEW f, TreeFits(f), NEW c \in LiveFolders(f), NEW p, MayLieUnder(f, c, p), NEW at \in Nat,
         NEW old, old = f[c].parent, NEW g, g = FolderMove(f, c, p, at)
  PROVE  /\ TreeFits(g) /\ LiveFolders(g) = LiveFolders(f)
         /\ PutInto(g, list_collection_ids_by_parent(g, p), c, at)
         /\ Dense(g, list_collection_ids_by_parent(g, old))
<1>a. PICK moved : moved = [f EXCEPT ![c].parent = p]  OBVIOUS
<1>b. PICK here : here = PlacedAt(moved, list_collection_ids_by_parent(moved, p), c, at)  OBVIOUS
<1>c. g = IF old = p THEN here ELSE Renumbered(here, list_collection_ids_by_parent(here, old))  BY <1>a, <1>b DEF FolderMove
<1>1. c \in Folders /\ p \in 0..MaxCollection + 1 /\ p # Gone
  BY CollectionsAssumption DEF MayLieUnder, LiveFolders, Folders, Top, Gone
<1>2. PICK row : row = [f[c] EXCEPT !.parent = p]  OBVIOUS
<1>3. row \in FolderRows /\ row.parent = p  BY <1>1, <1>2 DEF TreeFits, FolderRows
<1>4. moved = [f EXCEPT ![c] = row]  BY <1>a, <1>2
<1>5. moved \in [Folders -> FolderRows] /\ moved[c] = row /\ \A d \in Folders : d # c => moved[d] = f[d]
  BY <1>1, <1>3, <1>4 DEF TreeFits
<1>6. TreeFits(moved) /\ LiveFolders(moved) = LiveFolders(f) \cup {c}
  <2>1. p \in Folders \cup {Top} /\ (p \in Folders => p \in LiveFolders(f) /\ c \notin Above(f, p))  BY DEF MayLieUnder
  <2>2. moved[c].parent = p /\ \A d \in Folders : d # c => moved[d].parent = f[d].parent  BY <1>3, <1>5
  <2>3. moved \in [Folders -> FolderRows] /\ TreeFits(f) /\ c \in Folders  BY <1>1, <1>5
  <2> QED  BY ONLY <2>1, <2>2, <2>3, Reparented
<1>7. PICK S : S = list_collection_ids_by_parent(moved, p)  OBVIOUS
<1>8. c \in S /\ S \subseteq Folders  BY <1>3, <1>5, <1>6, <1>7 DEF list_collection_ids_by_parent, LiveFolders
<1>9. Placeable(moved, S)  BY <1>5, <1>7, ListsArePlaceable
<1>10. /\ PutInto(here, S, c, at) /\ DOMAIN here = Folders /\ \A y \in Folders \ S : here[y] = moved[y]
       /\ \A y \in S : \E n \in Nat : here[y] = [moved[y] EXCEPT !.pos = n]
  <2>1. here = PlacedAt(moved, S, c, at) /\ DOMAIN moved = Folders  BY <1>b, <1>5, <1>7
  <2>2. /\ PutInto(here, S, c, at) /\ DOMAIN here = DOMAIN moved /\ \A y \in DOMAIN moved \ S : here[y] = moved[y]
        /\ \A y \in S : \E n \in Nat : here[y] = [moved[y] EXCEPT !.pos = n]
    BY ONLY <1>8, <1>9, <2>1, at \in Nat, PlacedIsDense
  <2> QED  BY <2>1, <2>2
<1>11. ASSUME NEW d \in Folders PROVE here[d] \in FolderRows /\ here[d].parent = moved[d].parent
  <2>1. moved[d] \in FolderRows  BY <1>5
  <2>2. CASE d \in S
    <3>1. PICK n \in Nat : here[d] = [moved[d] EXCEPT !.pos = n]  BY <1>10, <2>2
    <3>2. PICK row0 : row0 = moved[d]  OBVIOUS
    <3>3. PICK row1 : row1 = [row0 EXCEPT !.pos = n]  OBVIOUS
    <3>4. here[d] = row1  BY <3>1, <3>2, <3>3
    <3>5. row0 \in FolderRows  BY <2>1, <3>2
    <3>6. row1 \in FolderRows /\ row1.parent = row0.parent  BY ONLY <3>3, <3>5, n \in Nat, FolderRowPos
    <3> QED  BY <2>1, <3>2, <3>4, <3>6
  <2>3. CASE d \notin S  BY <1>10, <2>1, <2>3
  <2> QED  BY <2>2, <2>3
<1>12. here \in [Folders -> FolderRows]
  <2>1. here = [y \in Folders |-> here[y]]  BY <1>b, <1>5 DEF PlacedAt
  <2> QED  BY <1>11, <2>1
<1>13. /\ TreeFits(here) /\ LiveFolders(here) = LiveFolders(f)
       /\ \A q : list_collection_ids_by_parent(here, q) = list_collection_ids_by_parent(moved, q)
  <2>1. \A d \in Folders : here[d].parent = moved[d].parent  BY <1>11
  <2>2. /\ TreeFits(here) /\ LiveFolders(here) = LiveFolders(moved)
        /\ \A q : list_collection_ids_by_parent(here, q) = list_collection_ids_by_parent(moved, q)
    BY ONLY <1>6, <1>12, <2>1, SameParents
  <2> QED  BY <1>6, <2>2
<1>14. CASE old = p
  <2>1. g = here /\ list_collection_ids_by_parent(g, p) = S /\ old = p  BY <1>c, <1>7, <1>13, <1>14
  <2> QED  BY <1>10, <1>13, <2>1 DEF PutInto
<1>15. CASE old # p
  <2>1. PICK O : O = list_collection_ids_by_parent(here, old)  OBVIOUS
  <2>2. Placeable(here, O) /\ O \subseteq Folders
    BY <1>12, <2>1, ListsArePlaceable DEF list_collection_ids_by_parent, LiveFolders
  <2>3. g = Renumbered(here, O)  BY <1>c, <1>15, <2>1
  <2>4. /\ Dense(g, O) /\ DOMAIN g = Folders /\ \A y \in Folders \ O : g[y] = here[y]
        /\ \A y \in O : \E n \in Nat : g[y] = [here[y] EXCEPT !.pos = n]
    <3>1. /\ Dense(g, O) /\ DOMAIN g = DOMAIN here /\ \A y \in DOMAIN here \ O : g[y] = here[y]
          /\ \A y \in O : \E n \in Nat : g[y] = [here[y] EXCEPT !.pos = n]
      BY ONLY <2>2, <2>3, RenumberedIsDense
    <3> QED  BY <1>10, <3>1
  <2>5. ASSUME NEW d \in Folders PROVE g[d] \in FolderRows /\ g[d].parent = here[d].parent
    <3>1. here[d] \in FolderRows  BY <1>12
    <3>2. CASE d \in O
      <4>1. PICK n \in Nat : g[d] = [here[d] EXCEPT !.pos = n]  BY <2>4, <3>2
      <4>2. PICK row0 : row0 = here[d]  OBVIOUS
      <4>3. PICK row1 : row1 = [row0 EXCEPT !.pos = n]  OBVIOUS
      <4>4. g[d] = row1  BY <4>1, <4>2, <4>3
      <4>5. row0 \in FolderRows  BY <3>1, <4>2
      <4>6. row1 \in FolderRows /\ row1.parent = row0.parent  BY ONLY <4>3, <4>5, n \in Nat, FolderRowPos
      <4> QED  BY <3>1, <4>2, <4>4, <4>6
    <3>3. CASE d \notin O  BY <2>4, <3>1, <3>3
    <3> QED  BY <3>2, <3>3
  <2>6. g \in [Folders -> FolderRows]
    <3>1. g = [y \in Folders |-> g[y]]  BY <1>10, <2>3 DEF Renumbered
    <3> QED  BY <2>5, <3>1
  <2>7. /\ TreeFits(g) /\ LiveFolders(g) = LiveFolders(here)
        /\ \A q : list_collection_ids_by_parent(g, q) = list_collection_ids_by_parent(here, q)
    <3>1. \A d \in Folders : g[d].parent = here[d].parent  BY <2>5
    <3> QED  BY ONLY <1>13, <2>6, <3>1, SameParents
  <2>8. S \cap O = {}
    <3>1. \A d \in S : moved[d].parent = p  BY <1>7 DEF list_collection_ids_by_parent
    <3>2. \A d \in O : here[d].parent = old  BY <2>1 DEF list_collection_ids_by_parent
    <3>3. ASSUME NEW y \in S, y \in O PROVE FALSE
      <4>1. moved[y].parent = here[y].parent  BY <1>8, <1>11
      <4> QED  BY <1>15, <3>1, <3>2, <3>3, <4>1
    <3> QED  BY <3>3
  <2>9. \A y \in S : g[y] = here[y]  BY <1>8, <2>4, <2>8
  <2>10. PutInto(g, S, c, at)  BY ONLY <1>8, <1>10, <2>9, PutStays
  <2>11. list_collection_ids_by_parent(g, p) = S /\ list_collection_ids_by_parent(g, old) = O  BY <1>7, <1>13, <2>1, <2>7
  <2> QED  BY <1>13, <2>4, <2>7, <2>10, <2>11
<1> QED  BY <1>14, <1>15

\* An item is moved.
LEMMA MovedItem ==
  ASSUME NEW f, NEW t, ItemsFit(t, f), NEW i \in ItemIds, NEW c \in LiveFolders(f), NEW at \in Nat,
         NEW old, old = t[i].col, NEW moved, moved = [t EXCEPT ![i].col = c],
         NEW here, here = PlacedAt(moved, list_collection_item_ids_by_collection(moved, c), i, at),
         NEW g, g = IF old = c THEN here ELSE Renumbered(here, list_collection_item_ids_by_collection(here, old))
  PROVE  /\ ItemsFit(g, f)
         /\ PutInto(g, list_collection_item_ids_by_collection(g, c), i, at)
         /\ Dense(g, list_collection_item_ids_by_collection(g, old))
<1>1. c \in 0..MaxCollection + 1  BY CollectionsAssumption DEF LiveFolders, Folders
<1>2. PICK row : row = [t[i] EXCEPT !.col = c]  OBVIOUS
<1>3. row \in ItemRows /\ row.col = c /\ BodyFits(row)  BY <1>1, <1>2 DEF ItemsFit, ItemRows, BodyFits
<1>4. moved = [t EXCEPT ![i] = row]  BY <1>2
<1>5. moved \in [ItemIds -> ItemRows] /\ moved[i] = row /\ \A j \in ItemIds : j # i => moved[j] = t[j]  BY <1>3, <1>4 DEF ItemsFit
<1>6. ItemsFit(moved, f)  BY <1>3, <1>5 DEF ItemsFit
<1>7. PICK S : S = list_collection_item_ids_by_collection(moved, c)  OBVIOUS
<1>8. i \in S /\ S \subseteq ItemIds  BY <1>3, <1>5, <1>7 DEF list_collection_item_ids_by_collection
<1>9. Placeable(moved, S)  BY <1>5, <1>7, ListsArePlaceable
<1>10. /\ PutInto(here, S, i, at) /\ DOMAIN here = ItemIds /\ \A y \in ItemIds \ S : here[y] = moved[y]
       /\ \A y \in S : \E n \in Nat : here[y] = [moved[y] EXCEPT !.pos = n]
  <2>1. here = PlacedAt(moved, S, i, at) /\ DOMAIN moved = ItemIds  BY <1>5, <1>7
  <2>2. /\ PutInto(here, S, i, at) /\ DOMAIN here = DOMAIN moved /\ \A y \in DOMAIN moved \ S : here[y] = moved[y]
        /\ \A y \in S : \E n \in Nat : here[y] = [moved[y] EXCEPT !.pos = n]
    BY ONLY <1>8, <1>9, <2>1, at \in Nat, PlacedIsDense
  <2> QED  BY <2>1, <2>2
<1>11. ASSUME NEW j \in ItemIds PROVE here[j] \in ItemRows /\ here[j].col = moved[j].col /\ BodyFits(here[j])
  <2>1. moved[j] \in ItemRows /\ BodyFits(moved[j])  BY <1>6 DEF ItemsFit
  <2>2. CASE j \in S
    <3>1. PICK n \in Nat : here[j] = [moved[j] EXCEPT !.pos = n]  BY <1>10, <2>2
    <3>2. PICK row0 : row0 = moved[j]  OBVIOUS
    <3>3. PICK row1 : row1 = [row0 EXCEPT !.pos = n]  OBVIOUS
    <3>4. here[j] = row1  BY <3>1, <3>2, <3>3
    <3>5. row0 \in ItemRows  BY <2>1, <3>2
    <3>6. row1 \in ItemRows /\ row1.col = row0.col /\ (BodyFits(row0) => BodyFits(row1))  BY ONLY <3>3, <3>5, n \in Nat, ItemRowPos
    <3> QED  BY <2>1, <3>2, <3>4, <3>6
  <2>3. CASE j \notin S  BY <1>10, <2>1, <2>3
  <2> QED  BY <2>2, <2>3
<1>12. here \in [ItemIds -> ItemRows]
  <2>1. here = [y \in ItemIds |-> here[y]]  BY <1>5 DEF PlacedAt
  <2> QED  BY <1>11, <2>1
<1>13. ItemsFit(here, f) /\ \A q : list_collection_item_ids_by_collection(here, q) = list_collection_item_ids_by_collection(moved, q)
  BY <1>6, <1>11, <1>12 DEF ItemsFit, list_collection_item_ids_by_collection
<1>14. CASE old = c
  <2>1. g = here /\ list_collection_item_ids_by_collection(g, c) = S /\ old = c  BY <1>7, <1>13, <1>14
  <2> QED  BY <1>10, <1>13, <2>1 DEF PutInto
<1>15. CASE old # c
  <2>1. PICK O : O = list_collection_item_ids_by_collection(here, old)  OBVIOUS
  <2>2. Placeable(here, O) /\ O \subseteq ItemIds  BY <1>12, <2>1, ListsArePlaceable DEF list_collection_item_ids_by_collection
  <2>3. g = Renumbered(here, O)  BY <1>15, <2>1
  <2>4. /\ Dense(g, O) /\ DOMAIN g = ItemIds /\ \A y \in ItemIds \ O : g[y] = here[y]
        /\ \A y \in O : \E n \in Nat : g[y] = [here[y] EXCEPT !.pos = n]
    <3>1. /\ Dense(g, O) /\ DOMAIN g = DOMAIN here /\ \A y \in DOMAIN here \ O : g[y] = here[y]
          /\ \A y \in O : \E n \in Nat : g[y] = [here[y] EXCEPT !.pos = n]
      BY ONLY <2>2, <2>3, RenumberedIsDense
    <3> QED  BY <1>10, <3>1
  <2>5. ASSUME NEW j \in ItemIds PROVE g[j] \in ItemRows /\ g[j].col = here[j].col /\ BodyFits(g[j])
    <3>1. here[j] \in ItemRows /\ BodyFits(here[j])  BY <1>13 DEF ItemsFit
    <3>2. CASE j \in O
      <4>1. PICK n \in Nat : g[j] = [here[j] EXCEPT !.pos = n]  BY <2>4, <3>2
      <4>2. PICK row0 : row0 = here[j]  OBVIOUS
      <4>3. PICK row1 : row1 = [row0 EXCEPT !.pos = n]  OBVIOUS
      <4>4. g[j] = row1  BY <4>1, <4>2, <4>3
      <4>5. row0 \in ItemRows  BY <3>1, <4>2
      <4>6. row1 \in ItemRows /\ row1.col = row0.col /\ (BodyFits(row0) => BodyFits(row1))  BY ONLY <4>3, <4>5, n \in Nat, ItemRowPos
      <4> QED  BY <3>1, <4>2, <4>4, <4>6
    <3>3. CASE j \notin O
      <4>1. j \in ItemIds \ O  BY <3>3
      <4>2. g[j] = here[j]  BY ONLY <2>4, <4>1
      <4> QED  BY ONLY <3>1, <4>2
    <3> QED  BY <3>2, <3>3
  <2>6. g \in [ItemIds -> ItemRows]
    <3>1. g = [y \in ItemIds |-> g[y]]  BY <1>10, <2>3 DEF Renumbered
    <3> QED  BY <2>5, <3>1
  <2>7. ItemsFit(g, f) /\ \A q : list_collection_item_ids_by_collection(g, q) = list_collection_item_ids_by_collection(here, q)
    BY <1>13, <2>5, <2>6 DEF ItemsFit, list_collection_item_ids_by_collection
  <2>8. S \cap O = {}
    <3>1. \A j \in S : moved[j].col = c  BY <1>7 DEF list_collection_item_ids_by_collection
    <3>2. \A j \in O : here[j].col = old  BY <2>1 DEF list_collection_item_ids_by_collection
    <3>3. ASSUME NEW y \in S, y \in O PROVE FALSE
      <4>1. moved[y].col = here[y].col  BY <1>8, <1>11
      <4> QED  BY <1>15, <3>1, <3>2, <3>3, <4>1
    <3> QED  BY <3>3
  <2>9. \A y \in S : g[y] = here[y]  BY <1>8, <2>4, <2>8
  <2>10. PutInto(g, S, i, at)  BY ONLY <1>8, <1>10, <2>9, PutStays
  <2>11. list_collection_item_ids_by_collection(g, c) = S /\ list_collection_item_ids_by_collection(g, old) = O
    BY <1>7, <1>13, <2>1, <2>7
  <2> QED  BY <2>4, <2>7, <2>10, <2>11
<1> QED  BY <1>14, <1>15

\* An edit that moves nothing leaves nothing to say of the lists.
LEMMA QuietEdit ==
  ASSUME NEW f, NEW t, NEW e, e.kind \notin {"move", "shift"}
  PROVE  EditFits(f, t, e)
BY DEF EditFits

\* Items stay where they are when no folder goes.
LEMMA ItemsKept ==
  ASSUME NEW f, NEW t, ItemsFit(t, f), NEW g, LiveFolders(f) \subseteq LiveFolders(g)
  PROVE  ItemsFit(t, g)
BY DEF ItemsFit

\* A folder is saved under a parent.
LEMMA FolderUpserted ==
  ASSUME CollectionsInv, NEW c \in Folders, NEW p \in Folders \cup {Top}, upsert_api_collection(c, p, 0)
  PROVE  CollectionsInv'
<1>1. PICK f : f = folders  OBVIOUS
<1>2. PICK g : g = folders'  OBVIOUS
<1>3. TreeFits(f) /\ ItemsFit(items, f)  BY <1>1 DEF CollectionsInv
<1>4. p \in Folders => p \in LiveFolders(f) /\ c \notin Above(f, p)
  BY <1>1 DEF upsert_api_collection, upsert_collection, ensure_collection_exists, collection_exists, would_create_cycle
<1>5. PICK row : row = [parent |-> p, pos |-> 0]  OBVIOUS
<1>6. row \in FolderRows /\ row.parent = p  BY <1>5, CollectionsAssumption DEF FolderRows, Folders, Top
<1>7. g = [f EXCEPT ![c] = row]  BY <1>1, <1>2, <1>5 DEF upsert_api_collection, upsert_collection
<1>8. g \in [Folders -> FolderRows] /\ g[c].parent = p /\ \A d \in Folders : d # c => g[d].parent = f[d].parent
  BY <1>3, <1>6, <1>7 DEF TreeFits
<1>9. TreeFits(g) /\ LiveFolders(g) = LiveFolders(f) \cup {c}  BY ONLY <1>3, <1>4, <1>8, c \in Folders, p \in Folders \cup {Top}, Reparented
<1>10. LiveFolders(f) \subseteq LiveFolders(g)  BY <1>9
<1>11. PICK t : t = items  OBVIOUS
<1>12. ItemsFit(t, g)  BY ONLY <1>3, <1>10, <1>11, ItemsKept
<1>13. UNCHANGED <<items, environment, sendRun, recorded>> /\ lastEdit'.kind \notin {"move", "shift"}
  BY DEF upsert_api_collection, Edit
<1>14. EditFits(folders', items', lastEdit')  BY <1>13, QuietEdit
<1> QED  BY <1>2, <1>9, <1>11, <1>12, <1>13, <1>14 DEF CollectionsInv

\* A folder is moved.
LEMMA FolderMoved ==
  ASSUME CollectionsInv, NEW c \in Folders, NEW p \in Folders \cup {Top}, NEW at \in Nat, move_api_collection(c, p, at)
  PROVE  CollectionsInv'
<1>1. PICK f : f = folders  OBVIOUS
<1>2. PICK g : g = folders'  OBVIOUS
<1>3. PICK t : t = items  OBVIOUS
<1>4. TreeFits(f) /\ ItemsFit(t, f)  BY <1>1, <1>3 DEF CollectionsInv
<1>5. c \in LiveFolders(f) /\ MayLieUnder(f, c, p)
  BY <1>1 DEF MayLieUnder, move_api_collection, move_collection, ensure_collection_exists, collection_exists, would_create_cycle
<1>6. PICK old : old = f[c].parent  OBVIOUS
<1>7. g = FolderMove(f, c, p, at)  BY <1>1, <1>2 DEF move_api_collection, move_collection, FolderMove
<1>10. /\ TreeFits(g) /\ LiveFolders(g) = LiveFolders(f)
       /\ PutInto(g, list_collection_ids_by_parent(g, p), c, at)
       /\ Dense(g, list_collection_ids_by_parent(g, old))
  BY ONLY <1>4, <1>5, <1>6, <1>7, at \in Nat, MovedFolder
<1>11. LiveFolders(f) \subseteq LiveFolders(g)  BY <1>10
<1>12. ItemsFit(t, g)  BY ONLY <1>4, <1>11, ItemsKept
<1>13. PICK e : e = lastEdit'  OBVIOUS
<1>14. e.kind = "move" /\ e.id = c /\ e.from = old /\ e.to = p /\ e.at = at  BY <1>1, <1>6, <1>13 DEF move_api_collection, Edit
<1>15. EditFits(g, t, e)  BY <1>10, <1>14 DEF EditFits
<1>16. UNCHANGED <<items, environment, sendRun, recorded>>  BY DEF move_api_collection, Edit
<1> QED  BY <1>2, <1>3, <1>10, <1>12, <1>13, <1>15, <1>16 DEF CollectionsInv

\* A folder goes with all that is below it.
LEMMA FolderDeleted ==
  ASSUME CollectionsInv, NEW c \in Folders, delete_api_collection(c)
  PROVE  CollectionsInv'
<1>1. PICK f : f = folders  OBVIOUS
<1>2. PICK g : g = folders'  OBVIOUS
<1>3. PICK t : t = items  OBVIOUS
<1>4. PICK u : u = items'  OBVIOUS
<1>5. TreeFits(f) /\ ItemsFit(t, f)  BY <1>1, <1>3 DEF CollectionsInv
<1>6. PICK tree : tree = {d \in LiveFolders(f) : c \in Above(f, d)}  OBVIOUS
<1>7. /\ g = [d \in Folders |-> IF d \in tree THEN NoFolder ELSE f[d]]
      /\ u = [i \in ItemIds |-> IF t[i].col \in tree THEN NoItem ELSE t[i]]
  BY <1>1, <1>2, <1>3, <1>4, <1>6 DEF delete_api_collection, delete_collection, delete_collection_tree
<1>8. TreeFits(g) /\ LiveFolders(g) = LiveFolders(f) \ tree  BY ONLY <1>5, <1>6, <1>7, c \in Folders, TreeRemoved
<1>9. NoItem \in ItemRows /\ BodyFits(NoItem) /\ NoItem.col = Gone  BY CollectionsAssumption DEF NoItem, ItemRows, BodyFits, Gone
<1>10. ItemsFit(u, g)
  <2>1. ASSUME NEW i \in ItemIds
        PROVE  u[i] \in ItemRows /\ BodyFits(u[i]) /\ (u[i].col # Gone => u[i].col \in LiveFolders(g))
    <3>1. t[i] \in ItemRows /\ BodyFits(t[i]) /\ (t[i].col # Gone => t[i].col \in LiveFolders(f))  BY <1>5 DEF ItemsFit
    <3>2. CASE t[i].col \in tree
      <4>1. u[i] = NoItem  BY <1>7, <3>2
      <4> QED  BY <1>9, <4>1
    <3>3. CASE t[i].col \notin tree
      <4>1. u[i] = t[i]  BY <1>7, <3>3
      <4> QED  BY <1>8, <3>1, <3>3, <4>1
    <3> QED  BY <3>2, <3>3
  <2>2. u \in [ItemIds -> ItemRows]  BY <1>7, <2>1
  <2> QED  BY <2>1, <2>2 DEF ItemsFit
<1>11. UNCHANGED <<environment, sendRun, recorded>> /\ lastEdit'.kind \notin {"move", "shift"}  BY DEF delete_api_collection, Edit
<1>12. EditFits(folders', items', lastEdit')  BY <1>11, QuietEdit
<1> QED  BY <1>2, <1>4, <1>8, <1>10, <1>11, <1>12 DEF CollectionsInv

\* An item is written.
LEMMA ItemWritten ==
  ASSUME NEW f, NEW t, ItemsFit(t, f), NEW i \in ItemIds, NEW row \in ItemRows, BodyFits(row),
         row.col # Gone => row.col \in LiveFolders(f), NEW u, u = [t EXCEPT ![i] = row]
  PROVE  ItemsFit(u, f)
<1>1. u \in [ItemIds -> ItemRows] /\ \A j \in ItemIds : u[j] = IF j = i THEN row ELSE t[j]  BY DEF ItemsFit
<1> QED  BY <1>1 DEF ItemsFit

\* An item is saved in a folder that exists.
LEMMA ItemUpserted ==
  ASSUME CollectionsInv, NEW i \in ItemIds, NEW row \in ItemRows, BodyFits(row), upsert_api_collection_item(i, row)
  PROVE  CollectionsInv'
<1>1. PICK f : f = folders  OBVIOUS
<1>2. PICK t : t = items  OBVIOUS
<1>3. PICK u : u = items'  OBVIOUS
<1>4. ItemsFit(t, f)  BY <1>1, <1>2 DEF CollectionsInv
<1>5. u = [t EXCEPT ![i] = row] /\ row.col \in LiveFolders(f)
  BY <1>1, <1>2, <1>3 DEF upsert_api_collection_item, upsert_collection_item, collection_exists
<1>6. ItemsFit(u, f)  BY ONLY <1>4, <1>5, i \in ItemIds, row \in ItemRows, BodyFits(row), ItemWritten
<1>7. UNCHANGED <<folders, environment, sendRun, recorded>> /\ lastEdit'.kind \notin {"move", "shift"}
  BY DEF upsert_api_collection_item, Edit
<1>8. EditFits(folders', items', lastEdit')  BY <1>7, QuietEdit
<1> QED  BY <1>1, <1>3, <1>6, <1>7, <1>8 DEF CollectionsInv

\* An item goes.
LEMMA ItemDeleted ==
  ASSUME CollectionsInv, NEW i \in ItemIds, delete_api_collection_item(i)
  PROVE  CollectionsInv'
<1>1. PICK f : f = folders  OBVIOUS
<1>2. PICK t : t = items  OBVIOUS
<1>3. PICK u : u = items'  OBVIOUS
<1>4. ItemsFit(t, f)  BY <1>1, <1>2 DEF CollectionsInv
<1>5. u = [t EXCEPT ![i] = NoItem]  BY <1>2, <1>3 DEF delete_api_collection_item, delete_collection_item
<1>6. NoItem \in ItemRows /\ BodyFits(NoItem) /\ NoItem.col = Gone  BY CollectionsAssumption DEF NoItem, ItemRows, BodyFits, Gone
<1>7. ItemsFit(u, f)  BY ONLY <1>4, <1>5, <1>6, i \in ItemIds, ItemWritten
<1>8. UNCHANGED <<folders, environment, sendRun, recorded>> /\ lastEdit'.kind \notin {"move", "shift"}
  BY DEF delete_api_collection_item, Edit
<1>9. EditFits(folders', items', lastEdit')  BY <1>8, QuietEdit
<1> QED  BY <1>1, <1>3, <1>7, <1>8, <1>9 DEF CollectionsInv

\* An item is put at a place of a folder.
LEMMA ItemMoved ==
  ASSUME CollectionsInv, NEW i \in ItemIds, NEW c \in Folders, NEW at \in Nat, move_api_collection_item(i, c, at)
  PROVE  CollectionsInv'
<1>1. PICK f : f = folders  OBVIOUS
<1>2. PICK g : g = items'  OBVIOUS
<1>3. PICK t : t = items  OBVIOUS
<1>4. ItemsFit(t, f)  BY <1>1, <1>3 DEF CollectionsInv
<1>5. c \in LiveFolders(f)
  BY <1>1 DEF move_api_collection_item, move_collection_item, ensure_collection_exists, collection_exists
<1>6. PICK old : old = t[i].col  OBVIOUS
<1>7. PICK moved : moved = [t EXCEPT ![i].col = c]  OBVIOUS
<1>8. PICK here : here = PlacedAt(moved, list_collection_item_ids_by_collection(moved, c), i, at)  OBVIOUS
<1>9. g = IF old = c THEN here ELSE Renumbered(here, list_collection_item_ids_by_collection(here, old))
  BY <1>2, <1>3, <1>6, <1>7, <1>8 DEF move_api_collection_item, move_collection_item
<1>10. /\ ItemsFit(g, f)
       /\ PutInto(g, list_collection_item_ids_by_collection(g, c), i, at)
       /\ Dense(g, list_collection_item_ids_by_collection(g, old))
  BY ONLY <1>4, <1>5, <1>6, <1>7, <1>8, <1>9, i \in ItemIds, at \in Nat, MovedItem
<1>11. PICK e : e = lastEdit'  OBVIOUS
<1>12. e.kind = "shift" /\ e.id = i /\ e.from = old /\ e.to = c /\ e.at = at
  BY <1>3, <1>6, <1>11 DEF move_api_collection_item, Edit
<1>13. EditFits(f, g, e)  BY <1>10, <1>12 DEF EditFits
<1>14. UNCHANGED <<folders, environment, sendRun, recorded>>  BY DEF move_api_collection_item, Edit
<1> QED  BY <1>1, <1>2, <1>10, <1>11, <1>13, <1>14 DEF CollectionsInv

\* What a table of variables keeps of a list: a value of it, and for b only plain text.
LEMMA VariableKept ==
  ASSUME NEW list \in Lists, NEW key \in VarKeys
  PROVE  /\ upsert_environment_variable(list, key) \in VarValues
         /\ key = "b" => upsert_environment_variable(list, key) \in {"none", "text"}
<1>1. PICK at : at = {n \in DOMAIN list : list[n].key = key}  OBVIOUS
<1>2. PICK v : v = upsert_environment_variable(list, key)  OBVIOUS
<1>3. \A n \in DOMAIN list : n \in {1, 2} /\ list[n].value \in VarValues /\ (list[n].key = "b" => list[n].value = "text")
  BY DEF Lists, Entry, VarValues
<1>4. CASE at = {}
  <2>1. v = "none"  BY <1>1, <1>2, <1>4 DEF upsert_environment_variable
  <2> QED  BY <1>2, <2>1 DEF VarValues
<1>5. CASE at # {}
  <2>1. \A n \in at : n \in {1, 2}  BY <1>1, <1>3
  <2>2. \E n \in at : \A m \in at : m <= n  BY <1>5, <2>1
  <2>3. PICK n : n = CHOOSE k \in at : \A m \in at : m <= k  OBVIOUS
  <2>4. n \in at  BY <2>2, <2>3
  <2>5. v = list[n].value  BY <1>1, <1>2, <1>5, <2>3 DEF upsert_environment_variable
  <2>6. n \in DOMAIN list /\ list[n].key = key  BY <1>1, <2>4
  <2> QED  BY <1>2, <1>3, <2>5, <2>6
<1> QED  BY <1>4, <1>5

\* A table of kept variables fits.
LEMMA TableFits ==
  ASSUME NEW list \in Lists
  PROVE  ValuesFit([k \in VarKeys |-> upsert_environment_variable(list, k)]) /\ ValuesFit(NoTable)
<1>1. PICK v : v = [k \in VarKeys |-> upsert_environment_variable(list, k)]  OBVIOUS
<1>2. v \in [VarKeys -> VarValues]  BY <1>1, VariableKept
<1>3. "b" \in VarKeys  BY DEF VarKeys
<1>4. v["b"] \in {"none", "text"}  BY <1>1, <1>3, VariableKept
<1>5. ValuesFit(NoTable)  BY DEF ValuesFit, NoTable, VarKeys, VarValues
<1> QED  BY <1>1, <1>2, <1>4, <1>5 DEF ValuesFit

\* The variables are edited.
LEMMA VariablesEdited ==
  ASSUME CollectionsInv,
         \/ upsert_api_environment \/ delete_api_environment
         \/ \E list \in Lists : set_api_environment_variables(list) \/ set_api_global_variables(list)
  PROVE  CollectionsInv'
<1>1. UNCHANGED <<folders, items, sendRun, recorded>> /\ lastEdit'.kind \notin {"move", "shift"}
  BY DEF upsert_api_environment, delete_api_environment, set_api_environment_variables, set_api_global_variables,
         VariableEdit, Edit
<1>2. EditFits(folders', items', lastEdit')  BY <1>1, QuietEdit
<1>3. PICK b \in BOOLEAN, v \in {w \in [VarKeys -> VarValues] : ValuesFit(w)} : environment = [exists |-> b, table |-> v]
  BY DEF CollectionsInv
<1>4. ValuesFit(NoTable)  BY DEF ValuesFit, NoTable, VarKeys, VarValues
<1>5. \A w : ValuesFit(w) => w \in {w1 \in [VarKeys -> VarValues] : ValuesFit(w1)}  BY DEF ValuesFit
<1>6. environment' \in [exists : BOOLEAN, table : {w \in [VarKeys -> VarValues] : ValuesFit(w)}]
  <2>1. CASE upsert_api_environment  BY <1>3, <2>1 DEF upsert_api_environment, upsert_environment
  <2>2. CASE delete_api_environment  BY <1>4, <1>5, <2>2 DEF delete_api_environment, delete_environment
  <2>3. ASSUME NEW list \in Lists, set_api_environment_variables(list) PROVE environment' \in [exists : BOOLEAN, table : {w \in [VarKeys -> VarValues] : ValuesFit(w)}]
    <3>1. PICK w : w = [k \in VarKeys |-> upsert_environment_variable(list, k)]  OBVIOUS
    <3>2. ValuesFit(w)  BY <3>1, TableFits
    <3>3. environment' = [environment EXCEPT !.table = w]
      BY <2>3, <3>1 DEF set_api_environment_variables, set_environment_variables
    <3>4. environment' = [exists |-> b, table |-> w]  BY <1>3, <3>3
    <3> QED  BY <1>5, <3>2, <3>4
  <2>4. CASE \E list \in Lists : set_api_global_variables(list)  BY <1>3, <2>4 DEF set_api_global_variables
  <2> QED  BY <2>1, <2>2, <2>3, <2>4
<1> QED  BY <1>1, <1>2, <1>6 DEF CollectionsInv

\* The nth number of a finite set is one of it.
LEMMA NthIsThere ==
  ASSUME NEW S, IsFiniteSet(S), S \subseteq Nat, NEW n \in 1..Cardinality(S)
  PROVE  Nth(S, n) \in S
<1>1. PICK R : R = {z \in S \X S : z[1] < z[2]}  OBVIOUS
<1>2. \A x, y \in S : <<x, y>> \in R <=> x < y  BY <1>1
<1>3. Orders(R, S)  BY <1>2 DEF Orders
<1>4. PICK r : r = [x \in S |-> Cardinality({y \in S : <<y, x>> \in R})]  OBVIOUS
<1>5. /\ r \in [S -> Nat] /\ Cardinality(S) \in Nat /\ \A x, y \in S : r[x] = r[y] => x = y
      /\ (\A x \in S : r[x] < Cardinality(S)) /\ \A k \in Nat : k < Cardinality(S) => \E x \in S : r[x] = k
  BY ONLY <1>3, <1>4, IsFiniteSet(S), RanksAreDense
<1>6. n - 1 \in Nat /\ n - 1 < Cardinality(S)  BY <1>5
<1>7. PICK k \in S : r[k] = n - 1  BY <1>5, <1>6
<1>8. {y \in S : <<y, k>> \in R} = {y \in S : y < k}  BY <1>2
<1>9. Cardinality({j \in S : j < k}) + 1 = n  BY <1>4, <1>5, <1>6, <1>7, <1>8
<1> QED  BY <1>9 DEF Nth

\* What a batch loads.
LEMMA Loaded ==
  ASSUME NEW t, NEW f, ItemsFit(t, f), NEW ids \in Chosen, NEW there, there = {k \in DOMAIN ids : t[ids[k]] # NoItem},
         NEW list, list = [n \in 1..Cardinality(there) |-> LET i == ids[Nth(there, n)] IN [id |-> i, item |-> t[i]]]
  PROVE  /\ list \in Seq([id : ItemIds, item : ItemRows])
         /\ \A k \in 1..Len(list) : BodyFits(list[k].item)
<1>1. DOMAIN ids \subseteq {1, 2} /\ \A k \in DOMAIN ids : ids[k] \in ItemIds
  <2>1. CASE \E i \in ItemIds : ids = <<i>>  BY <2>1
  <2>2. CASE \E j \in ItemIds : ids = <<1, j>>
    <3>1. 1 \in ItemIds  BY <2>2, CollectionsAssumption DEF ItemIds
    <3> QED  BY <2>2, <3>1
  <2> QED  BY <2>1, <2>2 DEF Chosen
<1>2. there \in SUBSET {1, 2}  BY <1>1
<1>3. IsFiniteSet({1, 2})
  <2>1. 1 \in Int /\ 2 \in Int /\ {1, 2} = 1..2  OBVIOUS
  <2> QED  BY <2>1, FS_Interval
<1>4. IsFiniteSet(there) /\ there \subseteq Nat  BY <1>2, <1>3, FS_Subset
<1>5. PICK m : m = Cardinality(there)  OBVIOUS
<1>6. m \in Nat  BY <1>4, <1>5, FS_CardinalityType
<1>7. ASSUME NEW n \in 1..m PROVE list[n] \in [id : ItemIds, item : ItemRows] /\ BodyFits(list[n].item)
  <2>1. PICK k : k = Nth(there, n)  OBVIOUS
  <2>2. k \in there  BY ONLY <1>4, <1>5, <1>7, <2>1, NthIsThere
  <2>3. PICK i : i = ids[k]  OBVIOUS
  <2>4. i \in ItemIds  BY <1>1, <2>2, <2>3
  <2>5. t[i] \in ItemRows /\ BodyFits(t[i])  BY <2>4 DEF ItemsFit
  <2>6. PICK row : row = t[i]  OBVIOUS
  <2>7. list[n] = [id |-> i, item |-> row]  BY <1>5, <2>1, <2>3, <2>6
  <2>8. row \in ItemRows /\ BodyFits(row)  BY <2>5, <2>6
  <2>9. PICK l : l = [id |-> i, item |-> row]  OBVIOUS
  <2>10. l \in [id : ItemIds, item : ItemRows] /\ l.item = row  BY ONLY <2>4, <2>8, <2>9
  <2> QED  BY <2>7, <2>8, <2>9, <2>10
<1>8. list = [n \in 1..m |-> list[n]]  BY <1>5
<1>9. PICK E : E = [id : ItemIds, item : ItemRows]  OBVIOUS
<1>10. list \in Seq(E) /\ Len(list) = m
  <2>1. \A n \in 1..m : list[n] \in E  BY <1>7, <1>9
  <2> QED  BY ONLY <1>6, <1>8, <2>1
<1> QED  BY <1>7, <1>9, <1>10

\* A batch begins.
LEMMA BatchBegins ==
  ASSUME CollectionsInv, NEW ids \in Chosen, NEW order \in {<<"a", "b">>, <<"b", "a">>}, BatchLoad(ids, order)
  PROVE  CollectionsInv'
<1>1. PICK t : t = items  OBVIOUS
<1>2. PICK f : f = folders  OBVIOUS
<1>3. PICK there : there = {k \in DOMAIN ids : t[ids[k]] # NoItem}  OBVIOUS
<1>4. PICK list : list = [n \in 1..Cardinality(there) |-> LET i == ids[Nth(there, n)] IN [id |-> i, item |-> t[i]]]  OBVIOUS
<1>5. ItemsFit(t, f)  BY <1>1, <1>2 DEF CollectionsInv
<1>6. list \in Seq([id : ItemIds, item : ItemRows]) /\ \A k \in 1..Len(list) : BodyFits(list[k].item)
  BY ONLY <1>3, <1>4, <1>5, ids \in Chosen, Loaded
<1>7. PICK v : v = list_environment_variables  OBVIOUS
<1>8. ValuesFit(v)
  <2>1. PICK b \in BOOLEAN, w \in {u \in [VarKeys -> VarValues] : ValuesFit(u)} : environment = [exists |-> b, table |-> w]
    BY DEF CollectionsInv
  <2>2. v = [k \in VarKeys |-> IF w[k] = "off" THEN "none" ELSE w[k]]  BY <1>7, <2>1 DEF list_environment_variables
  <2> QED  BY <2>1, <2>2 DEF ValuesFit, VarValues, VarKeys
<1>9. PICK run : run = sendRun'  OBVIOUS
<1>10. run = [state |-> "running", next |-> 1, values |-> v, order |-> order, sent |-> << >>, list |-> list]
  BY <1>1, <1>3, <1>4, <1>7, <1>9 DEF BatchLoad
<1>11. sendRun.state = "idle" /\ UNCHANGED <<folders, items, environment, lastEdit, recorded>>  BY DEF BatchLoad
<1>12. recorded \in Seq(ItemIds) /\ Len(recorded) = 0  BY <1>11 DEF CollectionsInv, RunFits
<1>13. v \in {w \in [VarKeys -> VarValues] : ValuesFit(w)}  BY <1>8 DEF ValuesFit
<1>14. Len(list) \in Nat /\ << >> \in Seq(Requests) /\ Len(<< >>) = 0  BY <1>6
<1>15. RunFits(run, recorded)
  <2>1. run \in Runs  BY <1>6, <1>10, <1>13, <1>14 DEF Runs
  <2> QED  BY <1>6, <1>10, <1>12, <1>14, <2>1 DEF RunFits
<1> QED  BY <1>9, <1>11, <1>15 DEF CollectionsInv

\* A request says of its item and the variables what it should.
TellsOf(built, item, v) ==
  /\ built.headers = "dropped" => v["a"] = "quote"
  /\ v["a"] = "none" => built.headers = item.headers
  /\ built.type # "own" => built.body
  /\ built.body <=> item.body \notin {"empty", "blank"}

\* What is built for an item says of it what it should.
LEMMA BuiltFits ==
  ASSUME NEW item \in ItemRows, BodyFits(item), NEW v, ValuesFit(v), NEW order \in {<<"a", "b">>, <<"b", "a">>},
         NEW built, built = build_collection_item_request(item, v, order)
  PROVE  built \in Requests /\ TellsOf(built, item, v)
<1>1. PICK h : h = substitute_vars(item.headers, v, order)  OBVIOUS
<1>2. item.headers \in {"plain", "a"} /\ v["a"] \in VarValues /\ v["b"] \in {"none", "text"}  BY DEF ItemRows, ValuesFit, VarKeys
<1>3. h \in {"plain", "a", "b", "broken", "filled"} /\ (h = "broken" => v["a"] = "quote") /\ (v["a"] = "none" => h = item.headers)
  <2>1. CASE item.headers = "plain"
    <3>1. CASE order = <<"a", "b">>  BY <1>1, <2>1, <3>1 DEF substitute_vars
    <3>2. CASE order = <<"b", "a">>  BY <1>1, <2>1, <3>2 DEF substitute_vars
    <3>3. h = "plain"  BY <1>1, <2>1, <3>1, <3>2 DEF substitute_vars
    <3> QED  BY <2>1, <3>3
  <2>2. CASE item.headers = "a"
    <3>1. CASE v["a"] = "none"
      <4>1. h = "a"  BY <1>1, <2>2, <3>1 DEF substitute_vars
      <4> QED  BY <2>2, <4>1
    <3>2. CASE v["a"] = "ref"
      <4>1. h \in {"b", "filled"}  BY <1>1, <1>2, <2>2, <3>2 DEF substitute_vars
      <4> QED  BY <3>2, <4>1
    <3>3. CASE v["a"] = "quote"
      <4>1. h = "broken"  BY <1>1, <1>2, <2>2, <3>3 DEF substitute_vars
      <4> QED  BY <3>3, <4>1
    <3>4. CASE v["a"] \in {"off", "text"}
      <4>1. h = "filled"  BY <1>1, <1>2, <2>2, <3>4 DEF substitute_vars
      <4> QED  BY <3>4, <4>1
    <3> QED  BY <1>2, <3>1, <3>2, <3>3, <3>4 DEF VarValues
  <2> QED  BY <1>2, <2>1, <2>2
<1>4. built.headers = IF h = "broken" THEN "dropped" ELSE h
  BY <1>1 DEF build_collection_item_request, parse_collection_header_entries
<1>5. /\ built.body \in BOOLEAN /\ built.type \in {"own", "urlencoded", "formdata"}
      /\ built.type # "own" => built.body
      /\ built.body <=> item.body \notin {"empty", "blank"}
  <2>1. item.body \in {"empty", "blank", "pairs", "text", "file"}  BY DEF ItemRows
  <2>2. CASE item.type = "raw"
    <3>1. built.body = (item.body \notin {"empty", "blank"}) /\ built.type = "own"
      BY <2>2 DEF build_collection_item_request, ensure_content_type_header
    <3> QED  BY <3>1
  <2>3. CASE item.type = "none" /\ item.body = "empty"
    <3>1. built.body = FALSE /\ built.type = "own"  BY <2>3 DEF build_collection_item_request, ensure_content_type_header
    <3> QED  BY <2>3, <3>1
  <2>4. CASE item.type = "urlencoded" /\ item.body \in {"blank", "pairs", "text"}
    <3>1. /\ built.body = (item.body \in {"pairs", "text"})
          /\ built.type = IF item.body \in {"pairs", "text"} THEN "urlencoded" ELSE "own"
      BY <2>4 DEF build_collection_item_request, ensure_content_type_header, build_urlencoded_body
    <3>2. PICK w, y, z : w = item.body /\ y = built.body /\ z = built.type  OBVIOUS
    <3>3. y = (w \in {"pairs", "text"}) /\ z = IF w \in {"pairs", "text"} THEN "urlencoded" ELSE "own"  BY <3>1, <3>2
    <3>4. y \in BOOLEAN /\ z \in {"own", "urlencoded", "formdata"}  BY ONLY <3>3
    <3>5. (z # "own" => y) /\ (y <=> w \notin {"empty", "blank"})  BY <2>4, <3>2, <3>3
    <3> QED  BY <3>2, <3>4, <3>5
  <2>5. CASE item.type = "formdata" /\ item.body \in {"empty", "file"}
    <3>1. /\ built.body = (item.body \in {"pairs", "file"})
          /\ built.type = IF item.body \in {"pairs", "file"} THEN "formdata" ELSE "own"
      BY <2>5 DEF build_collection_item_request, ensure_content_type_header
    <3>2. PICK w, y, z : w = item.body /\ y = built.body /\ z = built.type  OBVIOUS
    <3>3. y = (w \in {"pairs", "file"}) /\ z = IF w \in {"pairs", "file"} THEN "formdata" ELSE "own"  BY <3>1, <3>2
    <3>4. y \in BOOLEAN /\ z \in {"own", "urlencoded", "formdata"}  BY ONLY <3>3
    <3>5. (z # "own" => y) /\ (y <=> w \notin {"empty", "blank"})  BY <2>5, <3>2, <3>3
    <3> QED  BY <3>2, <3>4, <3>5
  <2> QED  BY <2>2, <2>3, <2>4, <2>5 DEF BodyFits
<1>6. built = [body |-> built.body, type |-> built.type, headers |-> built.headers]  BY DEF build_collection_item_request
<1>7. built \in Requests
  <2>1. PICK b, y, g : /\ b \in BOOLEAN /\ y \in {"own", "urlencoded", "formdata"}
                      /\ b = built.body /\ y = built.type /\ g = built.headers
    BY <1>5
  <2> QED  BY <1>3, <1>4, <1>6, <2>1 DEF Requests
<1> QED  BY <1>2, <1>3, <1>4, <1>5, <1>7 DEF TellsOf

\* An item of the batch is sent, or its sending ends the batch.
LEMMA BatchSends ==
  ASSUME CollectionsInv, NEW ok \in BOOLEAN, BatchSend(ok)
  PROVE  CollectionsInv'
<1>1. PICK run : run = sendRun  OBVIOUS
<1>2. PICK rec : rec = recorded  OBVIOUS
<1>3. RunFits(run, rec)  BY <1>1, <1>2 DEF CollectionsInv
<1>4. PICK state \in {"idle", "running", "failed", "done"}, n \in Nat,
           v \in {w \in [VarKeys -> VarValues] : ValuesFit(w)}, order \in {<<"a", "b">>, <<"b", "a">>},
           sent \in Seq(Requests), list \in Seq([id : ItemIds, item : ItemRows]) :
           run = [state |-> state, next |-> n, values |-> v, order |-> order, sent |-> sent, list |-> list]
  BY <1>3 DEF RunFits, Runs
<1>5. /\ state = "running" /\ n <= Len(list) /\ rec \in Seq(ItemIds) /\ Len(rec) = Len(sent) /\ n = Len(sent) + 1
      /\ \A k \in 1..Len(list) : BodyFits(list[k].item)
      /\ \A k \in 1..Len(sent) : rec[k] = list[k].id /\ sent[k] = build_collection_item_request(list[k].item, v, order)
  BY <1>1, <1>3, <1>4 DEF RunFits, BatchSend
<1>6. PICK this : this = list[n]  OBVIOUS
<1>7. Len(sent) \in Nat /\ Len(list) \in Nat /\ n \in 1..Len(list) /\ n \notin 1..Len(sent)  BY <1>5
<1>8. this \in [id : ItemIds, item : ItemRows] /\ BodyFits(this.item)
  <2>1. PICK E : E = [id : ItemIds, item : ItemRows]  OBVIOUS
  <2>2. list \in Seq(E)  BY <2>1
  <2>3. this \in E  BY ONLY <1>6, <1>7, <2>2, ElementOfSeq
  <2> QED  BY <1>5, <1>6, <1>7, <2>1, <2>3
<1>9. this.id \in ItemIds /\ this.item \in ItemRows  BY <1>8
<1>10. PICK item : item = this.item  OBVIOUS
<1>11. PICK built : built = build_collection_item_request(item, v, order)  OBVIOUS
<1>12. ValuesFit(v)  OBVIOUS
<1>13. item \in ItemRows /\ BodyFits(item)  BY <1>8, <1>9, <1>10
<1>14. built \in Requests  BY ONLY <1>11, <1>12, <1>13, order \in {<<"a", "b">>, <<"b", "a">>}, BuiltFits
<1>15. PICK next : next = sendRun'  OBVIOUS
<1>16. PICK rec1 : rec1 = recorded'  OBVIOUS
<1>17. UNCHANGED <<folders, items, environment, lastEdit>>  BY DEF BatchSend
<1>18. RunFits(next, rec1)
  <2>1. CASE ok
    <3>1. PICK sent1 : sent1 = Append(sent, built)  OBVIOUS
    <3>a. run.list = list /\ run.next = n /\ run.values = v /\ run.order = order /\ run.sent = sent  BY <1>4
    <3>2. rec1 = Append(rec, this.id)
      <4>1. rec1 = Append(rec, run.list[run.next].id)  BY <1>1, <1>2, <1>16, <2>1 DEF BatchSend
      <4> QED  BY <1>6, <3>a, <4>1
    <3>3. next = [state |-> state, next |-> n + 1, values |-> v, order |-> order, sent |-> sent1, list |-> list]
      <4>1. next = [run EXCEPT !.next = @ + 1,
                     !.sent = Append(@, build_collection_item_request(run.list[run.next].item, run.values, run.order))]
        BY <1>1, <1>15, <2>1 DEF BatchSend
      <4>2. built = build_collection_item_request(run.list[run.next].item, run.values, run.order)  BY <1>6, <1>10, <1>11, <3>a
      <4>3. next = [run EXCEPT !.next = n + 1, !.sent = sent1]  BY <3>1, <3>a, <4>1, <4>2
      <4> QED  BY ONLY <1>4, <4>3
    <3>4. /\ sent1 \in Seq(Requests) /\ Len(sent1) = n /\ sent1[n] = built
          /\ \A k \in 1..Len(sent) : sent1[k] = sent[k]
      BY <1>5, <1>14, <3>1, AppendProperties
    <3>5. PICK x : x = this.id  OBVIOUS
    <3>6. x \in ItemIds /\ rec1 = Append(rec, x)  BY <1>9, <3>2, <3>5
    <3>7. /\ rec1 \in Seq(ItemIds) /\ Len(rec1) = n /\ rec1[n] = x
          /\ \A k \in 1..Len(sent) : rec1[k] = rec[k]
      BY <1>5, <3>6, AppendProperties
    <3>8. \A k \in 1..Len(sent1) : k = n \/ k \in 1..Len(sent)  BY <1>5, <1>7, <3>4
    <3>9. ASSUME NEW k \in 1..Len(sent1)
          PROVE  rec1[k] = list[k].id /\ sent1[k] = build_collection_item_request(list[k].item, v, order)
      <4>1. CASE k = n  BY <1>6, <1>10, <1>11, <3>4, <3>5, <3>7, <4>1
      <4>2. CASE k \in 1..Len(sent)  BY <1>5, <3>4, <3>7, <4>2
      <4> QED  BY <3>8, <4>1, <4>2
    <3>10. next \in Runs  BY <3>3, <3>4 DEF Runs
    <3>11. /\ next.state = "running" /\ next.next = n + 1 /\ next.values = v /\ next.order = order
           /\ next.sent = sent1 /\ next.list = list
      BY <1>5, <3>3
    <3> QED  BY <1>5, <3>4, <3>7, <3>9, <3>10, <3>11 DEF RunFits
  <2>2. CASE ~ok
    <3>1. rec1 = rec  BY <1>2, <1>16, <2>2 DEF BatchSend
    <3>2. next = [state |-> "failed", next |-> n, values |-> v, order |-> order, sent |-> sent, list |-> list]
      <4>1. next = [run EXCEPT !.state = "failed"]  BY <1>1, <1>15, <2>2 DEF BatchSend
      <4> QED  BY ONLY <1>4, <4>1
    <3>3. next \in Runs  BY <3>2 DEF Runs
    <3>4. /\ next.state = "failed" /\ next.next = n /\ next.values = v /\ next.order = order
           /\ next.sent = sent /\ next.list = list
      BY <3>2
    <3> QED  BY <1>5, <1>7, <3>1, <3>3, <3>4 DEF RunFits
  <2> QED  BY <2>1, <2>2
<1> QED  BY <1>15, <1>16, <1>17, <1>18 DEF CollectionsInv

\* A batch ends with its list.
LEMMA BatchEnds ==
  ASSUME CollectionsInv, BatchDone
  PROVE  CollectionsInv'
<1>1. PICK run : run = sendRun  OBVIOUS
<1>2. PICK rec : rec = recorded  OBVIOUS
<1>3. RunFits(run, rec)  BY <1>1, <1>2 DEF CollectionsInv
<1>4. PICK state \in {"idle", "running", "failed", "done"}, n \in Nat,
           v \in {w \in [VarKeys -> VarValues] : ValuesFit(w)}, order \in {<<"a", "b">>, <<"b", "a">>},
           sent \in Seq(Requests), list \in Seq([id : ItemIds, item : ItemRows]) :
           run = [state |-> state, next |-> n, values |-> v, order |-> order, sent |-> sent, list |-> list]
  BY <1>3 DEF RunFits, Runs
<1>5. /\ n > Len(list) /\ rec \in Seq(ItemIds) /\ Len(rec) = Len(sent) /\ n = Len(sent) + 1 /\ Len(sent) <= Len(list)
      /\ \A k \in 1..Len(list) : BodyFits(list[k].item)
      /\ \A k \in 1..Len(sent) : rec[k] = list[k].id /\ sent[k] = build_collection_item_request(list[k].item, v, order)
  BY <1>1, <1>3, <1>4 DEF RunFits, BatchDone
<1>6. Len(sent) = Len(list)  BY <1>5
<1>7. PICK next : next = sendRun'  OBVIOUS
<1>8. next = [state |-> "done", next |-> n, values |-> v, order |-> order, sent |-> sent, list |-> list]
  <2>1. next = [run EXCEPT !.state = "done"]  BY <1>1, <1>7 DEF BatchDone
  <2> QED  BY ONLY <1>4, <2>1
<1>9. next \in Runs  BY <1>8 DEF Runs
<1>10. /\ next.state = "done" /\ next.next = n /\ next.values = v /\ next.order = order
       /\ next.sent = sent /\ next.list = list
  BY <1>8
<1>11. RunFits(next, rec)  BY <1>5, <1>6, <1>9, <1>10 DEF RunFits
<1>12. UNCHANGED <<folders, items, environment, lastEdit, recorded>>  BY DEF BatchDone
<1> QED  BY <1>2, <1>7, <1>11, <1>12 DEF CollectionsInv

\* The workbench begins with one folder and one item in it.
LEMMA CollectionsBegin ==
  ASSUME CollectionsInit
  PROVE  CollectionsInv
<1>1. PICK f : f = folders  OBVIOUS
<1>2. PICK t : t = items  OBVIOUS
<1>3. PICK row : row = [parent |-> Top, pos |-> 0]  OBVIOUS
<1>4. row \in FolderRows /\ NoFolder \in FolderRows /\ row.parent = Top /\ NoFolder.parent = Gone /\ Top # Gone /\ Top \notin Folders
  BY <1>3, CollectionsAssumption DEF FolderRows, NoFolder, Top, Gone, Folders
<1>5. f = [c \in Folders |-> IF c = 1 THEN row ELSE NoFolder]  BY <1>1, <1>3 DEF CollectionsInit
<1>6. 1 \in Folders  BY CollectionsAssumption DEF Folders
<1>7. LiveFolders(f) = {1} /\ f[1].parent = Top  BY <1>4, <1>5, <1>6 DEF LiveFolders
<1>8. TreeFits(f)
  <2>1. f \in [Folders -> FolderRows]  BY <1>4, <1>5
  <2>2. ASSUME NEW S \in SUBSET LiveFolders(f), S # {} PROVE \E d \in S : f[d].parent \notin S
    <3>1. 1 \in S /\ S \subseteq Folders  BY <1>6, <1>7, <2>2
    <3> QED  BY <1>4, <1>7, <3>1
  <2> QED  BY <1>7, <2>1, <2>2 DEF TreeFits
<1>9. PICK item : item = [col |-> 1, pos |-> 0, type |-> "raw", body |-> "text", headers |-> "a"]  OBVIOUS
<1>10. item \in ItemRows /\ BodyFits(item) /\ item.col = 1  BY <1>9, CollectionsAssumption DEF ItemRows, BodyFits
<1>11. NoItem \in ItemRows /\ BodyFits(NoItem) /\ NoItem.col = Gone  BY CollectionsAssumption DEF NoItem, ItemRows, BodyFits, Gone
<1>12. t = [i \in ItemIds |-> IF i = 1 THEN item ELSE NoItem]  BY <1>2, <1>9 DEF CollectionsInit
<1>13. ItemsFit(t, f)  BY <1>7, <1>10, <1>11, <1>12 DEF ItemsFit
<1>14. ValuesFit(NoTable)  BY DEF ValuesFit, NoTable, VarKeys, VarValues
<1>15. NoTable \in {w \in [VarKeys -> VarValues] : ValuesFit(w)}  BY <1>14 DEF ValuesFit
<1>16. environment \in [exists : BOOLEAN, table : {v \in [VarKeys -> VarValues] : ValuesFit(v)}]  BY <1>15 DEF CollectionsInit
<1>17. PICK run : run = sendRun  OBVIOUS
<1>18. run = [state |-> "idle", next |-> 1, values |-> NoTable, order |-> <<"a", "b">>, sent |-> << >>, list |-> << >>]
  BY <1>17 DEF CollectionsInit
<1>19. << >> \in Seq(Requests) /\ << >> \in Seq([id : ItemIds, item : ItemRows]) /\ << >> \in Seq(ItemIds) /\ Len(<< >>) = 0
  OBVIOUS
<1>20. run \in Runs  BY <1>15, <1>18, <1>19 DEF Runs
<1>21. recorded = << >> /\ lastEdit.kind = "none"  BY DEF CollectionsInit
<1>22. RunFits(run, recorded)  BY <1>18, <1>19, <1>20, <1>21 DEF RunFits
<1>23. EditFits(folders, items, lastEdit)  BY <1>21 DEF EditFits
<1> QED  BY <1>1, <1>2, <1>8, <1>13, <1>16, <1>17, <1>22, <1>23 DEF CollectionsInv

\* Every step of the workbench keeps its invariant.
LEMMA CollectionsGoOn ==
  ASSUME CollectionsInv, [NextCollections]_collectionVars
  PROVE  CollectionsInv'
<1>1. CASE UNCHANGED collectionVars  BY <1>1 DEF collectionVars, CollectionsInv
<1>2. ASSUME NEW c \in Folders, NEW p \in Folders \cup {Top}, upsert_api_collection(c, p, 0) PROVE CollectionsInv'
  BY <1>2, FolderUpserted
<1>3. ASSUME NEW c \in Folders, NEW p \in Folders \cup {Top}, NEW at \in 0..2, move_api_collection(c, p, at) PROVE CollectionsInv'
  <2>1. at \in Nat  OBVIOUS
  <2> QED  BY <1>3, <2>1, FolderMoved
<1>4. ASSUME NEW i \in ItemIds, NEW c \in Folders, upsert_api_collection_item(i, [items[i] EXCEPT !.col = c, !.pos = 0]) PROVE CollectionsInv'
  <2>1. PICK row : row = [items[i] EXCEPT !.col = c, !.pos = 0]  OBVIOUS
  <2>2. PICK was : was = items[i]  OBVIOUS
  <2>3. was \in ItemRows /\ BodyFits(was)  BY <2>2 DEF CollectionsInv, ItemsFit
  <2>4. c \in 0..MaxCollection + 1  BY CollectionsAssumption DEF Folders
  <2>5. row = [was EXCEPT !.col = c, !.pos = 0]  BY <2>1, <2>2
  <2>6. row \in ItemRows /\ BodyFits(row)  BY ONLY <2>3, <2>4, <2>5 DEF ItemRows, BodyFits
  <2>7. upsert_api_collection_item(i, row)  BY <1>4, <2>1
  <2> QED  BY <2>6, <2>7, ItemUpserted
<1>5. ASSUME NEW i \in ItemIds, NEW c \in Folders, NEW at \in 0..1, move_api_collection_item(i, c, at) PROVE CollectionsInv'
  <2>1. at \in Nat  OBVIOUS
  <2> QED  BY <1>5, <2>1, ItemMoved
<1>6. ASSUME NEW i \in ItemIds, NEW c \in Folders, NEW body \in {"empty", "file"},
             upsert_api_collection_item(i, [items[i] EXCEPT !.col = c, !.type = "formdata", !.body = body])
      PROVE  CollectionsInv'
  <2>1. PICK row : row = [items[i] EXCEPT !.col = c, !.type = "formdata", !.body = body]  OBVIOUS
  <2>2. PICK was : was = items[i]  OBVIOUS
  <2>3. was \in ItemRows  BY <2>2 DEF CollectionsInv, ItemsFit
  <2>4. c \in 0..MaxCollection + 1  BY CollectionsAssumption DEF Folders
  <2>5. row = [was EXCEPT !.col = c, !.type = "formdata", !.body = body]  BY <2>1, <2>2
  <2>6. row \in ItemRows /\ BodyFits(row)  BY ONLY <2>3, <2>4, <2>5, body \in {"empty", "file"} DEF ItemRows, BodyFits
  <2>7. upsert_api_collection_item(i, row)  BY <1>6, <2>1
  <2> QED  BY <2>6, <2>7, ItemUpserted
<1>7. ASSUME NEW i \in ItemIds, NEW c \in Folders, NEW content \in {"json", "form", "other"},
             NEW body \in {"empty", "blank", "pairs", "text"}, save_session_to_collection(i, c, content, body)
      PROVE  CollectionsInv'
  <2>1. PICK type : type = SavedType(content, body)  OBVIOUS
  <2>2. PICK row : row = [col |-> c, pos |-> 0, type |-> type, body |-> body, headers |-> "plain"]  OBVIOUS
  <2>3. \/ type = "raw"
        \/ type = "none" /\ body = "empty"
        \/ type = "urlencoded" /\ body \in {"blank", "pairs", "text"}
    <3>1. CASE content = "json"
      <4>1. type = "raw"  BY <2>1, <3>1 DEF SavedType
      <4> QED  BY <4>1
    <3>2. CASE content = "form" /\ body # "empty"
      <4>1. type = "urlencoded"  BY <2>1, <3>2 DEF SavedType, parse_urlencoded_entries
      <4> QED  BY <3>2, <4>1
    <3>3. CASE content = "other" \/ (content = "form" /\ body = "empty")
      <4>1. type = IF body = "empty" THEN "none" ELSE "raw"  BY <2>1, <3>3 DEF SavedType, parse_urlencoded_entries
      <4> QED  BY <4>1
    <3> QED  BY <3>1, <3>2, <3>3
  <2>4. c \in 0..MaxCollection + 1  BY CollectionsAssumption DEF Folders
  <2>5. row \in ItemRows /\ BodyFits(row)
    BY ONLY <2>2, <2>3, <2>4, body \in {"empty", "blank", "pairs", "text"} DEF ItemRows, BodyFits
  <2>6. upsert_api_collection_item(i, row)  BY <1>7, <2>1, <2>2 DEF save_session_to_collection
  <2> QED  BY <2>5, <2>6, ItemUpserted
<1>8. CASE \/ upsert_api_environment \/ delete_api_environment
           \/ \E list \in Lists : set_api_environment_variables(list) \/ set_api_global_variables(list)
  BY <1>8, VariablesEdited
<1>9. ASSUME NEW ids \in Chosen, NEW order \in {<<"a", "b">>, <<"b", "a">>}, BatchLoad(ids, order) PROVE CollectionsInv'
  BY <1>9, BatchBegins
<1>10. ASSUME NEW ok \in BOOLEAN, BatchSend(ok) PROVE CollectionsInv'  BY <1>10, BatchSends
<1>11. CASE BatchDone  BY <1>11, BatchEnds
<1>12. CASE TreeStep  BY <1>2, <1>3, <1>4, <1>5, <1>12 DEF TreeStep
<1>13. CASE RequestStep  BY <1>6, <1>7, <1>8, <1>9, <1>10, <1>11, <1>13 DEF RequestStep
<1>14. ASSUME NEW c \in Folders, delete_api_collection(c) PROVE CollectionsInv'  BY <1>14, FolderDeleted
<1>15. ASSUME NEW i \in ItemIds, delete_api_collection_item(i) PROVE CollectionsInv'  BY <1>15, ItemDeleted
<1> QED  BY <1>1, <1>12, <1>13, <1>14, <1>15 DEF NextCollections

\* The invariant says what is promised.
LEMMA CollectionsPromise ==
  ASSUME CollectionsInv
  PROVE  CollectionsStayATree
<1>1. \A c \in LiveFolders(folders) : \E d \in Above(folders, c) : folders[d].parent = Top
  <2>1. PICK f : f = folders  OBVIOUS
  <2>2. TreeFits(f)  BY <2>1 DEF CollectionsInv
  <2> QED  BY <2>1, <2>2, LeadsToTop
<1>2. \A i \in LiveItems : collection_exists(items[i].col)  BY DEF CollectionsInv, ItemsFit, LiveItems, collection_exists
<1>3. PICK f, t, e : f = folders /\ t = items /\ e = lastEdit  OBVIOUS
<1>4. EditFits(f, t, e)  BY <1>3 DEF CollectionsInv
<1>5. lastEdit.kind = "move" =>
        LET list == list_collection_ids_by_parent(folders, lastEdit.to) IN
        /\ Dense(folders, list) /\ Dense(folders, list_collection_ids_by_parent(folders, lastEdit.from))
        /\ folders[lastEdit.id].pos = IF lastEdit.at < Cardinality(list) THEN lastEdit.at ELSE Cardinality(list) - 1
  BY <1>3, <1>4 DEF EditFits, PutInto
<1>6. lastEdit.kind = "shift" =>
        LET list == list_collection_item_ids_by_collection(items, lastEdit.to) IN
        /\ Dense(items, list) /\ Dense(items, list_collection_item_ids_by_collection(items, lastEdit.from))
        /\ items[lastEdit.id].pos = IF lastEdit.at < Cardinality(list) THEN lastEdit.at ELSE Cardinality(list) - 1
  BY <1>3, <1>4 DEF EditFits, PutInto
<1>7. PICK run, rec : run = sendRun /\ rec = recorded  OBVIOUS
<1>8. RunFits(run, rec)  BY <1>7 DEF CollectionsInv
<1>9. PICK state \in {"idle", "running", "failed", "done"}, n \in Nat,
           v \in {w \in [VarKeys -> VarValues] : ValuesFit(w)}, order \in {<<"a", "b">>, <<"b", "a">>},
           sent \in Seq(Requests), list \in Seq([id : ItemIds, item : ItemRows]) :
           run = [state |-> state, next |-> n, values |-> v, order |-> order, sent |-> sent, list |-> list]
  BY <1>8 DEF RunFits, Runs
<1>10. /\ rec \in Seq(ItemIds) /\ Len(rec) = Len(sent) /\ Len(sent) <= Len(list)
       /\ \A k \in 1..Len(list) : BodyFits(list[k].item)
       /\ \A k \in 1..Len(sent) : rec[k] = list[k].id /\ sent[k] = build_collection_item_request(list[k].item, v, order)
       /\ state = "done" => Len(sent) = Len(list)
  BY <1>8, <1>9 DEF RunFits
<1>11. recorded = [k \in 1..Len(sendRun.sent) |-> sendRun.list[k].id]
  <2>1. DOMAIN rec = 1..Len(sent) /\ rec = [k \in DOMAIN rec |-> rec[k]]  BY <1>10
  <2>2. rec = [k \in 1..Len(sent) |-> list[k].id]  BY <1>10, <2>1
  <2> QED  BY <1>7, <1>9, <2>2
<1>12. sendRun.state = "done" => Len(recorded) = Len(sendRun.list)  BY <1>7, <1>9, <1>10
<1>13. ASSUME NEW k \in DOMAIN sent
       PROVE  /\ sent[k].headers = "dropped" => v["a"] = "quote"
              /\ v["a"] = "none" => sent[k].headers = list[k].item.headers
              /\ sent[k].type # "own" => sent[k].body
              /\ sent[k].body <=> list[k].item.body \notin {"empty", "blank"}
  <2>1. k \in 1..Len(sent) /\ k \in 1..Len(list)  BY <1>10
  <2>2. PICK item : item = list[k].item  OBVIOUS
  <2>3. PICK built : built = sent[k]  OBVIOUS
  <2>4. list[k] \in [id : ItemIds, item : ItemRows]
    <3>1. PICK E : E = [id : ItemIds, item : ItemRows]  OBVIOUS
    <3>2. list \in Seq(E)  BY <3>1
    <3>3. list[k] \in E  BY ONLY <2>1, <3>2, ElementOfSeq
    <3> QED  BY <3>1, <3>3
  <2>5. item \in ItemRows /\ BodyFits(item)  BY <1>10, <2>1, <2>2, <2>4
  <2>6. built = build_collection_item_request(item, v, order)  BY <1>10, <2>1, <2>2, <2>3
  <2>7. ValuesFit(v)  OBVIOUS
  <2>8. TellsOf(built, item, v)  BY ONLY <2>5, <2>6, <2>7, order \in {<<"a", "b">>, <<"b", "a">>}, BuiltFits
  <2> QED  BY <2>2, <2>3, <2>8 DEF TellsOf
<1>14. \A k \in DOMAIN sendRun.sent :
         /\ sendRun.sent[k].headers = "dropped" => sendRun.values["a"] = "quote"
         /\ sendRun.values["a"] = "none" => sendRun.sent[k].headers = sendRun.list[k].item.headers
         /\ sendRun.sent[k].type # "own" => sendRun.sent[k].body
         /\ sendRun.sent[k].body <=> sendRun.list[k].item.body \notin {"empty", "blank"}
  <2>1. sendRun.sent = sent /\ sendRun.values = v /\ sendRun.list = list  BY <1>7, <1>9
  <2> QED  BY <1>13, <2>1
<1> QED  BY <1>1, <1>2, <1>5, <1>6, <1>11, <1>12, <1>14 DEF CollectionsStayATree

\* CollectionsStayATree for any number of folders, items and edits: the checks inside each
\* transaction keep the folders a tree and the items in it, a move numbers both lists
\* without a gap, and a batch sends and records a prefix of what it loaded.
THEOREM CollectionsAlwaysATree == CollectionsSpec => []CollectionsStayATree
<1>1. CollectionsInit => CollectionsInv  BY CollectionsBegin
<1>2. CollectionsInv /\ [NextCollections]_collectionVars => CollectionsInv'  BY CollectionsGoOn
<1>3. CollectionsInv => CollectionsStayATree  BY CollectionsPromise
<1> QED  BY <1>1, <1>2, <1>3, PTL DEF CollectionsSpec

---------------------------------------------------------------------------
(* File export. *)

\* The texts a name is made of: those of the URLs and those the code puts in.
Texts == STRING \cup {"_", "a_b", "_con", "index", "a", "", "js", "json", "html", "txt", "bin"}
Names == [stem : Texts, ext : Texts, n : Nat]
ExportRecords ==
  [phase : {"idle", "read", "walk", "mkdir", "write", "text", "done"}, strategy : {"none", "latest_only", "keep_all", "text"},
   ids : Seq(STRING), plan : Seq(STRING), at : Nat, depth : Nat, saved : Nat, skipped : Nat, failed : Nat, truncated : Nat,
   target : Seq(Names)]

\* A path an export may write, and one whose directories are there.
SafePath(p) ==
  p \in Seq(Names) /\ Len(p) \in 1..MaxDepth /\ \A k \in 1..Len(p) : p[k].stem \notin {"..", "a/b", "con", "blank"}
InDirs(f, p, depth) == \A k \in 1..(depth - 1) : Kind(f, SubSeq(p, 1, k)) = "dir"

\* A plan has captures that can be exported; one of the latest has no path twice, and on
\* each the newest that was asked for.
PlanFits(x) ==
  /\ \A k \in 1..Len(x.plan) : Exportable(x.plan[k])
  /\ x.strategy = "latest_only" =>
       /\ \A j, k \in 1..Len(x.plan) : PathOf(x.plan[j]) = PathOf(x.plan[k]) => j = k
       /\ \A k \in 1..Len(x.plan) : \A n \in DOMAIN x.ids :
            Exportable(x.ids[n]) /\ PathOf(x.ids[n]) = PathOf(x.plan[k])
              => Captures[x.ids[n]].started <= Captures[x.plan[k]].started

\* What was counted and what is left of the plan make up what was asked for.
CountFits(x) ==
  /\ x.at \in 1..Len(x.plan) + 1
  /\ x.saved + x.skipped + x.failed + (Len(x.plan) + 1 - x.at) = Cardinality({x.ids[k] : k \in DOMAIN x.ids})

\* The directories an entry has walked are there.
WalkFits(x, f) ==
  x.phase \in {"walk", "mkdir", "write"} =>
    /\ x.at <= Len(x.plan) /\ x.depth \in 1..Len(PathOf(x.plan[x.at])) /\ InDirs(f, PathOf(x.plan[x.at]), x.depth)
    /\ x.phase = "mkdir" => x.depth < Len(PathOf(x.plan[x.at]))
    /\ x.phase = "write" => x.depth = Len(PathOf(x.plan[x.at]))

PhaseFits(x) ==
  /\ x.phase = "idle" => x = NoExport
  /\ x.phase = "text" => x.strategy = "text"
  /\ x.phase = "read" => x.depth = 1
  /\ x.phase \in {"read", "walk", "mkdir", "write"} => x.strategy \in {"latest_only", "keep_all"}
  /\ x.strategy = "text" => x.phase \in {"text", "done"} /\ SafePath(x.target) /\ Len(x.target) = 1
  /\ x.strategy \in {"latest_only", "keep_all"} =>
       PlanFits(x) /\ CountFits(x) /\ (x.phase = "done" => x.at = Len(x.plan) + 1)

ExportFits(x, f) == x \in ExportRecords /\ PhaseFits(x) /\ WalkFits(x, f)

\* What is not as it was found was written by an export, under a safe path.
FolderFits(f, g, X) ==
  /\ DOMAIN g \subseteq DOMAIN f
  /\ \A p \in DOMAIN f : f[p].kind \in {"dir", "link", "file"}
  /\ \A p \in DOMAIN g :
       f[p] = g[p] \/ (f[p].kind = "file" /\ g[p].kind = "file" /\ \E e \in Exporters : Overwrites(X[e], p))
  /\ \A p \in DOMAIN f : p \notin DOMAIN g \/ f[p] # g[p] =>
       SafePath(p) /\ (f[p].kind = "file" => InDirs(f, p, Len(p)))

\* A file saved was saved by an export that is past it.
SavedFits(w, f, X) ==
  /\ w.who \in Exporters /\ w.path \in DOMAIN f /\ X[w.who].phase # "idle"
  /\ X[w.who].strategy = "text" => X[w.who].phase = "done"
  /\ X[w.who].strategy = "latest_only" =>
       \E k \in 1..(X[w.who].at - 1) : X[w.who].plan[k] = w.by /\ PathOf(w.by) = w.path
  /\ f[w.path].by = w.by \/ \E e \in Exporters \ {w.who} : Overwrites(X[e], w.path)

FilesFit(f, g, X, W) ==
  /\ X = [e \in Exporters |-> X[e]] /\ \A e \in Exporters : ExportFits(X[e], f)
  /\ FolderFits(f, g, X)
  /\ \A w \in W : SavedFits(w, f, X)

\* A token that was answered and has not expired is in memory and in the file.
TokensFit(T, F, A, now) ==
  /\ now \in Nat /\ (\A t \in DOMAIN A : A[t] \in Nat) /\ DOMAIN T \subseteq DOMAIN A /\ DOMAIN F \subseteq DOMAIN A
  /\ \A t \in DOMAIN A : A[t] > now => t \in DOMAIN T /\ T[t] = A[t] /\ t \in DOMAIN F /\ F[t] = A[t]

ExportInv == FilesFit(folder, firstFolder, exports, written) /\ TokensFit(tokens, tokenFile, answered, ticks)

\* The smaller ones of a set.
Under(S, x) == {y \in S : y < x}

Ranks(S) == [x \in S |-> Cardinality(Under(S, x))]
RanksFit(r, S) ==
  /\ r \in [S -> Nat] /\ Cardinality(S) \in Nat /\ \A x, y \in S : r[x] = r[y] => x = y
  /\ (\A x \in S : r[x] < Cardinality(S)) /\ \A k \in Nat : k < Cardinality(S) => \E x \in S : r[x] = k

\* The ranks of a finite set of numbers.
LEMMA NumberRanks ==
  ASSUME NEW S, IsFiniteSet(S), S \in SUBSET Nat
  PROVE  RanksFit(Ranks(S), S)
<1>0. PICK r : r = Ranks(S)  OBVIOUS
<1>1. PICK R : R = {z \in S \X S : z[1] < z[2]}  OBVIOUS
<1>2. \A x, y \in S : <<x, y>> \in R <=> x < y  BY <1>1
<1>3. Orders(R, S)  BY <1>2 DEF Orders
<1>4. PICK q : q = [x \in S |-> Cardinality({y \in S : <<y, x>> \in R})]  OBVIOUS
<1>5. \A x \in S : {y \in S : <<y, x>> \in R} = Under(S, x)  BY <1>2 DEF Under, Ranks
<1>6. q = r  BY <1>0, <1>4, <1>5 DEF Ranks
<1>7. /\ q \in [S -> Nat] /\ Cardinality(S) \in Nat /\ \A x, y \in S : q[x] = q[y] => x = y
      /\ (\A x \in S : q[x] < Cardinality(S)) /\ \A k \in Nat : k < Cardinality(S) => \E x \in S : q[x] = k
  BY ONLY <1>3, <1>4, IsFiniteSet(S), RanksAreDense
<1> QED  BY <1>0, <1>6, <1>7 DEF RanksFit

\* A finite set of numbers that is not empty has a least one.
LEMMA LeastOf ==
  ASSUME NEW S, IsFiniteSet(S), S \subseteq Nat, S # {}
  PROVE  \E n \in S : \A m \in S : n <= m
<1>1. PICK r : r = Ranks(S)  OBVIOUS
<1>2. /\ r \in [S -> Nat] /\ Cardinality(S) \in Nat
      /\ (\A x \in S : r[x] < Cardinality(S)) /\ \A k \in Nat : k < Cardinality(S) => \E x \in S : r[x] = k
  <2>1. S \in SUBSET Nat  OBVIOUS
  <2>2. RanksFit(Ranks(S), S)  BY ONLY <2>1, IsFiniteSet(S), NumberRanks
  <2> QED  BY ONLY <1>1, <2>2 DEF RanksFit
<1>3. 0 < Cardinality(S)
  <2>1. PICK x \in S : TRUE  OBVIOUS
  <2>2. r[x] \in Nat /\ r[x] < Cardinality(S)  BY <1>2
  <2> QED  BY <1>2, <2>2
<1>4. PICK n \in S : r[n] = 0  BY <1>2, <1>3
<1>5. PICK B : B = Under(S, n)  OBVIOUS
<1>6. IsFiniteSet(B) /\ Cardinality(B) = 0  BY <1>1, <1>4, <1>5, FS_Subset DEF Under, Ranks
<1>7. B = {}  BY <1>6, FS_EmptySet
<1>8. \A m \in S : n <= m  BY <1>5, <1>7 DEF Under, Ranks
<1> QED  BY <1>8

\* The members of a list that were picked, by place.
PicksOut(g, list, S, place) ==
  /\ place \in [1..Len(g) -> S] /\ \A n \in 1..Len(g) : g[n] = list[place[n]]
  /\ (\A m, n \in 1..Len(g) : place[m] = place[n] => m = n) /\ \A k \in S : \E n \in 1..Len(g) : place[n] = k

\* What Picked picks.
LEMMA PickedIs ==
  ASSUME NEW list, NEW S, IsFiniteSet(S), S \subseteq Nat, NEW E, \A k \in S : list[k] \in E, NEW g, g = Picked(list, S)
  PROVE  g \in Seq(E) /\ Len(g) = Cardinality(S) /\ \E place : PicksOut(g, list, S, place)
<1>1. PICK r : r = Ranks(S)  OBVIOUS
<1>2. /\ r \in [S -> Nat] /\ Cardinality(S) \in Nat /\ \A x, y \in S : r[x] = r[y] => x = y
      /\ (\A x \in S : r[x] < Cardinality(S)) /\ \A k \in Nat : k < Cardinality(S) => \E x \in S : r[x] = k
  <2>1. S \in SUBSET Nat  OBVIOUS
  <2>2. RanksFit(Ranks(S), S)  BY ONLY <2>1, IsFiniteSet(S), NumberRanks
  <2> QED  BY ONLY <1>1, <2>2 DEF RanksFit
<1>3. PICK c : c = Cardinality(S)  OBVIOUS
<1>4. PICK place : place = [n \in 1..c |-> PlaceAt(S, n)]  OBVIOUS
<1>5. ASSUME NEW n \in 1..c PROVE place[n] \in S /\ r[place[n]] = n - 1
  <2>1. n - 1 \in Nat /\ n - 1 < c  BY <1>2, <1>3
  <2>2. PICK k \in S : r[k] = n - 1  BY <1>2, <1>3, <2>1
  <2>3. Cardinality({i \in S : i < k}) = n - 1  BY <1>1, <2>2 DEF Under, Ranks
  <2>4. PICK p : p = PlaceAt(S, n)  OBVIOUS
  <2>5. p \in S /\ Cardinality({i \in S : i < p}) = n - 1  BY <2>3, <2>4 DEF PlaceAt
  <2> QED  BY <1>1, <1>4, <2>4, <2>5 DEF Under, Ranks
<1>6. g = [n \in 1..c |-> list[place[n]]]  BY <1>3, <1>4 DEF Picked
<1>7. \A n \in 1..c : g[n] \in E  BY <1>5, <1>6
<1>8. c \in Nat  BY <1>2, <1>3
<1>9. g \in Seq(E) /\ Len(g) = c  BY ONLY <1>6, <1>7, <1>8
<1>10. \A m, n \in 1..c : place[m] = place[n] => m = n  BY <1>5, <1>8
<1>11. ASSUME NEW k \in S PROVE \E n \in 1..c : place[n] = k
  <2>1. r[k] \in Nat /\ r[k] < c  BY <1>2, <1>3
  <2>2. PICK n : n = r[k] + 1  OBVIOUS
  <2>3. n \in 1..c /\ n - 1 = r[k]  BY <1>8, <2>1, <2>2
  <2>4. place[n] \in S /\ r[place[n]] = r[k]  BY <1>5, <2>3
  <2> QED  BY <1>2, <2>3, <2>4
<1>12. place \in [1..c -> S]  BY <1>4, <1>5
<1>13. PicksOut(g, list, S, place)  BY <1>6, <1>9, <1>10, <1>11, <1>12 DEF PicksOut
<1> QED  BY <1>3, <1>9, <1>13

\* A finite sequence has finitely many places.
LEMMA PlacesAreFinite ==
  ASSUME NEW E, NEW list \in Seq(E), NEW S, S \subseteq DOMAIN list
  PROVE  /\ IsFiniteSet(S) /\ S \subseteq Nat /\ Cardinality(S) \in Nat /\ Cardinality(S) <= Len(list)
         /\ \A k \in S : list[k] \in E
<1>1. PICK n : n = Len(list)  OBVIOUS
<1>2. n \in Nat /\ DOMAIN list = 1..n  BY <1>1
<1>3. 1 \in Int /\ n \in Int  BY <1>2
<1>4. IsFiniteSet(1..n) /\ Cardinality(1..n) = n
  <2>1. IsFiniteSet(1..n) /\ Cardinality(1..n) = IF 1 > n THEN 0 ELSE n - 1 + 1  BY <1>3, FS_Interval
  <2> QED  BY <1>2, <2>1
<1>5. S \in SUBSET (1..n)  BY <1>2
<1>6. IsFiniteSet(S) /\ Cardinality(S) <= n  BY <1>4, <1>5, FS_Subset
<1> QED  BY <1>1, <1>2, <1>5, <1>6, FS_CardinalityType

\* The ids of a selection, each once.
LEMMA DistinctIs ==
  ASSUME NEW ids \in Seq(STRING), NEW d, d = Distinct(ids)
  PROVE  /\ d \in Seq(STRING) /\ Len(d) = Cardinality({ids[k] : k \in DOMAIN ids})
         /\ \A m, n \in 1..Len(d) : d[m] = d[n] => m = n
         /\ \A k \in DOMAIN ids : \E n \in 1..Len(d) : d[n] = ids[k]
<1>1. PICK S : S = {k \in DOMAIN ids : \A j \in 1..(k - 1) : ids[j] # ids[k]}  OBVIOUS
<1>2. d = Picked(ids, S)  BY <1>1 DEF Distinct
<1>3. DOMAIN ids = 1..Len(ids) /\ Len(ids) \in Nat  OBVIOUS
<1>4. S \subseteq DOMAIN ids  BY <1>1
<1>5. IsFiniteSet(S) /\ S \subseteq Nat /\ Cardinality(S) \in Nat /\ \A k \in S : ids[k] \in STRING
  BY ONLY <1>4, ids \in Seq(STRING), PlacesAreFinite
<1>6. d \in Seq(STRING) /\ Len(d) = Cardinality(S) /\ \E place : PicksOut(d, ids, S, place)  BY ONLY <1>2, <1>5, PickedIs
<1>7. PICK place : PicksOut(d, ids, S, place)  BY <1>6
<1>8. ASSUME NEW j \in S, NEW k \in S, ids[j] = ids[k] PROVE j = k
  <2>1. j \in Nat /\ k \in Nat /\ j \in DOMAIN ids /\ k \in DOMAIN ids  BY <1>4, <1>5
  <2>2. ~(j < k)
    <3>1. SUFFICES ASSUME j < k PROVE FALSE  OBVIOUS
    <3>2. j \in 1..(k - 1)  BY <1>3, <2>1, <3>1
    <3> QED  BY <1>1, <1>8, <3>2
  <2>3. ~(k < j)
    <3>1. SUFFICES ASSUME k < j PROVE FALSE  OBVIOUS
    <3>2. k \in 1..(j - 1)  BY <1>3, <2>1, <3>1
    <3> QED  BY <1>1, <1>8, <3>2
  <2> QED  BY <2>1, <2>2, <2>3
<1>9. ASSUME NEW k \in DOMAIN ids PROVE \E j \in S : ids[j] = ids[k]
  <2>1. PICK B : B = {j \in DOMAIN ids : ids[j] = ids[k]}  OBVIOUS
  <2>2. B \subseteq DOMAIN ids /\ B # {}  BY <2>1
  <2>3. IsFiniteSet(B) /\ B \subseteq Nat  BY ONLY <2>2, ids \in Seq(STRING), PlacesAreFinite
  <2>4. PICK j \in B : \A m \in B : j <= m  BY <2>2, <2>3, LeastOf
  <2>5. ASSUME NEW i \in 1..(j - 1) PROVE ids[i] # ids[j]
    <3>1. j \in DOMAIN ids /\ ids[j] = ids[k]  BY <2>1, <2>4
    <3>2. i \in DOMAIN ids /\ ~(j <= i)  BY <1>3, <3>1
    <3> QED  BY <2>1, <2>4, <3>1, <3>2
  <2> QED  BY <1>1, <2>1, <2>4, <2>5
<1>10. PICK I : I = {ids[k] : k \in DOMAIN ids}  OBVIOUS
<1>11. Cardinality(I) = Cardinality(S)
  <2>1. PICK h : h = [k \in S |-> ids[k]]  OBVIOUS
  <2>2. h \in [S -> I] /\ \A v \in I : \E k \in S : h[k] = v  BY <1>4, <1>9, <1>10, <2>1
  <2>3. IsInjective(h)  BY <1>8, <2>1 DEF IsInjective
  <2>4. h \in Bijection(S, I)  BY <2>2, <2>3 DEF Bijection, Injection, Surjection
  <2>5. \E b : b \in Bijection(S, I)  BY <2>4
  <2> QED  BY <1>5, <2>5, FS_Bijection DEF ExistsBijection
<1>12. \A m, n \in 1..Len(d) : d[m] = d[n] => m = n  BY <1>7, <1>8 DEF PicksOut
<1>13. ASSUME NEW k \in DOMAIN ids PROVE \E n \in 1..Len(d) : d[n] = ids[k]
  <2>1. PICK j \in S : ids[j] = ids[k]  BY <1>9
  <2>2. PICK n \in 1..Len(d) : place[n] = j  BY <1>7 DEF PicksOut
  <2> QED  BY <1>7, <2>1, <2>2 DEF PicksOut
<1> QED  BY <1>6, <1>10, <1>11, <1>12, <1>13

\* The captures of a selection that can be exported, each once.
LEMMA PlannedIs ==
  ASSUME NEW ids \in Seq(STRING), NEW list, list = Planned(ids)
  PROVE  /\ list \in Seq(STRING) /\ Len(list) <= Cardinality({ids[k] : k \in DOMAIN ids})
         /\ Cardinality({ids[k] : k \in DOMAIN ids}) = Len(Distinct(ids)) /\ Len(Distinct(ids)) \in Nat
         /\ \A n \in 1..Len(list) : Exportable(list[n])
         /\ \A m, n \in 1..Len(list) : list[m] = list[n] => m = n
         /\ \A k \in DOMAIN ids : Exportable(ids[k]) => \E n \in 1..Len(list) : list[n] = ids[k]
<1>1. PICK d : d = Distinct(ids)  OBVIOUS
<1>2. PICK c : c = Cardinality({ids[k] : k \in DOMAIN ids})  OBVIOUS
<1>3. /\ d \in Seq(STRING) /\ Len(d) = c
      /\ \A m, n \in 1..Len(d) : d[m] = d[n] => m = n
      /\ \A k \in DOMAIN ids : \E n \in 1..Len(d) : d[n] = ids[k]
  BY ONLY <1>1, <1>2, ids \in Seq(STRING), DistinctIs
<1>4. PICK S : S = {k \in DOMAIN d : Exportable(d[k])}  OBVIOUS
<1>5. list = Picked(d, S)  BY <1>1, <1>4 DEF Planned
<1>6. S \subseteq DOMAIN d  BY <1>4
<1>7. /\ IsFiniteSet(S) /\ S \subseteq Nat /\ Cardinality(S) \in Nat /\ Cardinality(S) <= Len(d)
      /\ \A k \in S : d[k] \in STRING
  BY ONLY <1>3, <1>6, PlacesAreFinite
<1>8. list \in Seq(STRING) /\ Len(list) = Cardinality(S) /\ \E place : PicksOut(list, d, S, place)  BY ONLY <1>5, <1>7, PickedIs
<1>9. PICK place : PicksOut(list, d, S, place)  BY <1>8
<1>10. \A n \in 1..Len(list) : place[n] \in S /\ list[n] = d[place[n]]  BY <1>9 DEF PicksOut
<1>11. DOMAIN d = 1..Len(d)  BY <1>3
<1>12. \A n \in 1..Len(list) : Exportable(list[n])  BY <1>4, <1>10
<1>13. ASSUME NEW m \in 1..Len(list), NEW n \in 1..Len(list), list[m] = list[n] PROVE m = n
  <2>1. place[m] = place[n]  BY <1>3, <1>6, <1>10, <1>11, <1>13
  <2> QED  BY <1>9, <2>1 DEF PicksOut
<1>14. ASSUME NEW k \in DOMAIN ids, Exportable(ids[k]) PROVE \E n \in 1..Len(list) : list[n] = ids[k]
  <2>1. PICK j \in 1..Len(d) : d[j] = ids[k]  BY <1>3
  <2>2. j \in S  BY <1>4, <1>11, <1>14, <2>1
  <2>3. PICK n \in 1..Len(list) : place[n] = j  BY <1>9, <2>2 DEF PicksOut
  <2> QED  BY <1>10, <2>1, <2>3
<1>15. c = Len(d) /\ Len(d) \in Nat /\ Len(list) <= c  BY <1>3, <1>7, <1>8
<1> QED  BY <1>1, <1>2, <1>8, <1>12, <1>13, <1>14, <1>15

\* The plan of an export: what it says of each path, and how many it leaves out.
LEMMA PlanMade ==
  ASSUME NEW ids \in Seq(STRING), NEW strategy \in {"latest_only", "keep_all"},
         NEW made, made = build_response_file_plan(ids, strategy), NEW plan, plan = made.plan
  PROVE  /\ plan \in Seq(STRING) /\ made.skipped \in Nat
         /\ made.skipped + Len(plan) = Cardinality({ids[k] : k \in DOMAIN ids})
         /\ \A k \in 1..Len(plan) : Exportable(plan[k])
         /\ strategy = "latest_only" =>
              /\ \A j, k \in 1..Len(plan) : PathOf(plan[j]) = PathOf(plan[k]) => j = k
              /\ \A k \in 1..Len(plan) : \A n \in DOMAIN ids :
                   Exportable(ids[n]) /\ PathOf(ids[n]) = PathOf(plan[k]) => Captures[ids[n]].started <= Captures[plan[k]].started
<1>1. PICK list : list = Planned(ids)  OBVIOUS
<1>2. PICK c : c = Cardinality({ids[k] : k \in DOMAIN ids})  OBVIOUS
<1>3. /\ list \in Seq(STRING) /\ Len(list) <= c /\ c = Len(Distinct(ids)) /\ Len(Distinct(ids)) \in Nat
      /\ \A n \in 1..Len(list) : Exportable(list[n])
      /\ \A m, n \in 1..Len(list) : list[m] = list[n] => m = n
      /\ \A k \in DOMAIN ids : Exportable(ids[k]) => \E n \in 1..Len(list) : list[n] = ids[k]
  BY ONLY <1>1, <1>2, ids \in Seq(STRING), PlannedIs
<1>4. PICK S : S = {k \in DOMAIN list : strategy = "keep_all" \/ Latest(list, k)}  OBVIOUS
<1>5. plan = Picked(list, S) /\ made.skipped = Len(Distinct(ids)) - Len(plan)  BY <1>1, <1>4 DEF build_response_file_plan
<1>6. S \subseteq DOMAIN list  BY <1>4
<1>7. /\ IsFiniteSet(S) /\ S \subseteq Nat /\ Cardinality(S) \in Nat /\ Cardinality(S) <= Len(list)
      /\ \A k \in S : list[k] \in STRING
  BY ONLY <1>3, <1>6, PlacesAreFinite
<1>8. plan \in Seq(STRING) /\ Len(plan) = Cardinality(S) /\ \E place : PicksOut(plan, list, S, place)
  BY ONLY <1>5, <1>7, PickedIs
<1>9. PICK place : PicksOut(plan, list, S, place)  BY <1>8
<1>10. \A n \in 1..Len(plan) : place[n] \in S /\ plan[n] = list[place[n]]  BY <1>9 DEF PicksOut
<1>11. DOMAIN list = 1..Len(list) /\ Len(list) \in Nat /\ Len(plan) \in Nat  BY <1>3, <1>8
<1>12. made.skipped \in Nat /\ made.skipped + Len(plan) = c  BY <1>3, <1>5, <1>7, <1>8, <1>11
<1>13. \A k \in 1..Len(plan) : Exportable(plan[k])  BY <1>3, <1>6, <1>10, <1>11
<1>14. \A k \in S : k \in 1..Len(list)  BY <1>6, <1>11
<1>15. \A n \in 1..Len(list) : Captures[list[n]].started \in Nat  BY <1>3, ExportAssumption DEF Exportable, Known
<1>16. ASSUME strategy = "latest_only", NEW k \in S, NEW n \in 1..Len(list), PathOf(list[n]) = PathOf(list[k])
       PROVE  /\ n \in S => n = k
              /\ Captures[list[n]].started <= Captures[list[k]].started
  <2>1. Latest(list, k)  BY <1>4, <1>16
  <2>2. PICK a, b : a = Captures[list[n]].started /\ b = Captures[list[k]].started  OBVIOUS
  <2>3. a \in Nat /\ b \in Nat /\ n \in Nat /\ k \in Nat  BY <1>14, <1>15, <2>2
  <2>4. n # k => a < b \/ (a = b /\ n < k)  BY <1>11, <1>16, <2>1, <2>2 DEF Latest
  <2>5. ASSUME n \in S, n # k PROVE FALSE
    <3>1. Latest(list, n)  BY <1>4, <1>16, <2>5
    <3>2. b < a \/ (b = a /\ k < n)  BY <1>11, <1>14, <1>16, <2>2, <2>5, <3>1 DEF Latest
    <3> QED  BY <2>3, <2>4, <2>5, <3>2
  <2>6. a <= b  BY <2>2, <2>3, <2>4
  <2> QED  BY <2>2, <2>5, <2>6
<1>17. ASSUME strategy = "latest_only", NEW j \in 1..Len(plan), NEW k \in 1..Len(plan), PathOf(plan[j]) = PathOf(plan[k])
       PROVE  j = k
  <2>1. place[j] \in S /\ place[k] \in S /\ PathOf(list[place[j]]) = PathOf(list[place[k]])  BY <1>10, <1>17
  <2>2. place[j] = place[k]  BY <1>14, <1>16, <1>17, <2>1
  <2> QED  BY <1>9, <2>2 DEF PicksOut
<1>18. ASSUME strategy = "latest_only", NEW k \in 1..Len(plan), NEW n \in DOMAIN ids, Exportable(ids[n]), PathOf(ids[n]) = PathOf(plan[k])
       PROVE  Captures[ids[n]].started <= Captures[plan[k]].started
  <2>1. PICK m \in 1..Len(list) : list[m] = ids[n]  BY <1>3, <1>18
  <2>2. place[k] \in S /\ PathOf(list[m]) = PathOf(list[place[k]])  BY <1>10, <1>18, <2>1
  <2>3. Captures[list[m]].started <= Captures[list[place[k]]].started  BY <1>16, <1>18, <2>2
  <2> QED  BY <1>10, <2>1, <2>3
<1> QED  BY <1>2, <1>8, <1>12, <1>13, <1>17, <1>18

\* A name from a URL is safe.
LEMMA SanitizedIs ==
  ASSUME NEW seg \in [stem : STRING, ext : STRING], NEW s, s = sanitize_path_segment(seg)
  PROVE  s \in Names /\ s.stem \notin {"..", "a/b", "con", "blank"}
<1>1. PICK u \in STRING, v \in STRING : seg = [stem |-> u, ext |-> v]  OBVIOUS
<1>2. PICK t : t = s.stem  OBVIOUS
<1>3. PICK x : x = s.ext  OBVIOUS
<1>4. s = [stem |-> t, ext |-> x, n |-> 0]  BY <1>2, <1>3 DEF sanitize_path_segment
<1>5. t = CASE u \in {"..", "blank"} -> "_" [] u = "a/b" -> "a_b" [] u = "con" -> "_con" [] OTHER -> u
  BY <1>1, <1>2 DEF sanitize_path_segment
<1>6. x \in Texts  BY <1>1, <1>3 DEF sanitize_path_segment, Texts
<1>7. t \in Texts /\ t \notin {"..", "a/b", "con", "blank"}
  <2>1. CASE u \in {"..", "blank"}
    <3>1. t = "_"  BY <1>5, <2>1
    <3> QED  BY <3>1 DEF Texts
  <2>2. CASE u = "a/b"
    <3>1. t = "a_b"  BY <1>5, <2>2
    <3> QED  BY <3>1 DEF Texts
  <2>3. CASE u = "con"
    <3>1. t = "_con"  BY <1>5, <2>3
    <3> QED  BY <3>1 DEF Texts
  <2>4. CASE u \notin {"..", "blank", "a/b", "con"}
    <3>1. t = u  BY <1>5, <2>4
    <3> QED  BY <2>4, <3>1 DEF Texts
  <2> QED  BY <2>1, <2>2, <2>3, <2>4
<1> QED  BY <1>2, <1>4, <1>6, <1>7 DEF Names

\* The path of a capture is safe and no deeper than the limit.
LEMMA PathIs ==
  ASSUME NEW c, Exportable(c)
  PROVE  SafePath(PathOf(c))
<1>1. PICK url, mime : url = Captures[c].url /\ mime = Captures[c].mime  OBVIOUS
<1>2. c \in DOMAIN Captures  BY DEF Exportable, Known
<1>3. PICK segs : segs = url.segs  OBVIOUS
<1>4. PICK E : E = [stem : STRING, ext : STRING]  OBVIOUS
<1>5. segs \in Seq(E)  BY <1>1, <1>2, <1>3, <1>4, ExportAssumption
<1>6. PICK dirs : dirs = IF url.slash \/ segs = << >> THEN segs ELSE SubSeq(segs, 1, Len(segs) - 1)  OBVIOUS
<1>7. Len(dirs) \in Nat /\ \A k \in 1..Len(dirs) : dirs[k] \in E
  <2>1. CASE url.slash \/ segs = << >>  BY <1>5, <1>6, <2>1
  <2>2. CASE ~(url.slash \/ segs = << >>)
    <3>1. Len(segs) \in Nat /\ Len(segs) # 0  BY <1>5, <2>2, EmptySeq
    <3>2. dirs = SubSeq(segs, 1, Len(segs) - 1)  BY <1>6, <2>2
    <3>3. dirs \in Seq(E)  BY <1>5, <3>1, <3>2, SubSeqProperties
    <3> QED  BY <3>3
  <2> QED  BY <2>1, <2>2
<1>8. PICK deep : deep = IF Len(dirs) < MaxDepth THEN Len(dirs) ELSE MaxDepth - 1  OBVIOUS
<1>9. deep \in Nat /\ deep <= Len(dirs) /\ deep < MaxDepth /\ MaxDepth \in Nat  BY <1>7, <1>8, ExportAssumption
<1>10. PICK stem : stem = IF url.slash \/ segs = << >> THEN [stem |-> "index", ext |-> "", n |-> 0]
                          ELSE sanitize_path_segment(segs[Len(segs)])
  OBVIOUS
<1>11. stem \in Names /\ stem.stem \notin {"..", "a/b", "con", "blank"}
  <2>1. CASE url.slash \/ segs = << >>
    <3>1. stem = [stem |-> "index", ext |-> "", n |-> 0]  BY <1>10, <2>1
    <3> QED  BY <3>1 DEF Names, Texts
  <2>2. CASE ~(url.slash \/ segs = << >>)
    <3>1. Len(segs) \in 1..Len(segs)  BY <1>5, <2>2, EmptySeq
    <3>2. PICK seg : seg = segs[Len(segs)]  OBVIOUS
    <3>3. seg \in E  BY <1>5, <3>1, <3>2
    <3>4. stem = sanitize_path_segment(seg)  BY <1>10, <2>2, <3>2
    <3> QED  BY ONLY <1>4, <3>3, <3>4, SanitizedIs
  <2> QED  BY <2>1, <2>2
<1>12. PICK name : name = ensure_file_extension(stem, mime)  OBVIOUS
<1>13. name \in Names /\ name.stem = stem.stem
  <2>1. guess_response_extension(mime) \in Texts  BY DEF guess_response_extension, Texts
  <2>2. PICK g \in Texts : g = guess_response_extension(mime)  BY <2>1
  <2>3. name = IF stem.ext # "" THEN stem ELSE [stem EXCEPT !.ext = g]  BY <1>12, <2>2 DEF ensure_file_extension
  <2> QED  BY <1>11, <2>3 DEF Names
<1>14. PICK front : front = [k \in 1..deep |-> sanitize_path_segment(dirs[k])]  OBVIOUS
<1>15. ASSUME NEW k \in 1..deep PROVE front[k] \in Names /\ front[k].stem \notin {"..", "a/b", "con", "blank"}
  <2>1. PICK seg : seg = dirs[k]  OBVIOUS
  <2>2. seg \in E  BY <1>7, <1>9, <2>1
  <2>3. PICK s : s = sanitize_path_segment(seg)  OBVIOUS
  <2>4. s \in Names /\ s.stem \notin {"..", "a/b", "con", "blank"}  BY ONLY <1>4, <2>2, <2>3, SanitizedIs
  <2> QED  BY <1>14, <2>1, <2>3, <2>4
<1>16. front \in Seq(Names) /\ Len(front) = deep  BY <1>9, <1>14, <1>15
<1>17. PICK p : p = front \o <<name>>  OBVIOUS
<1>18. /\ p \in Seq(Names) /\ Len(p) = deep + 1 /\ p[deep + 1] = name
       /\ \A k \in 1..deep : p[k] = front[k]
  BY <1>9, <1>13, <1>16, <1>17
<1>19. \A k \in 1..Len(p) : k \in 1..deep \/ k = deep + 1  BY <1>9, <1>18
<1>20. PathOf(c) = p  BY <1>1, <1>3, <1>6, <1>8, <1>10, <1>12, <1>14, <1>17 DEF PathOf, derive_response_relative_path
<1>21. \A k \in 1..Len(p) : p[k].stem \notin {"..", "a/b", "con", "blank"}  BY <1>11, <1>13, <1>15, <1>18, <1>19
<1>22. Len(p) \in 1..MaxDepth  BY <1>9, <1>18
<1> QED  BY <1>18, <1>20, <1>21, <1>22 DEF SafePath

\* What a step of an export keeps of it: one that is over takes none, and only the first makes a plan.
ExportMoves(x, y) ==
  /\ x.phase # "done" /\ y.phase # "idle" /\ y.at >= x.at
  /\ x.phase # "idle" => y.strategy = x.strategy /\ y.ids = x.ids /\ y.plan = x.plan /\ y.target = x.target

\* An export that has stored nothing at a path.
NotStored(x, p) ==
  \/ x.strategy = "text"
  \/ x.strategy = "latest_only" /\ \A k \in 1..(x.at - 1) : PathOf(x.plan[k]) # p

\* What a step of an export may do to the folder: nothing, or a new entry, or a file in the
\* place of one it overwrites.
Stores(f, h, x, y, p, v) ==
  /\ h = With(f, p, v) /\ v.kind \in {"dir", "file"} /\ SafePath(p) /\ (v.kind = "file" => InDirs(f, p, Len(p)))
  /\ \/ Kind(f, p) = "none"
     \/ Kind(f, p) = "file" /\ v.kind = "file" /\ Overwrites(y, p) /\ NotStored(x, p)
FolderMoves(f, h, x, y) == h = f \/ \E p, v : Stores(f, h, x, y, p, v)

\* No step turns a directory into something else.
LEMMA DirsStay ==
  ASSUME NEW f, NEW h, NEW x, NEW y, FolderMoves(f, h, x, y), NEW q, Kind(f, q) = "dir"
  PROVE  Kind(h, q) = "dir"
<1>1. CASE h = f  BY <1>1
<1>2. CASE \E p, v : Stores(f, h, x, y, p, v)
  <2>1. PICK p, v : Stores(f, h, x, y, p, v)  BY <1>2
  <2>2. h = With(f, p, v) /\ Kind(f, p) \in {"none", "file"}  BY <2>1 DEF Stores
  <2>3. q # p  BY <2>2
  <2>4. Kind(h, q) = Kind(f, q)  BY <2>2, <2>3 DEF With, Kind
  <2> QED  BY <2>4
<1> QED  BY <1>1, <1>2 DEF FolderMoves

\* So the directories an export has walked are there after the step of another.
LEMMA WalksStay ==
  ASSUME NEW f, NEW h, \A q : Kind(f, q) = "dir" => Kind(h, q) = "dir", NEW x, ExportFits(x, f)
  PROVE  ExportFits(x, h)
<1>1. ASSUME NEW p, NEW n, InDirs(f, p, n) PROVE InDirs(h, p, n)  BY <1>1 DEF InDirs
<1>2. WalkFits(x, h)  BY <1>1 DEF WalkFits, ExportFits
<1> QED  BY <1>2 DEF ExportFits

\* An export goes on overwriting what it overwrote.
LEMMA OverwritesStay ==
  ASSUME NEW x, NEW y, ExportMoves(x, y), x.phase = "idle" => x = NoExport, NEW p, Overwrites(x, p)
  PROVE  Overwrites(y, p)
<1>1. x # NoExport  BY DEF Overwrites, NoExport
<1> QED  BY <1>1 DEF Overwrites, ExportMoves

\* The folder after the step of an export.
LEMMA FolderStays ==
  ASSUME NEW f, NEW g, NEW X, NEW h, NEW Y, NEW e \in Exporters, FolderFits(f, g, X),
         FolderMoves(f, h, X[e], Y[e]), \A q : Kind(f, q) = "dir" => Kind(h, q) = "dir",
         \A d \in Exporters : \A p : Overwrites(X[d], p) => Overwrites(Y[d], p)
  PROVE  FolderFits(h, g, Y)
<1>1. ASSUME NEW p, NEW n, InDirs(f, p, n) PROVE InDirs(h, p, n)  BY <1>1 DEF InDirs
<1>2. CASE h = f  BY <1>2 DEF FolderFits
<1>3. CASE \E p, v : Stores(f, h, X[e], Y[e], p, v)
  <2>1. PICK p, v : Stores(f, h, X[e], Y[e], p, v)  BY <1>3
  <2>2. /\ h = With(f, p, v) /\ v.kind \in {"dir", "file"} /\ SafePath(p) /\ (v.kind = "file" => InDirs(f, p, Len(p)))
        /\ Kind(f, p) = "none" \/ (Kind(f, p) = "file" /\ v.kind = "file" /\ Overwrites(Y[e], p))
    BY <2>1 DEF Stores
  <2>3. DOMAIN h = DOMAIN f \cup {p} /\ h[p] = v /\ \A q \in DOMAIN f : q # p => h[q] = f[q]  BY <2>2 DEF With
  <2>4. p \in DOMAIN f => f[p].kind = "file" /\ v.kind = "file" /\ Overwrites(Y[e], p)  BY <2>2 DEF Kind, FolderFits
  <2>5. DOMAIN g \subseteq DOMAIN h  BY <2>3 DEF FolderFits
  <2>6. \A q \in DOMAIN h : h[q].kind \in {"dir", "link", "file"}  BY <2>2, <2>3 DEF FolderFits
  <2>7. ASSUME NEW q \in DOMAIN g
        PROVE  h[q] = g[q] \/ (h[q].kind = "file" /\ g[q].kind = "file" /\ \E d \in Exporters : Overwrites(Y[d], q))
    <3>1. q \in DOMAIN f /\ (f[q] = g[q] \/ (f[q].kind = "file" /\ g[q].kind = "file" /\ \E d \in Exporters : Overwrites(X[d], q)))
      BY DEF FolderFits
    <3>2. CASE q = p
      <4>1. f[q].kind = "file" /\ h[q].kind = "file" /\ Overwrites(Y[e], q)  BY <2>3, <2>4, <3>1, <3>2
      <4>2. g[q].kind = "file"  BY <3>1, <4>1
      <4> QED  BY <4>1, <4>2
    <3>3. CASE q # p
      <4>1. h[q] = f[q]  BY <2>3, <3>1, <3>3
      <4> QED  BY <3>1, <4>1
    <3> QED  BY <3>2, <3>3
  <2>8. ASSUME NEW q \in DOMAIN h, q \notin DOMAIN g \/ h[q] # g[q]
        PROVE  SafePath(q) /\ (h[q].kind = "file" => InDirs(h, q, Len(q)))
    <3>1. CASE q = p  BY <1>1, <2>2, <2>3, <3>1
    <3>2. CASE q # p
      <4>1. q \in DOMAIN f /\ h[q] = f[q]  BY <2>3, <3>2
      <4>2. SafePath(q) /\ (f[q].kind = "file" => InDirs(f, q, Len(q)))  BY <2>8, <4>1 DEF FolderFits
      <4> QED  BY <1>1, <4>1, <4>2
    <3> QED  BY <3>1, <3>2
  <2> QED  BY <2>5, <2>6, <2>7, <2>8 DEF FolderFits
<1> QED  BY <1>2, <1>3 DEF FolderMoves

\* A file saved by an export, after the step of one.
LEMMA SavedStays ==
  ASSUME NEW f, NEW X, NEW h, NEW Y, NEW e \in Exporters, NEW w, SavedFits(w, f, X),
         FolderMoves(f, h, X[e], Y[e]), ExportMoves(X[e], Y[e]), ExportFits(X[e], f), Y[e].at \in Nat,
         \A q \in DOMAIN f : f[q].kind \in {"dir", "link", "file"},
         \A d \in Exporters : d # e => Y[d] = X[d],
         \A d \in Exporters : \A p : Overwrites(X[d], p) => Overwrites(Y[d], p)
  PROVE  SavedFits(w, h, Y)
<1>1. PICK d : d = w.who  OBVIOUS
<1>2. d \in Exporters /\ w.path \in DOMAIN f /\ X[d].phase # "idle"  BY <1>1 DEF SavedFits
<1>3. d = e => X[e].strategy # "text"  BY <1>1 DEF SavedFits, ExportMoves
<1>4. Y[d].phase # "idle" /\ (Y[d].strategy = "text" => Y[d].phase = "done")  BY <1>1, <1>2, <1>3 DEF SavedFits, ExportMoves
<1>5. Y[d].strategy = "latest_only" => \E k \in 1..(Y[d].at - 1) : Y[d].plan[k] = w.by /\ PathOf(w.by) = w.path
  <2>1. CASE d # e  BY <1>1, <1>2, <2>1 DEF SavedFits
  <2>2. CASE d = e
    <3>1. Y[e].strategy = X[e].strategy /\ Y[e].plan = X[e].plan /\ Y[e].at >= X[e].at  BY <1>2, <2>2 DEF ExportMoves
    <3>2. SUFFICES ASSUME X[e].strategy = "latest_only"
                   PROVE  \E k \in 1..(Y[e].at - 1) : X[e].plan[k] = w.by /\ PathOf(w.by) = w.path
      BY <2>2, <3>1
    <3>3. PICK k \in 1..(X[e].at - 1) : X[e].plan[k] = w.by /\ PathOf(w.by) = w.path  BY <1>1, <2>2, <3>2 DEF SavedFits
    <3>4. PICK a : a = X[e].at  OBVIOUS
    <3>5. PICK b : b = Y[e].at  OBVIOUS
    <3>6. k \in 1..(b - 1)
      <4>1. a \in Nat /\ b \in Nat /\ b >= a  BY <3>1, <3>4, <3>5 DEF ExportFits, ExportRecords
      <4> QED  BY <3>3, <3>4, <4>1
    <3> QED  BY <3>3, <3>5, <3>6
  <2> QED  BY <2>1, <2>2
<1>6. w.path \in DOMAIN h /\ (h[w.path].by = w.by \/ \E c \in Exporters \ {d} : Overwrites(Y[c], w.path))
  <2>1. f[w.path].by = w.by \/ \E c \in Exporters \ {d} : Overwrites(Y[c], w.path)  BY <1>1 DEF SavedFits
  <2>2. CASE h = f  BY <1>2, <2>1, <2>2
  <2>3. CASE \E p, v : Stores(f, h, X[e], Y[e], p, v)
    <3>1. PICK p, v : Stores(f, h, X[e], Y[e], p, v)  BY <2>3
    <3>2. h = With(f, p, v)  BY <3>1 DEF Stores
    <3>3. DOMAIN h = DOMAIN f \cup {p} /\ h[p] = v /\ \A q \in DOMAIN f : q # p => h[q] = f[q]  BY <3>2 DEF With
    <3>4. CASE w.path # p  BY <1>2, <2>1, <3>3, <3>4
    <3>5. CASE w.path = p
      <4>1. Kind(f, p) # "none"  BY <1>2, <3>5 DEF Kind
      <4>2. Overwrites(Y[e], p) /\ NotStored(X[e], p)  BY <3>1, <4>1 DEF Stores
      <4>3. d # e
        <5>1. SUFFICES ASSUME d = e PROVE FALSE  OBVIOUS
        <5>2. X[e].strategy = "latest_only" /\ \A k \in 1..(X[e].at - 1) : PathOf(X[e].plan[k]) # p
          BY <1>3, <4>2, <5>1 DEF NotStored
        <5>3. \E k \in 1..(X[e].at - 1) : X[e].plan[k] = w.by /\ PathOf(w.by) = w.path  BY <1>1, <5>1, <5>2 DEF SavedFits
        <5> QED  BY <3>5, <5>2, <5>3
      <4> QED  BY <1>2, <3>3, <3>5, <4>2, <4>3
    <3> QED  BY <3>4, <3>5
  <2> QED  BY <2>2, <2>3 DEF FolderMoves
<1> QED  BY <1>1, <1>2, <1>4, <1>5, <1>6 DEF SavedFits

\* What a step of an export leaves: only what it does to itself and to the folder is to be shown.
LEMMA FilesStay ==
  ASSUME NEW f, NEW g, NEW X, NEW W, FilesFit(f, g, X, W), NEW e \in Exporters, NEW y, NEW h, NEW Y, NEW V,
         Y = [X EXCEPT ![e] = y], ExportMoves(X[e], y), ExportFits(y, h), FolderMoves(f, h, X[e], y),
         \A w \in V : w \in W \/ SavedFits(w, h, Y)
  PROVE  FilesFit(h, g, Y, V)
<1>1. /\ X = [d \in Exporters |-> X[d]] /\ (\A d \in Exporters : ExportFits(X[d], f))
      /\ FolderFits(f, g, X) /\ \A w \in W : SavedFits(w, f, X)
  BY DEF FilesFit
<1>2. Y = [d \in Exporters |-> Y[d]] /\ Y[e] = y /\ \A d \in Exporters : d # e => Y[d] = X[d]  BY <1>1
<1>3. ASSUME NEW q, Kind(f, q) = "dir" PROVE Kind(h, q) = "dir"  BY <1>3, DirsStay
<1>4. ASSUME NEW d \in Exporters PROVE ExportFits(Y[d], h)
  <2>1. CASE d = e  BY <1>2, <2>1
  <2>2. CASE d # e
    <3>1. PICK x : x = X[d]  OBVIOUS
    <3>2. ExportFits(x, f)  BY <1>1, <3>1
    <3>3. ExportFits(x, h)  BY <1>3, <3>2, WalksStay
    <3> QED  BY <1>2, <2>2, <3>1, <3>3
  <2> QED  BY <2>1, <2>2
<1>5. ASSUME NEW d \in Exporters, NEW p, Overwrites(X[d], p) PROVE Overwrites(Y[d], p)
  <2>1. CASE d = e
    <3>1. PICK x : x = X[d]  OBVIOUS
    <3>2. ExportMoves(x, y) /\ (x.phase = "idle" => x = NoExport) /\ Overwrites(x, p)
      BY <1>1, <1>5, <2>1, <3>1 DEF ExportFits, PhaseFits
    <3>3. Overwrites(y, p)  BY <3>2, OverwritesStay
    <3> QED  BY <1>2, <2>1, <3>3
  <2>2. CASE d # e  BY <1>2, <1>5, <2>2
  <2> QED  BY <2>1, <2>2
<1>6. FolderMoves(f, h, X[e], Y[e]) /\ ExportMoves(X[e], Y[e]) /\ ExportFits(X[e], f)  BY <1>1, <1>2
<1>7. FolderFits(h, g, Y)  BY <1>1, <1>3, <1>5, <1>6, FolderStays
<1>8. (\A q \in DOMAIN f : f[q].kind \in {"dir", "link", "file"}) /\ Y[e].at \in Nat
  BY <1>1, <1>4 DEF FolderFits, ExportFits, ExportRecords
<1>9. ASSUME NEW w \in V PROVE SavedFits(w, h, Y)
  <2>1. CASE w \in W
    <3>1. SavedFits(w, f, X)  BY <1>1, <2>1
    <3>2. \A d \in Exporters : d # e => Y[d] = X[d]  BY <1>2
    <3>3. \A d \in Exporters : \A p : Overwrites(X[d], p) => Overwrites(Y[d], p)  BY <1>5
    <3>4. e \in Exporters  OBVIOUS
    <3> QED  BY ONLY <1>6, <1>8, <3>1, <3>2, <3>3, <3>4, SavedStays
  <2> QED  BY <2>1
<1> QED  BY <1>2, <1>4, <1>7, <1>9 DEF FilesFit

\* A record of an export, field by field.
LEMMA RecordIs ==
  ASSUME NEW x \in ExportRecords
  PROVE  /\ x.phase \in {"idle", "read", "walk", "mkdir", "write", "text", "done"}
         /\ x.strategy \in {"none", "latest_only", "keep_all", "text"} /\ x.ids \in Seq(STRING) /\ x.plan \in Seq(STRING)
         /\ {x.at, x.depth, x.saved, x.skipped, x.failed, x.truncated} \subseteq Nat /\ x.target \in Seq(Names)
         /\ x = [phase |-> x.phase, strategy |-> x.strategy, ids |-> x.ids, plan |-> x.plan, at |-> x.at, depth |-> x.depth,
                 saved |-> x.saved, skipped |-> x.skipped, failed |-> x.failed, truncated |-> x.truncated, target |-> x.target]
<1>1. PICK N : N = Seq(Names)  OBVIOUS
<1>2. PICK S : S = Seq(STRING)  OBVIOUS
<1> QED  BY <1>1, <1>2 DEF ExportRecords

\* The count of a record: what it has done and what is left.
Counted(x) == x.saved + x.skipped + x.failed

\* What an entry that is done with leaves, whatever came of it.
LEMMA EntryDone ==
  ASSUME NEW x \in ExportRecords, NEW clipped \in BOOLEAN, NEW y, y \in {Skip(x), Fail(x), Save(x, clipped)}
  PROVE  /\ y \in ExportRecords /\ y.phase = "read" /\ y.at = x.at + 1 /\ y.depth = 1 /\ Counted(y) = Counted(x) + 1
         /\ y.strategy = x.strategy /\ y.ids = x.ids /\ y.plan = x.plan /\ y.target = x.target
<1>0. /\ x.at \in Nat /\ x.depth \in Nat /\ x.saved \in Nat /\ x.skipped \in Nat /\ x.failed \in Nat /\ x.truncated \in Nat
      /\ x = [phase |-> x.phase, strategy |-> x.strategy, ids |-> x.ids, plan |-> x.plan, at |-> x.at, depth |-> x.depth,
              saved |-> x.saved, skipped |-> x.skipped, failed |-> x.failed, truncated |-> x.truncated, target |-> x.target]
  BY RecordIs
<1>1. PICK saved \in Nat, skipped \in Nat, failed \in Nat, truncated \in Nat :
        /\ y = [x EXCEPT !.phase = "read", !.at = x.at + 1, !.depth = 1, !.saved = saved, !.skipped = skipped,
                         !.failed = failed, !.truncated = truncated]
        /\ saved + skipped + failed = x.saved + x.skipped + x.failed + 1
  <2>1. CASE y = Skip(x)
    <3>1. y = [x EXCEPT !.phase = "read", !.at = x.at + 1, !.depth = 1, !.saved = x.saved, !.skipped = x.skipped + 1,
                         !.failed = x.failed, !.truncated = x.truncated]
      BY <1>0, <2>1 DEF Skip, NextEntry
    <3>2. x.skipped + 1 \in Nat /\ x.saved + (x.skipped + 1) + x.failed = x.saved + x.skipped + x.failed + 1  BY <1>0
    <3> QED  BY <1>0, <3>1, <3>2
  <2>2. CASE y = Fail(x)
    <3>1. y = [x EXCEPT !.phase = "read", !.at = x.at + 1, !.depth = 1, !.saved = x.saved, !.skipped = x.skipped,
                         !.failed = x.failed + 1, !.truncated = x.truncated]
      BY <1>0, <2>2 DEF Fail, NextEntry
    <3>2. x.failed + 1 \in Nat /\ x.saved + x.skipped + (x.failed + 1) = x.saved + x.skipped + x.failed + 1  BY <1>0
    <3> QED  BY <1>0, <3>1, <3>2
  <2>3. CASE y = Save(x, clipped)
    <3>0. PICK t \in Nat : t = IF clipped THEN x.truncated + 1 ELSE x.truncated  BY <1>0
    <3>1. y = [x EXCEPT !.phase = "read", !.at = x.at + 1, !.depth = 1, !.saved = x.saved + 1, !.skipped = x.skipped,
                         !.failed = x.failed, !.truncated = t]
      BY <1>0, <2>3, <3>0 DEF Save, NextEntry
    <3>2. x.saved + 1 \in Nat /\ (x.saved + 1) + x.skipped + x.failed = x.saved + x.skipped + x.failed + 1  BY <1>0
    <3> QED  BY <1>0, <3>0, <3>1, <3>2
  <2> QED  BY <2>1, <2>2, <2>3
<1>2. PICK a : a = x.at + 1  OBVIOUS
<1>3. a \in Nat /\ 1 \in Nat /\ "read" \in {"idle", "read", "walk", "mkdir", "write", "text", "done"}  BY <1>0, <1>2
<1>4. y = [x EXCEPT !.phase = "read", !.at = a, !.depth = 1, !.saved = saved, !.skipped = skipped,
                         !.failed = failed, !.truncated = truncated]
  BY <1>1, <1>2
<1>5. /\ y \in ExportRecords
      /\ y.phase = "read" /\ y.at = a /\ y.depth = 1 /\ y.saved = saved /\ y.skipped = skipped /\ y.failed = failed
      /\ y.strategy = x.strategy /\ y.ids = x.ids /\ y.plan = x.plan /\ y.target = x.target
  <2>1. saved \in Nat /\ skipped \in Nat /\ failed \in Nat /\ truncated \in Nat  BY <1>1
  <2>2. x \in ExportRecords  OBVIOUS
  <2>3. PICK N : N = Seq(Names)  OBVIOUS
  <2>4. PICK S : S = Seq(STRING)  OBVIOUS
  <2> QED  BY <1>3, <1>4, <2>1, <2>2, <2>3, <2>4 DEF ExportRecords
<1> QED  BY <1>1, <1>2, <1>5 DEF Counted

\* The plan of an export stays what it is while the counts are right.
LEMMA StaysPlanned ==
  ASSUME NEW x, NEW y, PlanFits(x), y.strategy = x.strategy, y.ids = x.ids, y.plan = x.plan
  PROVE  PlanFits(y)
BY DEF PlanFits

\* An entry that is done with leaves an export that fits.
LEMMA EntryFits ==
  ASSUME NEW x, NEW f, NEW h, ExportFits(x, f), x.phase \in {"read", "walk", "mkdir", "write"}, x.at <= Len(x.plan),
         NEW clipped \in BOOLEAN, NEW y, y \in {Skip(x), Fail(x), Save(x, clipped)}
  PROVE  /\ ExportFits(y, h) /\ ExportMoves(x, y) /\ y.phase = "read" /\ y.at = x.at + 1
         /\ y.strategy = x.strategy /\ y.plan = x.plan /\ y.target = x.target
<1>1. x \in ExportRecords /\ PhaseFits(x)  BY DEF ExportFits
<1>2. /\ y \in ExportRecords /\ y.phase = "read" /\ y.at = x.at + 1 /\ y.depth = 1 /\ Counted(y) = Counted(x) + 1
      /\ y.strategy = x.strategy /\ y.ids = x.ids /\ y.plan = x.plan /\ y.target = x.target
  BY <1>1, EntryDone
<1>3. x.strategy \in {"latest_only", "keep_all"} /\ PlanFits(x) /\ CountFits(x)  BY <1>1 DEF PhaseFits
<1>4. PlanFits(y)  BY <1>2, <1>3, StaysPlanned
<1>5. CountFits(y)
  <2>1. PICK n : n = Len(x.plan)  OBVIOUS
  <2>2. PICK a : a = x.at  OBVIOUS
  <2>3. PICK c : c = Cardinality({x.ids[k] : k \in DOMAIN x.ids})  OBVIOUS
  <2>4. n \in Nat /\ a \in Nat /\ x.saved \in Nat /\ x.skipped \in Nat /\ x.failed \in Nat  BY <1>1, <2>1, <2>2, RecordIs
  <2>5. PICK s \in Nat : s = Counted(x)  BY <2>4 DEF Counted
  <2>6. a \in 1..(n + 1) /\ s + (n + 1 - a) = c  BY <1>3, <2>1, <2>2, <2>3, <2>5 DEF CountFits, Counted
  <2>7. Counted(y) + (n + 1 - (a + 1)) = c /\ a + 1 \in 1..(n + 1)
    <3>1. a <= n  BY <2>1, <2>2
    <3>2. Counted(y) = s + 1  BY <1>2, <2>5
    <3> QED  BY ONLY <2>4, <2>5, <2>6, <3>1, <3>2
  <2> QED  BY <1>2, <2>1, <2>2, <2>3, <2>7 DEF CountFits, Counted
<1>6. PhaseFits(y)  BY <1>2, <1>3, <1>4, <1>5 DEF PhaseFits
<1>7. WalkFits(y, h)  BY <1>2 DEF WalkFits
<1>8. ExportMoves(x, y)
  <2>1. x.at \in Nat  BY <1>1, RecordIs
  <2> QED  BY <1>2, <2>1 DEF ExportMoves
<1> QED  BY <1>2, <1>6, <1>7, <1>8 DEF ExportFits

\* An export goes on with its entry, in another phase or one directory deeper.
LEMMA WalkGoesOn ==
  ASSUME NEW x, NEW f, NEW h, ExportFits(x, f), x.phase \in {"read", "walk", "mkdir", "write"},
         NEW phase \in {"walk", "mkdir", "write"}, NEW depth \in Nat, NEW y, y = [x EXCEPT !.phase = phase, !.depth = depth],
         NEW p, p = PathOf(x.plan[x.at]), x.at <= Len(x.plan), depth \in 1..Len(p), InDirs(h, p, depth),
         phase = "mkdir" => depth < Len(p), phase = "write" => depth = Len(p)
  PROVE  ExportFits(y, h) /\ ExportMoves(x, y)
<1>1. x \in ExportRecords /\ PhaseFits(x)  BY DEF ExportFits
<1>2. /\ y \in ExportRecords /\ y.phase = phase /\ y.at = x.at /\ y.depth = depth /\ y.saved = x.saved /\ y.skipped = x.skipped
      /\ y.failed = x.failed /\ y.strategy = x.strategy /\ y.ids = x.ids /\ y.plan = x.plan /\ y.target = x.target
  <2>1. PICK N : N = Seq(Names)  OBVIOUS
  <2>2. PICK S : S = Seq(STRING)  OBVIOUS
  <2>3. phase \in {"idle", "read", "walk", "mkdir", "write", "text", "done"}  OBVIOUS
  <2> QED  BY <1>1, <2>1, <2>2, <2>3 DEF ExportRecords
<1>3. x.strategy \in {"latest_only", "keep_all"} /\ PlanFits(x) /\ CountFits(x)  BY <1>1 DEF PhaseFits
<1>4. PlanFits(y)  BY <1>2, <1>3, StaysPlanned
<1>5. CountFits(y)  BY <1>2, <1>3 DEF CountFits
<1>6. PhaseFits(y)  BY <1>2, <1>3, <1>4, <1>5 DEF PhaseFits
<1>7. WalkFits(y, h)  BY <1>2 DEF WalkFits
<1>8. ExportMoves(x, y)
  <2>1. x.at \in Nat  BY <1>1, RecordIs
  <2> QED  BY <1>2, <2>1 DEF ExportMoves
<1> QED  BY <1>2, <1>6, <1>7, <1>8 DEF ExportFits

\* A file action of an export, as FilesStay has it.
ExportSteps(e, h, y) ==
  /\ exports' = [exports EXCEPT ![e] = y] /\ folder' = h /\ firstFolder' = firstFolder
  /\ ExportMoves(exports[e], y) /\ ExportFits(y, h) /\ FolderMoves(folder, h, exports[e], y)
  /\ \A w \in written' : w \in written \/ SavedFits(w, h, exports')

\* So a step of one export leaves files and exports in order.
LEMMA StepFits ==
  ASSUME FilesFit(folder, firstFolder, exports, written), NEW e \in Exporters, NEW h, NEW y, ExportSteps(e, h, y)
  PROVE  FilesFit(folder, firstFolder, exports, written)'
<1>1. PICK f, g, X, W : f = folder /\ g = firstFolder /\ X = exports /\ W = written  OBVIOUS
<1>2. PICK Y, V : Y = exports' /\ V = written'  OBVIOUS
<1>3. FilesFit(f, g, X, W)  BY <1>1
<1>4. /\ Y = [X EXCEPT ![e] = y] /\ ExportMoves(X[e], y) /\ ExportFits(y, h) /\ FolderMoves(f, h, X[e], y)
      /\ \A w \in V : w \in W \/ SavedFits(w, h, Y)
  BY <1>1, <1>2 DEF ExportSteps
<1>5. FilesFit(h, g, Y, V)  BY <1>3, <1>4, FilesStay
<1> QED  BY <1>1, <1>2, <1>5 DEF ExportSteps

\* The entry an export is at has a safe path.
LEMMA EntryIs ==
  ASSUME NEW x, NEW f, ExportFits(x, f), x.phase \in {"read", "walk", "mkdir", "write"}, x.at <= Len(x.plan),
         NEW p, p = PathOf(x.plan[x.at])
  PROVE  SafePath(p) /\ Len(p) \in Nat /\ Len(p) >= 1 /\ Exportable(x.plan[x.at])
<1>1. x \in ExportRecords /\ PlanFits(x) /\ CountFits(x)  BY DEF ExportFits, PhaseFits
<1>2. PICK k : k = x.at  OBVIOUS
<1>3. PICK n \in Nat : n = Len(x.plan)  BY <1>1, RecordIs
<1>4. k \in 1..(n + 1) /\ k <= n  BY <1>1, <1>2, <1>3 DEF CountFits
<1>5. k \in 1..Len(x.plan)  BY <1>3, <1>4
<1>6. Exportable(x.plan[k])  BY <1>1, <1>5 DEF PlanFits
<1>7. SafePath(p)  BY <1>2, <1>6, PathIs
<1>8. p \in Seq(Names) /\ Len(p) \in 1..MaxDepth  BY <1>7 DEF SafePath
<1> QED  BY <1>2, <1>6, <1>7, <1>8

\* write_response_file: an entry is skipped, failed or taken on.
LEMMA ReadFits ==
  ASSUME FilesFit(folder, firstFolder, exports, written), NEW e \in Exporters, NEW ok \in BOOLEAN, write_response_file(e, ok)
  PROVE  FilesFit(folder, firstFolder, exports, written)'
<1>1. PICK x : x = exports[e]  OBVIOUS
<1>2. PICK f : f = folder  OBVIOUS
<1>3. ExportFits(x, f)  BY <1>1, <1>2 DEF FilesFit
<1>4. PICK y : y = IF Captures[Current(e)].body = "empty" THEN Skip(x)
                   ELSE IF ~ok THEN Fail(x) ELSE [x EXCEPT !.phase = "walk"]
  OBVIOUS
<1>5. /\ x.phase = "read" /\ x.at <= Len(x.plan) /\ exports' = [exports EXCEPT ![e] = y]
      /\ folder' = f /\ firstFolder' = firstFolder /\ written' = written
  BY <1>1, <1>2, <1>4 DEF write_response_file
<1>6. x \in ExportRecords /\ x.depth = 1  BY <1>3, <1>5 DEF ExportFits, PhaseFits
<1>7. ExportFits(y, f) /\ ExportMoves(x, y)
  <2>1. CASE y \in {Skip(x), Fail(x)}
    <3>1. x.phase \in {"read", "walk", "mkdir", "write"} /\ x.at <= Len(x.plan) /\ y \in {Skip(x), Fail(x), Save(x, TRUE)}
      BY <1>5, <2>1
    <3> QED  BY <1>3, <3>1, EntryFits
  <2>2. CASE y = [x EXCEPT !.phase = "walk"]
    <3>1. y = [x EXCEPT !.phase = "walk", !.depth = 1]
      <4>1. x = [phase |-> x.phase, strategy |-> x.strategy, ids |-> x.ids, plan |-> x.plan, at |-> x.at, depth |-> x.depth,
              saved |-> x.saved, skipped |-> x.skipped, failed |-> x.failed, truncated |-> x.truncated, target |-> x.target]
        BY <1>6, RecordIs
      <4> QED  BY <1>6, <2>2, <4>1
    <3>2. PICK p : p = PathOf(x.plan[x.at])  OBVIOUS
    <3>3. x.phase \in {"read", "walk", "mkdir", "write"}  BY <1>5
    <3>4. Len(p) \in Nat /\ Len(p) >= 1  BY <1>3, <1>5, <3>2, <3>3, EntryIs
    <3>5. 1 \in 1..Len(p) /\ InDirs(f, p, 1)  BY <3>4 DEF InDirs
    <3>6. PICK phase \in {"walk", "mkdir", "write"} : phase = "walk"  OBVIOUS
    <3>7. PICK d \in Nat : d = 1  OBVIOUS
    <3>8. /\ y = [x EXCEPT !.phase = phase, !.depth = d] /\ d \in 1..Len(p) /\ InDirs(f, p, d)
          /\ (phase = "mkdir" => d < Len(p)) /\ (phase = "write" => d = Len(p))
      BY <3>1, <3>5, <3>6, <3>7
    <3> QED  BY <1>3, <1>5, <3>2, <3>3, <3>6, <3>7, <3>8, WalkGoesOn
  <2> QED  BY <1>4, <2>1, <2>2
<1>8. ExportSteps(e, f, y)  BY <1>1, <1>2, <1>5, <1>7 DEF ExportSteps, FolderMoves
<1> QED  BY <1>8, StepFits

\* The directories down to one of an entry, and one more.
LEMMA DeeperIs ==
  ASSUME NEW h, NEW p, NEW d \in Nat, d >= 1, InDirs(h, p, d), Kind(h, SubSeq(p, 1, d)) = "dir"
  PROVE  InDirs(h, p, d + 1)
<1>1. ASSUME NEW k \in 1..((d + 1) - 1) PROVE Kind(h, SubSeq(p, 1, k)) = "dir"
  <2>1. k = d \/ k \in 1..(d - 1)  OBVIOUS
  <2> QED  BY <2>1 DEF InDirs
<1> QED  BY <1>1 DEF InDirs

\* create_export_directories: what was walked is a real directory.
LEMMA WalkStepFits ==
  ASSUME FilesFit(folder, firstFolder, exports, written), NEW e \in Exporters, create_export_directories(e)
  PROVE  FilesFit(folder, firstFolder, exports, written)'
<1>1. PICK x : x = exports[e]  OBVIOUS
<1>2. PICK f : f = folder  OBVIOUS
<1>3. ExportFits(x, f)  BY <1>1, <1>2 DEF FilesFit
<1>4. PICK p : p = PathOf(x.plan[x.at])  OBVIOUS
<1>5. p = EntryPath(e)  BY <1>1, <1>4 DEF EntryPath, Current
<1>6. PICK d : d = x.depth  OBVIOUS
<1>7. PICK here : here = SubSeq(p, 1, d)  OBVIOUS
<1>8. PICK y : y = IF d = Len(p) THEN [x EXCEPT !.phase = "write"]
                   ELSE CASE Kind(f, here) = "dir" -> [x EXCEPT !.depth = @ + 1]
                          [] Kind(f, here) = "none" -> [x EXCEPT !.phase = "mkdir"]
                          [] OTHER -> Fail(x)
  OBVIOUS
<1>9. /\ x.phase = "walk" /\ exports' = [exports EXCEPT ![e] = y]
      /\ folder' = f /\ firstFolder' = firstFolder /\ written' = written
  BY <1>1, <1>2, <1>5, <1>6, <1>7, <1>8 DEF create_export_directories
<1>10. x \in ExportRecords /\ x.at <= Len(x.plan) /\ d \in 1..Len(p) /\ InDirs(f, p, d)
  BY <1>3, <1>4, <1>6, <1>9 DEF ExportFits, WalkFits
<1>11. x = [phase |-> x.phase, strategy |-> x.strategy, ids |-> x.ids, plan |-> x.plan, at |-> x.at, depth |-> x.depth,
            saved |-> x.saved, skipped |-> x.skipped, failed |-> x.failed, truncated |-> x.truncated, target |-> x.target]
  BY <1>10, RecordIs
<1>12. x.phase \in {"read", "walk", "mkdir", "write"}  BY <1>9
<1>13. Len(p) \in Nat /\ Len(p) >= 1  BY <1>3, <1>4, <1>10, <1>12, EntryIs
<1>14. d \in Nat /\ d >= 1 /\ d <= Len(p) /\ d + 1 \in Nat  BY <1>10, <1>13
<1>15. ExportFits(y, f) /\ ExportMoves(x, y)
  <2>1. CASE d = Len(p)
    <3>1. y = [x EXCEPT !.phase = "write", !.depth = d]  BY <1>6, <1>8, <1>11, <2>1
    <3>2. PICK phase \in {"walk", "mkdir", "write"} : phase = "write"  OBVIOUS
    <3>3. /\ y = [x EXCEPT !.phase = phase, !.depth = d]
          /\ (phase = "mkdir" => d < Len(p)) /\ (phase = "write" => d = Len(p))
      BY <2>1, <3>1, <3>2
    <3> QED  BY <1>3, <1>4, <1>10, <1>12, <1>14, <3>2, <3>3, WalkGoesOn
  <2>2. CASE d # Len(p) /\ Kind(f, here) = "dir"
    <3>1. PICK c \in Nat : c = d + 1  BY <1>14
    <3>2. y = [x EXCEPT !.phase = "walk", !.depth = c]  BY <1>6, <1>8, <1>9, <1>11, <2>2, <3>1
    <3>3. PICK phase \in {"walk", "mkdir", "write"} : phase = "walk"  OBVIOUS
    <3>4. InDirs(f, p, d + 1)  BY <1>7, <1>10, <1>14, <2>2, DeeperIs
    <3>5. c \in 1..Len(p) /\ InDirs(f, p, c)  BY <1>13, <1>14, <2>2, <3>1, <3>4
    <3>6. /\ y = [x EXCEPT !.phase = phase, !.depth = c]
          /\ (phase = "mkdir" => c < Len(p)) /\ (phase = "write" => c = Len(p))
      BY <3>2, <3>3
    <3> QED  BY <1>3, <1>4, <1>10, <1>12, <3>1, <3>3, <3>5, <3>6, WalkGoesOn
  <2>3. CASE d # Len(p) /\ Kind(f, here) = "none"
    <3>1. y = [x EXCEPT !.phase = "mkdir", !.depth = d]  BY <1>6, <1>8, <1>11, <2>3
    <3>2. PICK phase \in {"walk", "mkdir", "write"} : phase = "mkdir"  OBVIOUS
    <3>3. /\ y = [x EXCEPT !.phase = phase, !.depth = d]
          /\ (phase = "mkdir" => d < Len(p)) /\ (phase = "write" => d = Len(p))
      BY <1>13, <1>14, <2>3, <3>1, <3>2
    <3> QED  BY <1>3, <1>4, <1>10, <1>12, <1>14, <3>2, <3>3, WalkGoesOn
  <2>4. CASE d # Len(p) /\ Kind(f, here) \notin {"dir", "none"}
    <3>1. y \in {Skip(x), Fail(x), Save(x, TRUE)}  BY <1>8, <2>4
    <3> QED  BY <1>3, <1>10, <1>12, <3>1, EntryFits
  <2> QED  BY <2>1, <2>2, <2>3, <2>4
<1>16. ExportSteps(e, f, y)  BY <1>1, <1>2, <1>9, <1>15 DEF ExportSteps, FolderMoves
<1> QED  BY <1>16, StepFits

\* A directory of a safe path is one.
LEMMA PrefixIsSafe ==
  ASSUME NEW p, SafePath(p), NEW d \in 1..Len(p)
  PROVE  SafePath(SubSeq(p, 1, d))
<1>1. PICK N : N = Names  OBVIOUS
<1>2. p \in Seq(N) /\ Len(p) \in 1..MaxDepth /\ Len(p) \in Nat  BY <1>1 DEF SafePath
<1>3. PICK q : q = SubSeq(p, 1, d)  OBVIOUS
<1>4. MaxDepth \in Nat  BY ExportAssumption
<1>5. q \in Seq(N) /\ Len(q) = d /\ \A k \in 1..d : q[k] = p[k]  BY <1>2, <1>3, SubSeqProperties
<1>6. Len(q) \in 1..MaxDepth  BY <1>2, <1>4, <1>5
<1>7. \A k \in 1..Len(q) : q[k].stem \notin {"..", "a/b", "con", "blank"}  BY <1>2, <1>5 DEF SafePath
<1> QED  BY <1>1, <1>3, <1>5, <1>6, <1>7 DEF SafePath

\* The path under another number is as safe, and in the same directories.
LEMMA NumberedIsSafe ==
  ASSUME NEW p, SafePath(p), NEW n \in Nat, NEW q, q = WithN(p, n)
  PROVE  SafePath(q) /\ Len(q) = Len(p) /\ \A f : InDirs(f, p, Len(p)) => InDirs(f, q, Len(q))
<1>1. PICK l : l = Len(p)  OBVIOUS
<1>2. p \in Seq(Names) /\ l \in 1..MaxDepth /\ l \in Nat /\ DOMAIN p = 1..l  BY <1>1 DEF SafePath
<1>3. l \in 1..l  BY <1>2
<1>4. p[l] \in Names
  <2>1. PICK N : N = Names  OBVIOUS
  <2>2. p \in Seq(N)  BY <1>2, <2>1
  <2> QED  BY <1>1, <1>3, <2>1, <2>2, ElementOfSeq
<1>5. PICK v : v = [p[l] EXCEPT !.n = n]  OBVIOUS
<1>6. v \in Names /\ v.stem = p[l].stem  BY <1>4, <1>5 DEF Names
<1>7. q = [p EXCEPT ![l] = v]  BY <1>1, <1>5 DEF WithN
<1>8. q \in Seq(Names) /\ Len(q) = l /\ q[l] = v /\ \A k \in 1..l : k # l => q[k] = p[k]
  <2>1. PICK N : N = Names  OBVIOUS
  <2>2. p \in Seq(N) /\ v \in N  BY <1>2, <1>6, <2>1
  <2>3. q \in Seq(N) /\ Len(q) = l /\ q[l] = v /\ \A k \in 1..l : k # l => q[k] = p[k]  BY <1>1, <1>2, <1>3, <1>7, <2>2, ExceptSeq
  <2> QED  BY <2>1, <2>3
<1>9. \A k \in 1..Len(q) : q[k].stem \notin {"..", "a/b", "con", "blank"}  BY <1>1, <1>3, <1>6, <1>8 DEF SafePath
<1>10. ASSUME NEW k \in 1..(l - 1) PROVE SubSeq(q, 1, k) = SubSeq(p, 1, k)
  <2>1. k \in Nat /\ k <= l - 1  BY <1>2
  <2>2. SubSeq(q, 1, k) = [i \in 1..k |-> q[i]] /\ SubSeq(p, 1, k) = [i \in 1..k |-> p[i]]
    <3>1. PICK N : N = Names  OBVIOUS
    <3>2. p \in Seq(N) /\ q \in Seq(N)  BY <1>2, <1>8, <3>1
    <3> QED  BY <1>1, <1>2, <1>8, <2>1, <3>2
  <2>3. \A i \in 1..k : q[i] = p[i]  BY <1>2, <1>8, <2>1
  <2> QED  BY <2>2, <2>3
<1>11. ASSUME NEW f, InDirs(f, p, l) PROVE InDirs(f, q, l)  BY <1>10, <1>11 DEF InDirs
<1> QED  BY <1>1, <1>2, <1>8, <1>9, <1>11 DEF SafePath

\* One directory made, or found made by another.
LEMMA CreateDirFits ==
  ASSUME FilesFit(folder, firstFolder, exports, written), NEW e \in Exporters, CreateDir(e)
  PROVE  FilesFit(folder, firstFolder, exports, written)'
<1>1. PICK x : x = exports[e]  OBVIOUS
<1>2. PICK f : f = folder  OBVIOUS
<1>3. ExportFits(x, f)  BY <1>1, <1>2 DEF FilesFit
<1>4. PICK p : p = PathOf(x.plan[x.at])  OBVIOUS
<1>5. p = EntryPath(e)  BY <1>1, <1>4 DEF EntryPath, Current
<1>6. PICK d : d = x.depth  OBVIOUS
<1>7. PICK here : here = SubSeq(p, 1, d)  OBVIOUS
<1>8. PICK v : v = [kind |-> "dir", by |-> "export"]  OBVIOUS
<1>9. PICK h : h = IF Kind(f, here) = "none" THEN With(f, here, v) ELSE f  OBVIOUS
<1>10. PICK y : y = IF Kind(f, here) \in {"none", "dir"} THEN [x EXCEPT !.depth = @ + 1, !.phase = "walk"] ELSE Fail(x)  OBVIOUS
<1>11. /\ x.phase = "mkdir" /\ exports' = [exports EXCEPT ![e] = y]
       /\ folder' = h /\ firstFolder' = firstFolder /\ written' = written
  BY <1>1, <1>2, <1>5, <1>6, <1>7, <1>8, <1>9, <1>10 DEF CreateDir, Put
<1>12. x \in ExportRecords /\ x.at <= Len(x.plan) /\ d \in 1..Len(p) /\ InDirs(f, p, d) /\ d < Len(p)
  BY <1>3, <1>4, <1>6, <1>11 DEF ExportFits, WalkFits
<1>13. x.phase \in {"read", "walk", "mkdir", "write"}  BY <1>11
<1>14. SafePath(p) /\ Len(p) \in Nat /\ Len(p) >= 1  BY <1>3, <1>4, <1>12, <1>13, EntryIs
<1>15. d \in Nat /\ d >= 1 /\ d + 1 \in Nat /\ d + 1 \in 1..Len(p)  BY <1>12, <1>14
<1>16. FolderMoves(f, h, x, y)
  <2>1. CASE Kind(f, here) = "none"
    <3>1. SafePath(here)  BY <1>7, <1>12, <1>14, PrefixIsSafe
    <3>2. h = With(f, here, v) /\ v.kind \in {"dir", "file"} /\ v.kind # "file"  BY <1>8, <1>9, <2>1
    <3>3. Stores(f, h, x, y, here, v)  BY <2>1, <3>1, <3>2 DEF Stores
    <3> QED  BY <3>3 DEF FolderMoves
  <2>2. CASE Kind(f, here) # "none"  BY <1>9, <2>2 DEF FolderMoves
  <2> QED  BY <2>1, <2>2
<1>17. ExportFits(y, h) /\ ExportMoves(x, y)
  <2>1. CASE Kind(f, here) \in {"none", "dir"}
    <3>1. Kind(h, here) = "dir"  BY <1>8, <1>9, <2>1 DEF With, Kind
    <3>2. InDirs(h, p, d)
      <4>1. ASSUME NEW k \in 1..(d - 1) PROVE Kind(h, SubSeq(p, 1, k)) = "dir"
        <5>1. Kind(f, SubSeq(p, 1, k)) = "dir"  BY <1>12 DEF InDirs
        <5> QED  BY <1>16, <5>1, DirsStay
      <4> QED  BY <4>1 DEF InDirs
    <3>3. InDirs(h, p, d + 1)  BY <1>7, <1>15, <3>1, <3>2, DeeperIs
    <3>4. PICK c \in Nat : c = d + 1  BY <1>15
    <3>5. PICK phase \in {"walk", "mkdir", "write"} : phase = "walk"  OBVIOUS
    <3>6. y = [x EXCEPT !.phase = phase, !.depth = c]
      <4>1. x = [phase |-> x.phase, strategy |-> x.strategy, ids |-> x.ids, plan |-> x.plan, at |-> x.at, depth |-> x.depth,
              saved |-> x.saved, skipped |-> x.skipped, failed |-> x.failed, truncated |-> x.truncated, target |-> x.target]
        BY <1>12, RecordIs
      <4> QED  BY <1>6, <1>10, <2>1, <3>4, <3>5, <4>1
    <3>7. /\ c \in 1..Len(p) /\ InDirs(h, p, c)
          /\ (phase = "mkdir" => c < Len(p)) /\ (phase = "write" => c = Len(p))
      BY <1>15, <3>3, <3>4, <3>5
    <3> QED  BY <1>3, <1>4, <1>12, <1>13, <3>4, <3>5, <3>6, <3>7, WalkGoesOn
  <2>2. CASE Kind(f, here) \notin {"none", "dir"}
    <3>1. y \in {Skip(x), Fail(x), Save(x, TRUE)}  BY <1>10, <2>2
    <3> QED  BY <1>3, <1>12, <1>13, <3>1, EntryFits
  <2> QED  BY <2>1, <2>2
<1>18. ExportSteps(e, h, y)  BY <1>1, <1>2, <1>11, <1>16, <1>17 DEF ExportSteps
<1> QED  BY <1>18, StepFits

\* A file stored by an export: under a new name, or under the very name by one that overwrites.
LEMMA StoredFits ==
  ASSUME FilesFit(folder, firstFolder, exports, written), NEW e \in Exporters, NEW ok \in BOOLEAN, NEW path,
         exports[e].phase = "write", FileStored(e, path, ok), firstFolder' = firstFolder,
         SafePath(path), InDirs(folder, path, Len(path)),
         exports[e].strategy = "latest_only" => path = EntryPath(e),
         Kind(folder, path) = "none" \/ (Kind(folder, path) = "file" /\ exports[e].strategy = "latest_only")
  PROVE  FilesFit(folder, firstFolder, exports, written)'
<1>1. PICK x : x = exports[e]  OBVIOUS
<1>2. PICK f : f = folder  OBVIOUS
<1>3. ExportFits(x, f)  BY <1>1, <1>2 DEF FilesFit
<1>4. PICK p : p = PathOf(x.plan[x.at])  OBVIOUS
<1>5. p = EntryPath(e)  BY <1>1, <1>4 DEF EntryPath, Current
<1>6. PICK c : c = x.plan[x.at]  OBVIOUS
<1>7. c = Current(e)  BY <1>1, <1>6 DEF Current
<1>8. PICK v : v = [kind |-> "file", by |-> IF ok THEN c ELSE "short"]  OBVIOUS
<1>9. PICK h : h = With(f, path, v)  OBVIOUS
<1>10. PICK clipped \in BOOLEAN : clipped = (Captures[c].body = "clipped")  OBVIOUS
<1>11. PICK y : y = IF ok THEN Save(x, clipped) ELSE Fail(x)  OBVIOUS
<1>12. PICK w : w = [path |-> path, by |-> c, who |-> e]  OBVIOUS
<1>13. /\ exports' = [exports EXCEPT ![e] = y] /\ folder' = h /\ firstFolder' = firstFolder
       /\ written' = IF ok THEN written \cup {w} ELSE written
  BY <1>1, <1>2, <1>7, <1>8, <1>9, <1>10, <1>11, <1>12 DEF FileStored, Put
<1>14. x.phase = "write" /\ x.phase \in {"read", "walk", "mkdir", "write"}  BY <1>1
<1>15. x \in ExportRecords /\ x.at <= Len(x.plan) /\ x.at \in Nat  BY <1>3, <1>14, RecordIs DEF ExportFits, WalkFits
<1>16. /\ ExportFits(y, h) /\ ExportMoves(x, y) /\ y.phase = "read" /\ y.at = x.at + 1
       /\ y.strategy = x.strategy /\ y.plan = x.plan
  <2>1. y \in {Skip(x), Fail(x), Save(x, clipped)}  BY <1>11
  <2> QED  BY <1>3, <1>14, <1>15, <2>1, EntryFits
<1>17. x.strategy \in {"latest_only", "keep_all"} /\ PlanFits(x) /\ CountFits(x)  BY <1>3, <1>14 DEF ExportFits, PhaseFits
<1>18. PICK n \in Nat : n = Len(x.plan)  BY <1>15, RecordIs
<1>19. x.at \in 1..n /\ DOMAIN x.plan = 1..n
  <2>1. x.at \in 1..(n + 1)  BY <1>17, <1>18 DEF CountFits
  <2>2. x.plan \in Seq(STRING)  BY <1>15, RecordIs
  <2> QED  BY <1>15, <1>18, <2>1, <2>2
<1>20. FolderMoves(f, h, x, y)
  <2>1. v.kind = "file" /\ SafePath(path) /\ InDirs(f, path, Len(path))  BY <1>2, <1>8
  <2>2. CASE Kind(f, path) = "none"
    <3>1. Stores(f, h, x, y, path, v)  BY <1>9, <2>1, <2>2 DEF Stores
    <3> QED  BY <3>1 DEF FolderMoves
  <2>3. CASE Kind(f, path) = "file" /\ x.strategy = "latest_only"
    <3>1. path = p  BY <1>1, <1>5, <2>3
    <3>2. Overwrites(y, path)  BY <1>4, <1>16, <1>19, <2>3, <3>1 DEF Overwrites
    <3>3. ASSUME NEW k \in 1..(x.at - 1) PROVE PathOf(x.plan[k]) # path
      <4>1. k \in 1..n /\ k # x.at  BY <1>15, <1>19
      <4> QED  BY <1>4, <1>17, <1>18, <1>19, <2>3, <3>1, <4>1 DEF PlanFits
    <3>4. NotStored(x, path)  BY <2>3, <3>3 DEF NotStored
    <3>5. Stores(f, h, x, y, path, v)  BY <1>9, <2>1, <2>3, <3>2, <3>4 DEF Stores
    <3> QED  BY <3>5 DEF FolderMoves
  <2> QED  BY <1>1, <1>2, <2>2, <2>3
<1>21. SUFFICES ASSUME ok PROVE SavedFits(w, h, exports')
  <2>1. \A z \in written' : z \in written \/ SavedFits(z, h, exports')
    <3>1. CASE ok
      <4>1. SavedFits(w, h, exports')  BY <1>21, <3>1
      <4> QED  BY <1>13, <3>1, <4>1
    <3>2. CASE ~ok  BY <1>13, <3>2
    <3> QED  BY <3>1, <3>2
  <2>2. ExportSteps(e, h, y)  BY <1>1, <1>2, <1>13, <1>16, <1>20, <2>1 DEF ExportSteps
  <2> QED  BY <2>2, StepFits
<1>22. exports'[e] = y  BY <1>13 DEF FilesFit
<1>23. path \in DOMAIN h /\ h[path].by = c  BY <1>8, <1>9, <1>21 DEF With
<1>24. y.strategy = "latest_only" => \E k \in 1..(y.at - 1) : y.plan[k] = c /\ PathOf(c) = path
  <2>1. SUFFICES ASSUME y.strategy = "latest_only" PROVE \E k \in 1..(y.at - 1) : y.plan[k] = c /\ PathOf(c) = path  OBVIOUS
  <2>2. PathOf(c) = path  BY <1>1, <1>4, <1>5, <1>6, <1>16, <2>1
  <2>3. x.at \in 1..(y.at - 1)  BY <1>15, <1>16, <1>19
  <2> QED  BY <1>6, <1>16, <2>2, <2>3
<1>25. w.who = e /\ w.path = path /\ w.by = c  BY <1>12
<1> QED  BY <1>16, <1>17, <1>22, <1>23, <1>24, <1>25 DEF SavedFits

\* A file refused: an entry that failed, and nothing else.
LEMMA RefusedFits ==
  ASSUME FilesFit(folder, firstFolder, exports, written), NEW e \in Exporters, exports[e].phase = "write",
         Refused(e), firstFolder' = firstFolder
  PROVE  FilesFit(folder, firstFolder, exports, written)'
<1>1. PICK x : x = exports[e]  OBVIOUS
<1>2. PICK f : f = folder  OBVIOUS
<1>3. ExportFits(x, f)  BY <1>1, <1>2 DEF FilesFit
<1>4. PICK y : y = Fail(x)  OBVIOUS
<1>5. exports' = [exports EXCEPT ![e] = y] /\ folder' = f /\ firstFolder' = firstFolder /\ written' = written
  BY <1>1, <1>2, <1>4 DEF Refused
<1>6. x.phase \in {"read", "walk", "mkdir", "write"} /\ x.at <= Len(x.plan)  BY <1>1, <1>3 DEF ExportFits, WalkFits
<1>7. y \in {Skip(x), Fail(x), Save(x, TRUE)}  BY <1>4
<1>8. ExportFits(y, f) /\ ExportMoves(x, y)  BY <1>3, <1>6, <1>7, EntryFits
<1>9. ExportSteps(e, f, y)  BY <1>1, <1>2, <1>5, <1>8 DEF ExportSteps, FolderMoves
<1> QED  BY <1>9, StepFits

\* write_export_file: in place of a file by a latest-only export, else under the first free name.
LEMMA WriteFits ==
  ASSUME FilesFit(folder, firstFolder, exports, written), NEW e \in Exporters, NEW ok \in BOOLEAN, write_export_file(e, ok)
  PROVE  FilesFit(folder, firstFolder, exports, written)'
<1>1. PICK x : x = exports[e]  OBVIOUS
<1>2. PICK f : f = folder  OBVIOUS
<1>3. ExportFits(x, f)  BY <1>1, <1>2 DEF FilesFit
<1>4. PICK p : p = PathOf(x.plan[x.at])  OBVIOUS
<1>5. p = EntryPath(e)  BY <1>1, <1>4 DEF EntryPath, Current
<1>6. x.phase = "write" /\ exports[e].phase = "write" /\ firstFolder' = firstFolder  BY <1>1 DEF write_export_file
<1>7. x.at <= Len(x.plan) /\ InDirs(f, p, Len(p)) /\ x.phase \in {"read", "walk", "mkdir", "write"}
  BY <1>3, <1>4, <1>6 DEF ExportFits, WalkFits
<1>8. SafePath(p)  BY <1>3, <1>4, <1>7, EntryIs
<1>9. CASE Refused(e)  BY <1>6, <1>9, RefusedFits
<1>10. CASE exports[e].strategy = "latest_only" /\ ~Refused(e)
  <2>1. Kind(f, p) \in {"none", "file"} /\ FileStored(e, p, ok)  BY <1>2, <1>5, <1>10 DEF write_export_file, overwrite_export_file
  <2>2. InDirs(folder, p, Len(p)) /\ (Kind(folder, p) = "none" \/ (Kind(folder, p) = "file" /\ exports[e].strategy = "latest_only"))
    BY <1>2, <1>7, <1>10, <2>1
  <2> QED  BY <1>5, <1>6, <1>8, <2>1, <2>2, StoredFits
<1>11. CASE exports[e].strategy # "latest_only" /\ ~Refused(e)
  <2>1. PICK free : free = {n \in 0..MaxSuffix : Kind(f, WithN(p, n)) = "none"}  OBVIOUS
  <2>2. free # {} /\ FileStored(e, WithN(p, FirstFree(free)), ok)
    BY <1>2, <1>5, <1>11, <2>1 DEF write_export_file, create_new_export_file
  <2>3. PICK n : n = FirstFree(free)  OBVIOUS
  <2>4. n \in free
    <3>1. IsFiniteSet(free) /\ free \subseteq Nat
      <4>1. MaxSuffix \in Int /\ 0 \in Int  BY ExportAssumption
      <4>2. IsFiniteSet(0..MaxSuffix)  BY <4>1, FS_Interval
      <4>3. free \subseteq 0..MaxSuffix  BY <2>1
      <4>4. IsFiniteSet(free)  BY <4>2, <4>3, FS_Subset
      <4> QED  BY <4>3, <4>4
    <3>2. \E a \in free : \A b \in free : a <= b  BY ONLY <2>2, <3>1, LeastOf
    <3> QED  BY <2>3, <3>2 DEF FirstFree
  <2>5. n \in Nat /\ Kind(f, WithN(p, n)) = "none"  BY <2>1, <2>4
  <2>6. PICK path : path = WithN(p, n)  OBVIOUS
  <2>7. SafePath(path) /\ InDirs(f, path, Len(path))  BY <1>7, <1>8, <2>5, <2>6, NumberedIsSafe
  <2>8. /\ FileStored(e, path, ok) /\ InDirs(folder, path, Len(path)) /\ Kind(folder, path) = "none"
        /\ (exports[e].strategy = "latest_only" => path = EntryPath(e))
    BY <1>2, <1>11, <2>2, <2>3, <2>5, <2>6, <2>7
  <2> QED  BY <1>6, <2>7, <2>8, StoredFits
<1> QED  BY <1>9, <1>10, <1>11

\* The answer of an export: every entry of its plan was taken.
LEMMA FinishedFits ==
  ASSUME FilesFit(folder, firstFolder, exports, written), NEW e \in Exporters, Finished(e)
  PROVE  FilesFit(folder, firstFolder, exports, written)'
<1>1. PICK x : x = exports[e]  OBVIOUS
<1>2. PICK f : f = folder  OBVIOUS
<1>3. ExportFits(x, f)  BY <1>1, <1>2 DEF FilesFit
<1>4. PICK y : y = [x EXCEPT !.phase = "done"]  OBVIOUS
<1>5. /\ x.phase = "read" /\ x.at > Len(x.plan) /\ exports' = [exports EXCEPT ![e] = y]
      /\ folder' = f /\ firstFolder' = firstFolder /\ written' = written
  BY <1>1, <1>2, <1>4 DEF Finished, FilesFit
<1>6. x \in ExportRecords /\ x.strategy \in {"latest_only", "keep_all"} /\ PlanFits(x) /\ CountFits(x)
  BY <1>3, <1>5 DEF ExportFits, PhaseFits
<1>7. /\ y \in ExportRecords /\ y.phase = "done" /\ y.at = x.at /\ y.saved = x.saved /\ y.skipped = x.skipped
      /\ y.failed = x.failed /\ y.strategy = x.strategy /\ y.ids = x.ids /\ y.plan = x.plan /\ y.target = x.target
  <2>1. PICK N : N = Seq(Names)  OBVIOUS
  <2>2. PICK S : S = Seq(STRING)  OBVIOUS
  <2> QED  BY <1>4, <1>6, <2>1, <2>2 DEF ExportRecords
<1>8. PlanFits(y)  BY <1>6, <1>7, StaysPlanned
<1>9. CountFits(y)  BY <1>6, <1>7 DEF CountFits
<1>10. PICK n \in Nat : n = Len(x.plan)  BY <1>6, RecordIs
<1>11. x.at \in Nat /\ x.at = n + 1
  <2>1. x.at \in 1..(n + 1)  BY <1>6, <1>10 DEF CountFits
  <2> QED  BY <1>5, <1>10, <2>1
<1>12. PhaseFits(y)  BY <1>6, <1>7, <1>8, <1>9, <1>10, <1>11 DEF PhaseFits
<1>13. WalkFits(y, f)  BY <1>7 DEF WalkFits
<1>14. ExportFits(y, f) /\ ExportMoves(x, y)  BY <1>5, <1>7, <1>11, <1>12, <1>13 DEF ExportFits, ExportMoves
<1>15. ExportSteps(e, f, y)  BY <1>1, <1>2, <1>5, <1>14 DEF ExportSteps, FolderMoves
<1> QED  BY <1>15, StepFits

\* The record a command begins with.
LEMMA NothingIs ==
  /\ NoExport \in ExportRecords /\ NoExport.phase = "idle" /\ NoExport.strategy = "none" /\ NoExport.at = 1 /\ NoExport.depth = 1
  /\ NoExport.saved = 0 /\ NoExport.skipped = 0 /\ NoExport.failed = 0
<1>1. PICK N : N = Seq(Names)  OBVIOUS
<1>2. PICK S : S = Seq(STRING)  OBVIOUS
<1>3. PICK z : z = << >>  OBVIOUS
<1>4. z \in N /\ z \in S  BY <1>1, <1>2, <1>3
<1>5. NoExport = [phase |-> "idle", strategy |-> "none", ids |-> z, plan |-> z, at |-> 1, depth |-> 1,
                  saved |-> 0, skipped |-> 0, failed |-> 0, truncated |-> 0, target |-> z]
  BY <1>3 DEF NoExport
<1>6. NoExport \in [phase : {"idle", "read", "walk", "mkdir", "write", "text", "done"}, strategy : {"none", "latest_only", "keep_all", "text"},
               ids : S, plan : S, at : Nat, depth : Nat, saved : Nat, skipped : Nat, failed : Nat, truncated : Nat, target : N]
  BY <1>4, <1>5
<1>7. NoExport \in ExportRecords  BY <1>1, <1>2, <1>6 DEF ExportRecords
<1> QED  BY <1>5, <1>7

\* A command begins with its plan: what is not in it was skipped.
LEMMA BeginFits ==
  ASSUME FilesFit(folder, firstFolder, exports, written), NEW e \in Exporters, NEW ids \in Selections,
         NEW strategy \in {"latest_only", "keep_all"}, save_response_files(e, ids, strategy)
  PROVE  FilesFit(folder, firstFolder, exports, written)'
<1>1. PICK x : x = exports[e]  OBVIOUS
<1>2. PICK f : f = folder  OBVIOUS
<1>3. PICK made : made = build_response_file_plan(ids, strategy)  OBVIOUS
<1>4. PICK plan : plan = made.plan  OBVIOUS
<1>5. PICK skipped : skipped = made.skipped  OBVIOUS
<1>6. PICK r : r = NoExport  OBVIOUS
<1>7. PICK y : y = [r EXCEPT !.phase = "read", !.strategy = strategy, !.ids = ids, !.plan = plan, !.skipped = skipped]  OBVIOUS
<1>8. /\ x.phase = "idle" /\ exports' = [exports EXCEPT ![e] = y]
      /\ folder' = f /\ firstFolder' = firstFolder /\ written' = written
  BY <1>1, <1>2, <1>3, <1>4, <1>5, <1>6, <1>7 DEF save_response_files
<1>9. ids \in Seq(STRING)  BY ExportAssumption
<1>10. /\ plan \in Seq(STRING) /\ skipped \in Nat
       /\ skipped + Len(plan) = Cardinality({ids[k] : k \in DOMAIN ids})
       /\ \A k \in 1..Len(plan) : Exportable(plan[k])
       /\ strategy = "latest_only" =>
            /\ \A j, k \in 1..Len(plan) : PathOf(plan[j]) = PathOf(plan[k]) => j = k
            /\ \A k \in 1..Len(plan) : \A n \in DOMAIN ids :
                 Exportable(ids[n]) /\ PathOf(ids[n]) = PathOf(plan[k]) => Captures[ids[n]].started <= Captures[plan[k]].started
  BY ONLY <1>3, <1>4, <1>5, <1>9, strategy \in {"latest_only", "keep_all"}, PlanMade
<1>11. /\ y \in ExportRecords /\ y.phase = "read" /\ y.at = 1 /\ y.depth = 1 /\ y.saved = 0 /\ y.skipped = skipped
       /\ y.failed = 0 /\ y.strategy = strategy /\ y.ids = ids /\ y.plan = plan
  <2>1. PICK N : N = Seq(Names)  OBVIOUS
  <2>2. PICK S : S = Seq(STRING)  OBVIOUS
  <2>3. plan \in S /\ ids \in S  BY <1>9, <1>10, <2>2
  <2>4. r \in ExportRecords /\ r.at = 1 /\ r.depth = 1 /\ r.saved = 0 /\ r.failed = 0  BY <1>6, NothingIs
  <2> QED  BY <1>7, <1>10, <2>1, <2>2, <2>3, <2>4 DEF ExportRecords
<1>12. y \in ExportRecords  BY <1>11
<1>13. PlanFits(y)  BY <1>10, <1>11 DEF PlanFits
<1>14. CountFits(y)
  <2>1. PICK n \in Nat : n = Len(plan)  BY <1>10
  <2>2. PICK c : c = Cardinality({ids[k] : k \in DOMAIN ids})  OBVIOUS
  <2>3. 1 \in 1..(n + 1) /\ 0 + skipped + 0 + (n + 1 - 1) = c  BY <1>10, <2>1, <2>2
  <2> QED  BY <1>11, <2>1, <2>2, <2>3 DEF CountFits
<1>15. PhaseFits(y)  BY <1>11, <1>13, <1>14 DEF PhaseFits
<1>16. WalkFits(y, f)  BY <1>11 DEF WalkFits
<1>17. ExportMoves(x, y)
  <2>1. x = NoExport  BY <1>1, <1>8 DEF FilesFit, ExportFits, PhaseFits
  <2> QED  BY <1>8, <1>11, <2>1 DEF ExportMoves, NoExport
<1>18. ExportFits(y, f)  BY <1>12, <1>15, <1>16 DEF ExportFits
<1>19. ExportSteps(e, f, y)  BY <1>1, <1>2, <1>8, <1>17, <1>18 DEF ExportSteps, FolderMoves
<1> QED  BY <1>19, StepFits

\* The name of a text, under any number, is safe and lies in no directory.
LEMMA TextNameIsSafe ==
  /\ SafePath(TextName) /\ Len(TextName) = 1
  /\ \A n \in Nat : SafePath(WithN(TextName, n)) /\ Len(WithN(TextName, n)) = 1
<1>1. PICK v : v = [stem |-> "a", ext |-> "js", n |-> 0]  OBVIOUS
<1>2. v \in Names /\ v.stem = "a"
  <2>1. "a" \in Texts /\ "js" \in Texts  BY DEF Texts
  <2> QED  BY <1>1, <2>1 DEF Names
<1>3. TextName = <<v>>  BY <1>1 DEF TextName
<1>4. PICK N : N = Names  OBVIOUS
<1>5. <<v>> \in Seq(N) /\ Len(<<v>>) = 1 /\ <<v>>[1] = v  BY <1>2, <1>4
<1>6. 1 \in 1..MaxDepth  BY ExportAssumption
<1>7. SafePath(TextName) /\ Len(TextName) = 1  BY <1>2, <1>3, <1>4, <1>5, <1>6 DEF SafePath
<1>8. ASSUME NEW n \in Nat PROVE SafePath(WithN(TextName, n)) /\ Len(WithN(TextName, n)) = 1
  <2>1. PICK p, q : p = TextName /\ q = WithN(p, n)  OBVIOUS
  <2>2. SafePath(q) /\ Len(q) = Len(p)  BY <1>7, <2>1, NumberedIsSafe
  <2> QED  BY <1>7, <2>1, <2>2
<1> QED  BY <1>7, <1>8

\* So the name that looks free is safe.
LEMMA TextTargetIsSafe == SafePath(next_available_export_path) /\ Len(next_available_export_path) = 1
<1>1. PICK free : free = {n \in 0..MaxSuffix : ~(Kind(folder, WithN(TextName, n)) \in {"file", "dir"})}  OBVIOUS
<1>2. next_available_export_path = IF free = {} THEN TextName ELSE WithN(TextName, FirstFree(free))
  BY <1>1 DEF next_available_export_path
<1>3. CASE free = {}  BY <1>2, <1>3, TextNameIsSafe
<1>4. CASE free # {}
  <2>1. IsFiniteSet(free) /\ free \subseteq Nat
    <3>1. MaxSuffix \in Int /\ 0 \in Int  BY ExportAssumption
    <3>2. IsFiniteSet(0..MaxSuffix)  BY <3>1, FS_Interval
    <3>3. free \subseteq 0..MaxSuffix  BY <1>1
    <3>4. IsFiniteSet(free)  BY <3>2, <3>3, FS_Subset
    <3> QED  BY <3>3, <3>4
  <2>2. \E a \in free : \A b \in free : a <= b  BY ONLY <1>4, <2>1, LeastOf
  <2>3. FirstFree(free) \in Nat  BY <2>1, <2>2 DEF FirstFree
  <2> QED  BY <1>2, <1>4, <2>3, TextNameIsSafe
<1> QED  BY <1>3, <1>4

\* save_text_file: a refused name ends the command, another has a target.
LEMMA TextBeginFits ==
  ASSUME FilesFit(folder, firstFolder, exports, written), NEW e \in Exporters, NEW name, save_text_file(e, name)
  PROVE  FilesFit(folder, firstFolder, exports, written)'
<1>1. PICK x : x = exports[e]  OBVIOUS
<1>2. PICK f : f = folder  OBVIOUS
<1>3. PICK t : t = next_available_export_path  OBVIOUS
<1>4. SafePath(t) /\ Len(t) = 1  BY <1>3, TextTargetIsSafe
<1>5. PICK y : y = IF ~validate_export_basename(name) THEN [NoExport EXCEPT !.phase = "done"]
                   ELSE [NoExport EXCEPT !.phase = "text", !.strategy = "text", !.target = t]
  OBVIOUS
<1>6. /\ x.phase = "idle" /\ exports' = [exports EXCEPT ![e] = y]
      /\ folder' = f /\ firstFolder' = firstFolder /\ written' = written
  BY <1>1, <1>2, <1>3, <1>5 DEF save_text_file
<1>7. x = NoExport  BY <1>1, <1>6 DEF FilesFit, ExportFits, PhaseFits
<1>8. PICK phase \in {"done", "text"}, strategy \in {"none", "text"}, target \in Seq(Names) :
        /\ y = [phase |-> phase, strategy |-> strategy, ids |-> << >>, plan |-> << >>, at |-> 1, depth |-> 1,
                saved |-> 0, skipped |-> 0, failed |-> 0, truncated |-> 0, target |-> target]
        /\ (strategy = "text" \/ phase = "text") => strategy = "text" /\ target = t
  <2>1. t \in Seq(Names) /\ << >> \in Seq(Names)  BY <1>4 DEF SafePath
  <2>2. CASE validate_export_basename(name)
    <3>1. y = [phase |-> "text", strategy |-> "text", ids |-> << >>, plan |-> << >>, at |-> 1, depth |-> 1,
               saved |-> 0, skipped |-> 0, failed |-> 0, truncated |-> 0, target |-> t]
      BY <1>5, <2>2 DEF NoExport
    <3> QED  BY <2>1, <3>1
  <2>3. CASE ~validate_export_basename(name)
    <3>1. y = [phase |-> "done", strategy |-> "none", ids |-> << >>, plan |-> << >>, at |-> 1, depth |-> 1,
               saved |-> 0, skipped |-> 0, failed |-> 0, truncated |-> 0, target |-> << >>]
      BY <1>5, <2>3 DEF NoExport
    <3> QED  BY <2>1, <3>1
  <2> QED  BY <2>2, <2>3
<1>9. y.phase = phase /\ y.strategy = strategy /\ y.target = target /\ y.at = 1  BY <1>8
<1>10. y \in ExportRecords
  <2>1. PICK N : N = Seq(Names)  OBVIOUS
  <2>2. PICK S : S = Seq(STRING)  OBVIOUS
  <2>3. << >> \in S /\ target \in N  BY <2>1, <2>2
  <2>4. y \in [phase : {"idle", "read", "walk", "mkdir", "write", "text", "done"}, strategy : {"none", "latest_only", "keep_all", "text"},
               ids : S, plan : S, at : Nat, depth : Nat, saved : Nat, skipped : Nat, failed : Nat, truncated : Nat, target : N]
    BY <1>8, <2>3
  <2> QED  BY <2>1, <2>2, <2>4 DEF ExportRecords
<1>11. PhaseFits(y)  BY <1>4, <1>8, <1>9 DEF PhaseFits
<1>12. WalkFits(y, f)  BY <1>9 DEF WalkFits
<1>13. ExportMoves(x, y)  BY <1>6, <1>7, <1>9 DEF ExportMoves, NoExport
<1>14. ExportFits(y, f)  BY <1>10, <1>11, <1>12 DEF ExportFits
<1>15. ExportSteps(e, f, y)  BY <1>1, <1>2, <1>6, <1>13, <1>14 DEF ExportSteps, FolderMoves
<1> QED  BY <1>15, StepFits

\* A text is written where it was to be, over nothing or over a file.
LEMMA TextFits ==
  ASSUME FilesFit(folder, firstFolder, exports, written), NEW e \in Exporters, overwrite_regular_file(e)
  PROVE  FilesFit(folder, firstFolder, exports, written)'
<1>1. PICK x : x = exports[e]  OBVIOUS
<1>2. PICK f : f = folder  OBVIOUS
<1>3. ExportFits(x, f)  BY <1>1, <1>2 DEF FilesFit
<1>4. PICK path : path = x.target  OBVIOUS
<1>5. PICK y : y = [x EXCEPT !.phase = "done"]  OBVIOUS
<1>6. PICK v : v = [kind |-> "file", by |-> "text"]  OBVIOUS
<1>7. PICK h : h = IF Kind(f, path) \in {"none", "file"} THEN With(f, path, v) ELSE f  OBVIOUS
<1>8. PICK w : w = [path |-> path, by |-> "text", who |-> e]  OBVIOUS
<1>9. /\ x.phase = "text" /\ exports' = [exports EXCEPT ![e] = y] /\ folder' = h /\ firstFolder' = firstFolder
      /\ written' = IF Kind(f, path) \in {"none", "file"} THEN written \cup {w} ELSE written
  BY <1>1, <1>2, <1>4, <1>5, <1>6, <1>7, <1>8 DEF overwrite_regular_file, Put, FilesFit
<1>10. x \in ExportRecords /\ x.strategy = "text" /\ SafePath(path) /\ Len(path) = 1
  BY <1>3, <1>4, <1>9 DEF ExportFits, PhaseFits
<1>11. /\ y \in ExportRecords /\ y.phase = "done" /\ y.at = x.at /\ y.strategy = "text" /\ y.ids = x.ids /\ y.plan = x.plan
       /\ y.target = path /\ y.strategy = x.strategy /\ y.target = x.target
  <2>1. PICK N : N = Seq(Names)  OBVIOUS
  <2>2. PICK S : S = Seq(STRING)  OBVIOUS
  <2> QED  BY <1>4, <1>5, <1>10, <2>1, <2>2 DEF ExportRecords
<1>12. ExportFits(y, h)
  <2>1. PhaseFits(y)  BY <1>10, <1>11 DEF PhaseFits
  <2>2. WalkFits(y, h)  BY <1>11 DEF WalkFits
  <2> QED  BY <1>11, <2>1, <2>2 DEF ExportFits
<1>13. ExportMoves(x, y)
  <2>1. x.at \in Nat  BY <1>10, RecordIs
  <2> QED  BY <1>9, <1>11, <2>1 DEF ExportMoves
<1>14. FolderMoves(f, h, x, y)
  <2>1. CASE Kind(f, path) \in {"none", "file"}
    <3>1. h = With(f, path, v) /\ v.kind = "file"  BY <1>6, <1>7, <2>1
    <3>2. InDirs(f, path, Len(path))
      <4>1. 1..(Len(path) - 1) = {}  BY <1>10
      <4> QED  BY <4>1 DEF InDirs
    <3>3. Overwrites(y, path) /\ NotStored(x, path)  BY <1>10, <1>11 DEF Overwrites, NotStored
    <3>4. Stores(f, h, x, y, path, v)  BY <1>10, <2>1, <3>1, <3>2, <3>3 DEF Stores
    <3> QED  BY <3>4 DEF FolderMoves
  <2>2. CASE Kind(f, path) \notin {"none", "file"}  BY <1>7, <2>2 DEF FolderMoves
  <2> QED  BY <2>1, <2>2
<1>15. ASSUME Kind(f, path) \in {"none", "file"} PROVE SavedFits(w, h, exports')
  <2>1. exports'[e] = y  BY <1>9 DEF FilesFit
  <2>2. path \in DOMAIN h /\ h[path].by = "text"  BY <1>6, <1>7, <1>15 DEF With
  <2>3. w.who = e /\ w.path = path /\ w.by = "text"  BY <1>8
  <2> QED  BY <1>11, <2>1, <2>2, <2>3 DEF SavedFits
<1>16. \A z \in written' : z \in written \/ SavedFits(z, h, exports')
  <2>1. CASE Kind(f, path) \in {"none", "file"}
    <3>1. SavedFits(w, h, exports')  BY <1>15, <2>1
    <3> QED  BY <1>9, <2>1, <3>1
  <2>2. CASE Kind(f, path) \notin {"none", "file"}  BY <1>9, <2>2
  <2> QED  BY <2>1, <2>2
<1>17. ExportSteps(e, h, y)  BY <1>1, <1>2, <1>9, <1>12, <1>13, <1>14, <1>16 DEF ExportSteps
<1> QED  BY <1>17, StepFits

\* What another program adds is found, not written.
LEMMA PlantFits ==
  ASSUME FilesFit(folder, firstFolder, exports, written), NEW p, NEW kind \in {"dir", "link", "file"}, Plant(p, kind)
  PROVE  FilesFit(folder, firstFolder, exports, written)'
<1>1. PICK f, g, X, W : f = folder /\ g = firstFolder /\ X = exports /\ W = written  OBVIOUS
<1>2. PICK v : v = [kind |-> kind, by |-> "other"]  OBVIOUS
<1>3. PICK h, i : h = With(f, p, v) /\ i = With(g, p, v)  OBVIOUS
<1>4. Kind(f, p) = "none" /\ folder' = h /\ firstFolder' = i /\ exports' = X /\ written' = W  BY <1>1, <1>2, <1>3 DEF Plant, Put
<1>5. /\ X = [e \in Exporters |-> X[e]] /\ (\A e \in Exporters : ExportFits(X[e], f))
      /\ FolderFits(f, g, X) /\ \A w \in W : SavedFits(w, f, X)
  BY <1>1 DEF FilesFit
<1>6. p \notin DOMAIN f  BY <1>4, <1>5 DEF Kind, FolderFits
<1>7. DOMAIN h = DOMAIN f \cup {p} /\ h[p] = v /\ \A q \in DOMAIN f : q # p => h[q] = f[q]  BY <1>3 DEF With
<1>8. DOMAIN i = DOMAIN g \cup {p} /\ i[p] = v /\ \A q \in DOMAIN g : q # p => i[q] = g[q]  BY <1>3 DEF With
<1>9. ASSUME NEW q, Kind(f, q) = "dir" PROVE Kind(h, q) = "dir"
  <2>1. q # p  BY <1>4, <1>9
  <2> QED  BY <1>3, <1>9, <2>1 DEF With, Kind
<1>10. ASSUME NEW e \in Exporters PROVE ExportFits(X[e], h)
  <2>1. PICK x : x = X[e]  OBVIOUS
  <2>2. ExportFits(x, f)  BY <1>5, <2>1
  <2> QED  BY <1>9, <2>1, <2>2, WalksStay
<1>11. FolderFits(h, i, X)
  <2>1. DOMAIN i \subseteq DOMAIN h /\ \A q \in DOMAIN h : h[q].kind \in {"dir", "link", "file"}
    BY <1>2, <1>5, <1>7, <1>8 DEF FolderFits
  <2>2. ASSUME NEW q \in DOMAIN i
        PROVE  h[q] = i[q] \/ (h[q].kind = "file" /\ i[q].kind = "file" /\ \E e \in Exporters : Overwrites(X[e], q))
    <3>1. CASE q = p  BY <1>7, <1>8, <3>1
    <3>2. CASE q # p
      <4>1. q \in DOMAIN g /\ q \in DOMAIN f  BY <1>5, <1>8, <3>2 DEF FolderFits
      <4>2. h[q] = f[q] /\ i[q] = g[q]  BY <1>7, <1>8, <3>2, <4>1
      <4> QED  BY <1>5, <4>1, <4>2 DEF FolderFits
    <3> QED  BY <3>1, <3>2
  <2>3. ASSUME NEW q \in DOMAIN h, q \notin DOMAIN i \/ h[q] # i[q]
        PROVE  SafePath(q) /\ (h[q].kind = "file" => InDirs(h, q, Len(q)))
    <3>1. q # p  BY <1>7, <1>8, <2>3
    <3>2. q \in DOMAIN f /\ h[q] = f[q] /\ (q \notin DOMAIN g \/ f[q] # g[q])  BY <1>7, <1>8, <2>3, <3>1
    <3>3. SafePath(q) /\ (f[q].kind = "file" => InDirs(f, q, Len(q)))  BY <1>5, <3>2 DEF FolderFits
    <3> QED  BY <1>9, <3>2, <3>3 DEF InDirs
  <2> QED  BY <2>1, <2>2, <2>3 DEF FolderFits
<1>12. ASSUME NEW w \in W PROVE SavedFits(w, h, X)
  <2>1. SavedFits(w, f, X)  BY <1>5
  <2>2. w.path \in DOMAIN f /\ w.path # p  BY <1>6, <2>1 DEF SavedFits
  <2>3. h[w.path] = f[w.path] /\ w.path \in DOMAIN h  BY <1>7, <2>2
  <2> QED  BY <2>1, <2>3 DEF SavedFits
<1>13. FilesFit(h, i, X, W)  BY <1>5, <1>10, <1>11, <1>12 DEF FilesFit
<1> QED  BY <1>4, <1>13

\* What is left of a store when the expired tokens are dropped.
LEMMA UnexpiredIs ==
  ASSUME NEW T, NEW F, NEW A, NEW now, TokensFit(T, F, A, now), NEW K, K \in {Unexpired(T, now), Unexpired(F, now)}
  PROVE  DOMAIN K \subseteq DOMAIN A /\ \A t \in DOMAIN A : A[t] > now => t \in DOMAIN K /\ K[t] = A[t]
<1>1. CASE K = Unexpired(T, now)  BY <1>1 DEF Unexpired, TokensFit
<1>2. CASE K = Unexpired(F, now)  BY <1>2 DEF Unexpired, TokensFit
<1> QED  BY <1>1, <1>2

\* Any of the stores may be replaced by one that was cleared of the expired.
LEMMA TokensStay ==
  ASSUME NEW T, NEW F, NEW A, NEW now, TokensFit(T, F, A, now), NEW K, K \in {Unexpired(T, now), Unexpired(F, now)},
         NEW S, S \in {K, T}, NEW G, G \in {K, F}
  PROVE  TokensFit(S, G, A, now)
<1>1. DOMAIN K \subseteq DOMAIN A /\ \A t \in DOMAIN A : A[t] > now => t \in DOMAIN K /\ K[t] = A[t]  BY UnexpiredIs
<1> QED  BY <1>1 DEF TokensFit

\* A token issued is in memory, in the file and with the renderer.
LEMMA IssueFits ==
  ASSUME NEW T, NEW F, NEW A, NEW now, TokensFit(T, F, A, now), NEW t, t \notin DOMAIN A,
         NEW S, S = With(Unexpired(T, now), t, now + Lifetime), NEW B, B = With(A, t, now + Lifetime)
  PROVE  TokensFit(S, S, B, now)
<1>1. PICK K : K = Unexpired(T, now)  OBVIOUS
<1>2. PICK v : v = now + Lifetime  OBVIOUS
<1>3. now \in Nat /\ v \in Nat  BY <1>2, ExportAssumption DEF TokensFit
<1>4. DOMAIN K \subseteq DOMAIN A /\ \A u \in DOMAIN A : A[u] > now => u \in DOMAIN K /\ K[u] = A[u]  BY <1>1, UnexpiredIs
<1>5. DOMAIN S = DOMAIN K \cup {t} /\ S[t] = v /\ \A u \in DOMAIN K : u # t => S[u] = K[u]  BY <1>1, <1>2 DEF With
<1>6. DOMAIN B = DOMAIN A \cup {t} /\ B[t] = v /\ \A u \in DOMAIN A : u # t => B[u] = A[u]  BY <1>2 DEF With
<1>7. ASSUME NEW u \in DOMAIN B PROVE B[u] \in Nat /\ (B[u] > now => u \in DOMAIN S /\ S[u] = B[u])
  <2>1. CASE u = t  BY <1>3, <1>5, <1>6, <2>1
  <2>2. CASE u # t
    <3>1. u \in DOMAIN A /\ B[u] = A[u] /\ A[u] \in Nat  BY <1>6, <2>2 DEF TokensFit
    <3> QED  BY <1>4, <1>5, <2>2, <3>1
  <2> QED  BY <2>1, <2>2
<1>8. DOMAIN S \subseteq DOMAIN B  BY <1>4, <1>5, <1>6
<1> QED  BY <1>3, <1>7, <1>8 DEF TokensFit

\* Issuing, resolving, loading and the passing of time keep the tokens answered.
LEMMA TokenStepFits ==
  ASSUME TokensFit(tokens, tokenFile, answered, ticks), TokenStep
  PROVE  TokensFit(tokens, tokenFile, answered, ticks)'
<1>1. PICK T, F, A, now : T = tokens /\ F = tokenFile /\ A = answered /\ now = ticks  OBVIOUS
<1>2. TokensFit(T, F, A, now)  BY <1>1
<1>3. PICK K : K = Unexpired(T, now)  OBVIOUS
<1>4. ASSUME NEW t, NEW ok \in BOOLEAN, NEW allowed, NEW fits, issue_attachment_token(t, allowed, fits, ok)
      PROVE  TokensFit(tokens, tokenFile, answered, ticks)'
  <2>1. PICK S : S = With(K, t, now + Lifetime)  OBVIOUS
  <2>2. PICK B : B = With(A, t, now + Lifetime)  OBVIOUS
  <2>3. /\ t \notin DOMAIN A /\ ticks' = now /\ tokenFile' = (IF ok THEN S ELSE F) /\ tokens' = (IF ok THEN S ELSE K)
        /\ answered' = IF ok THEN B ELSE A
    BY <1>1, <1>3, <1>4, <2>1, <2>2 DEF issue_attachment_token, persist_attachment_tokens
  <2>4. CASE ok
    <3>1. TokensFit(S, S, B, now)  BY <1>2, <1>3, <2>1, <2>2, <2>3, IssueFits
    <3> QED  BY <2>3, <2>4, <3>1
  <2>5. CASE ~ok
    <3>1. TokensFit(K, F, A, now)  BY <1>2, <1>3, TokensStay
    <3> QED  BY <2>3, <2>5, <3>1
  <2> QED  BY <2>4, <2>5
<1>5. ASSUME NEW t, NEW ok \in BOOLEAN, resolve_attachment_token(t, ok)
      PROVE  TokensFit(tokens, tokenFile, answered, ticks)'
  <2>1. PICK G : G = tokenFile'  OBVIOUS
  <2>2. tokens' = K /\ answered' = A /\ ticks' = now /\ G \in {K, F}
    BY <1>1, <1>3, <1>5, <2>1 DEF resolve_attachment_token, persist_attachment_tokens
  <2>3. TokensFit(K, G, A, now)  BY <1>2, <1>3, <2>2, TokensStay
  <2> QED  BY <2>1, <2>2, <2>3
<1>6. CASE load_attachment_tokens
  <2>1. PICK L : L = Unexpired(F, now)  OBVIOUS
  <2>2. tokens' = L /\ tokenFile' = F /\ answered' = A /\ ticks' = now  BY <1>1, <1>6, <2>1 DEF load_attachment_tokens
  <2>3. TokensFit(L, F, A, now)  BY <1>2, <2>1, TokensStay
  <2> QED  BY <2>2, <2>3
<1>7. CASE Tick
  <2>1. tokens' = T /\ tokenFile' = F /\ answered' = A /\ ticks' = now + 1  BY <1>1, <1>7 DEF Tick
  <2>2. TokensFit(T, F, A, now + 1)  BY <1>2 DEF TokensFit
  <2> QED  BY <2>1, <2>2
<1> QED  BY <1>4, <1>5, <1>6, <1>7 DEF TokenStep

\* Every step on files keeps them in order.
LEMMA FileStepFits ==
  ASSUME FilesFit(folder, firstFolder, exports, written), FileStep
  PROVE  FilesFit(folder, firstFolder, exports, written)'
<1>1. ASSUME NEW e \in Exporters, NEW ids \in Selections, NEW strategy \in {"latest_only", "keep_all"},
             save_response_files(e, ids, strategy)
      PROVE  FilesFit(folder, firstFolder, exports, written)'
  BY <1>1, BeginFits
<1>2. ASSUME NEW e \in Exporters, NEW ok \in BOOLEAN, write_response_file(e, ok)
      PROVE  FilesFit(folder, firstFolder, exports, written)'
  BY <1>2, ReadFits
<1>3. ASSUME NEW e \in Exporters, NEW ok \in BOOLEAN, write_export_file(e, ok)
      PROVE  FilesFit(folder, firstFolder, exports, written)'
  BY <1>3, WriteFits
<1>4. ASSUME NEW e \in Exporters, create_export_directories(e) PROVE FilesFit(folder, firstFolder, exports, written)'
  BY <1>4, WalkStepFits
<1>5. ASSUME NEW e \in Exporters, CreateDir(e) PROVE FilesFit(folder, firstFolder, exports, written)'  BY <1>5, CreateDirFits
<1>6. ASSUME NEW e \in Exporters, Finished(e) PROVE FilesFit(folder, firstFolder, exports, written)'  BY <1>6, FinishedFits
<1>7. ASSUME NEW e \in Exporters, NEW name, save_text_file(e, name) PROVE FilesFit(folder, firstFolder, exports, written)'
  BY <1>7, TextBeginFits
<1>8. ASSUME NEW e \in Exporters, overwrite_regular_file(e) PROVE FilesFit(folder, firstFolder, exports, written)'
  BY <1>8, TextFits
<1>9. ASSUME NEW p, NEW kind \in {"dir", "link", "file"}, Plant(p, kind) PROVE FilesFit(folder, firstFolder, exports, written)'
  BY <1>9, PlantFits
<1> QED  BY <1>1, <1>2, <1>3, <1>4, <1>5, <1>6, <1>7, <1>8, <1>9 DEF FileStep

\* At first nothing was written and nothing was answered.
LEMMA ExportInitFits == ExportInit => ExportInv
<1> SUFFICES ASSUME ExportInit PROVE ExportInv  OBVIOUS
<1>1. PICK f, X : f = folder /\ X = exports  OBVIOUS
<1>2. f \in Folders0 /\ firstFolder = f /\ X = [e \in Exporters |-> NoExport] /\ written = {}  BY <1>1 DEF ExportInit
<1>3. ExportFits(NoExport, f)
  <2>1. PhaseFits(NoExport) /\ WalkFits(NoExport, f)  BY NothingIs DEF PhaseFits, WalkFits
  <2> QED  BY <2>1, NothingIs DEF ExportFits
<1>4. FolderFits(f, f, X)  BY <1>2, ExportAssumption DEF FolderFits
<1>5. FilesFit(f, f, X, {})  BY <1>2, <1>3, <1>4 DEF FilesFit
<1>6. FilesFit(folder, firstFolder, exports, written)  BY <1>1, <1>2, <1>5
<1>7. TokensFit(tokens, tokenFile, answered, ticks)  BY DEF ExportInit, TokensFit
<1> QED  BY <1>6, <1>7 DEF ExportInv

\* The invariant is inductive: files and tokens share no state.
LEMMA ExportStepFits == ExportInv /\ [NextExport]_exportVars => ExportInv'
<1> SUFFICES ASSUME ExportInv, [NextExport]_exportVars PROVE ExportInv'  OBVIOUS
<1>1. FilesFit(folder, firstFolder, exports, written) /\ TokensFit(tokens, tokenFile, answered, ticks)  BY DEF ExportInv
<1>2. CASE FileStep
  <2>1. FilesFit(folder, firstFolder, exports, written)'  BY <1>1, <1>2, FileStepFits
  <2>2. UNCHANGED <<tokens, tokenFile, answered, ticks>>
    BY <1>2 DEF FileStep, save_response_files, write_response_file, write_export_file, create_export_directories, CreateDir,
       Finished, save_text_file, overwrite_regular_file, Plant, tokenVars
  <2>3. TokensFit(tokens, tokenFile, answered, ticks)'  BY <1>1, <2>2
  <2> QED  BY <2>1, <2>3 DEF ExportInv
<1>3. CASE TokenStep
  <2>1. TokensFit(tokens, tokenFile, answered, ticks)'  BY <1>1, <1>3, TokenStepFits
  <2>2. UNCHANGED <<folder, exports, firstFolder, written>>
    BY <1>3 DEF TokenStep, issue_attachment_token, resolve_attachment_token, load_attachment_tokens, Tick, folderVars
  <2>3. FilesFit(folder, firstFolder, exports, written)'  BY <1>1, <2>2
  <2> QED  BY <2>1, <2>3 DEF ExportInv
<1>4. CASE UNCHANGED exportVars
  <2>1. UNCHANGED <<folder, exports, firstFolder, written, tokens, tokenFile, answered, ticks>>  BY <1>4 DEF exportVars
  <2>2. FilesFit(folder, firstFolder, exports, written)' /\ TokensFit(tokens, tokenFile, answered, ticks)'  BY <1>1, <2>1
  <2> QED  BY <2>2 DEF ExportInv
<1> QED  BY <1>2, <1>3, <1>4 DEF NextExport

\* The invariant gives what is promised of files and tokens.
LEMMA ExportPromise == ExportInv => ExportsKeepFiles
<1> SUFFICES ASSUME ExportInv PROVE ExportsKeepFiles  OBVIOUS
<1>1. PICK f, g, X, W : f = folder /\ g = firstFolder /\ X = exports /\ W = written  OBVIOUS
<1>2. PICK T, F, A, now : T = tokens /\ F = tokenFile /\ A = answered /\ now = ticks  OBVIOUS
<1>3. FilesFit(f, g, X, W) /\ TokensFit(T, F, A, now)  BY <1>1, <1>2 DEF ExportInv
<1>4. (\A e \in Exporters : ExportFits(X[e], f)) /\ FolderFits(f, g, X) /\ \A w \in W : SavedFits(w, f, X)  BY <1>3 DEF FilesFit
<1>5. ASSUME NEW e \in Exporters, X[e].phase = "done", X[e].strategy \in {"latest_only", "keep_all"}
      PROVE  X[e].saved + X[e].skipped + X[e].failed = Cardinality({X[e].ids[k] : k \in DOMAIN X[e].ids})
  <2>1. PICK x : x = X[e]  OBVIOUS
  <2>2. x \in ExportRecords /\ CountFits(x) /\ x.at = Len(x.plan) + 1  BY <1>4, <1>5, <2>1 DEF ExportFits, PhaseFits
  <2>3. PICK n \in Nat : n = Len(x.plan)  BY <2>2, RecordIs
  <2>4. x.saved \in Nat /\ x.skipped \in Nat /\ x.failed \in Nat  BY <2>2, RecordIs
  <2>5. PICK c : c = Cardinality({x.ids[k] : k \in DOMAIN x.ids})  OBVIOUS
  <2>6. x.saved + x.skipped + x.failed + (n + 1 - (n + 1)) = c  BY <2>2, <2>3, <2>5 DEF CountFits
  <2>7. x.saved + x.skipped + x.failed = c  BY <2>3, <2>4, <2>6
  <2> QED  BY <2>1, <2>5, <2>7
<1>6. \A p \in DOMAIN g : f[p] = g[p] \/ (f[p].kind = "file" /\ g[p].kind = "file" /\ \E e \in Exporters : Overwrites(X[e], p))
  BY <1>4 DEF FolderFits
<1>7. \A w \in W : f[w.path].by = w.by \/ \E e \in Exporters \ {w.who} : Overwrites(X[e], w.path)  BY <1>4 DEF SavedFits
<1>8. ASSUME NEW p \in DOMAIN f, p \notin DOMAIN g \/ f[p] # g[p]
      PROVE  /\ Len(p) <= MaxDepth
             /\ f[p].kind = "file" => \A k \in 1..(Len(p) - 1) : Kind(f, SubSeq(p, 1, k)) = "dir"
             /\ \A k \in DOMAIN p : p[k].stem \notin {"..", "a/b", "con", "blank"}
  <2>1. SafePath(p) /\ (f[p].kind = "file" => InDirs(f, p, Len(p)))  BY <1>4, <1>8 DEF FolderFits
  <2>2. PICK N : N = Names  OBVIOUS
  <2>3. p \in Seq(N) /\ Len(p) \in 1..MaxDepth /\ DOMAIN p = 1..Len(p)  BY <2>1, <2>2 DEF SafePath
  <2>4. MaxDepth \in Nat  BY ExportAssumption
  <2> QED  BY <2>1, <2>3, <2>4 DEF SafePath, InDirs
<1>9. ASSUME NEW e \in Exporters, X[e].strategy = "latest_only", \A d \in Exporters \ {e} : X[d] = NoExport,
             NEW w \in W, NEW k \in DOMAIN X[e].ids, Exportable(X[e].ids[k]), PathOf(X[e].ids[k]) = w.path
      PROVE  Captures[X[e].ids[k]].started <= Captures[w.by].started
  <2>1. SavedFits(w, f, X)  BY <1>4
  <2>2. w.who = e
    <3>1. w.who \in Exporters /\ X[w.who].phase # "idle"  BY <2>1 DEF SavedFits
    <3> QED  BY <1>9, <3>1, NothingIs
  <2>3. PICK x : x = X[e]  OBVIOUS
  <2>4. PICK j \in 1..(x.at - 1) : x.plan[j] = w.by /\ PathOf(w.by) = w.path  BY <1>9, <2>1, <2>2, <2>3 DEF SavedFits
  <2>5. x \in ExportRecords /\ PlanFits(x) /\ CountFits(x) /\ x.strategy = "latest_only"  BY <1>4, <1>9, <2>3 DEF ExportFits, PhaseFits
  <2>6. j \in 1..Len(x.plan)
    <3>1. PICK n \in Nat : n = Len(x.plan)  BY <2>5, RecordIs
    <3>2. x.at \in 1..(n + 1)  BY <2>5, <3>1 DEF CountFits
    <3> QED  BY <3>1, <3>2
  <2>7. k \in DOMAIN x.ids /\ Exportable(x.ids[k]) /\ PathOf(x.ids[k]) = PathOf(x.plan[j])  BY <1>9, <2>3, <2>4
  <2>8. Captures[x.ids[k]].started <= Captures[x.plan[j]].started  BY <2>5, <2>6, <2>7 DEF PlanFits
  <2> QED  BY <2>3, <2>4, <2>8
<1>10. /\ \A t \in DOMAIN A : A[t] > now => t \in DOMAIN T /\ T[t] = A[t] /\ t \in DOMAIN F /\ F[t] = A[t]
       /\ \A t \in DOMAIN T : t \in DOMAIN A
  BY <1>3 DEF TokensFit
<1>11. \A e \in Exporters : X[e].phase = "done" /\ X[e].strategy \in {"latest_only", "keep_all"} =>
         X[e].saved + X[e].skipped + X[e].failed = Cardinality({X[e].ids[k] : k \in DOMAIN X[e].ids})
  BY <1>5
<1>12. \A e \in Exporters : X[e].strategy = "latest_only" /\ (\A d \in Exporters \ {e} : X[d] = NoExport) =>
         \A w \in W : \A k \in DOMAIN X[e].ids :
           Exportable(X[e].ids[k]) /\ PathOf(X[e].ids[k]) = w.path => Captures[X[e].ids[k]].started <= Captures[w.by].started
  BY <1>9
<1> QED  BY <1>1, <1>2, <1>6, <1>7, <1>8, <1>10, <1>11, <1>12 DEF ExportsKeepFiles

\* Exports keep what they find and account for what they were asked for (commands/files.rs):
\* every request is saved, skipped or failed; only a latest-only export or a text replaces a
\* file, and only at the path it was meant for; nothing is written through a link, under a
\* name that leads elsewhere or deeper than the limit; and a token answered resolves until it expires.
THEOREM ExportsAlwaysKeepFiles == ExportSpec => []ExportsKeepFiles
<1>1. ExportInit => ExportInv  BY ExportInitFits
<1>2. ExportInv /\ [NextExport]_exportVars => ExportInv'  BY ExportStepFits
<1>3. ExportInv => ExportsKeepFiles  BY ExportPromise
<1> QED  BY <1>1, <1>2, <1>3, PTL DEF ExportSpec

=============================================================================
