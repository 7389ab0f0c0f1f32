---------------------------- MODULE ControlProofs ----------------------------
(***************************************************************************)
(* Proofs about what an agent may do.  AgentControl: for any connections,  *)
(* operations, capabilities and limits, what runs on behalf of an agent    *)
(* stays within what the user approved, and a grant that ended stays       *)
(* ended.  Automation: rules, changes, experiments and the running         *)
(* managers agree, and the user's own rules are left alone.  ControlChannel:*)
(* the answer of a tool call tells the truth about it.  PlanChecks: what   *)
(* passes the checks of a plan stays within what was approved.             *)
(* Verification: a change counts as verified only on evidence.             *)
(***************************************************************************)
EXTENDS AgentControl, Automation, ControlChannel, PlanChecks, Verification, SequenceTheorems, FiniteSetTheorems, WellFoundedInduction, TLAPS

Statuses == Live \cup Terminal
GrantType == [id : Nat, op : ControlOps, cap : Caps, status : Statuses, uses : Nat, max : Nat, ran : Nat,
              past : BOOLEAN, options : SUBSET Options, nonIdempotent : BOOLEAN]
PCs == {"idle", "waiting", "timedOut", "queued", "holding", "authorized", "running", "answer"}
ConnType == [pc : PCs, op : ControlOps \cup {IdleConn.op}, ids : SUBSET Nat, use : SUBSET Nat,
             copy : {"pending", "settled", "unknown"}, woken : BOOLEAN, barred : SUBSET Nat, cut : BOOLEAN]

ControlTypeOK ==
  /\ grants \in Seq(GrantType) /\ nextId \in Nat /\ conn \in [Conns -> ConnType]
  /\ config \in [enabled : BOOLEAN, perms : SUBSET Caps, ask : SUBSET Caps]

\* A grant that still waits for the user has paid for nothing.
WithinUses(g) == g.uses + g.ran <= g.max /\ (g.status = "pending" => g.ran = 0)

\* Grants have ids of their own, none that was not given out.
GrantInv ==
  /\ \A i \in DOMAIN grants : grants[i].id <= nextId /\ WithinUses(grants[i])
  /\ \A i, j \in DOMAIN grants : grants[i].id = grants[j].id => i = j

\* A connection presents grants that exist or existed.
Presents(r) == (\A id \in r.ids : id <= nextId) /\ r.use \subseteq r.ids /\ r.barred \subseteq r.ids

\* A revoked grant cannot be reserved, and no preflight passes while control is revoked,
\* until a connection runs.
Stopped(r) ==
  /\ r.pc \in {"queued", "holding", "authorized"} =>
       \A i \in DOMAIN grants : grants[i].id \in r.barred => grants[i].status \in Terminal
  /\ r.pc \in {"queued", "holding"} /\ r.cut => config.perms = {} /\ config.ask = {}
  /\ r.pc \in {"authorized", "running"} /\ r.cut => Needs[r.op] = {}
  /\ r.pc = "running" => r.use \cap r.barred = {}

\* write_lock has one holder, who is the only one past the queue with a write.
Exclusive ==
  /\ \A c \in Conns : conn[c].pc \in {"holding", "authorized", "running"} /\ conn[c].op \notin Reads => c \in writer
  /\ \A c, d \in writer : c = d

ConnInv == \A c \in Conns : Presents(conn[c]) /\ Stopped(conn[c])

ControlInv == ControlTypeOK /\ GrantInv /\ ConnInv /\ Exclusive

-----------------------------------------------------------------------------
(* How a grant may change.                                                 *)

\* The same grant later: it pays for no more than was approved, and once ended stays so.
Follows(g, h) ==
  /\ h \in GrantType /\ h.id = g.id /\ (WithinUses(g) => WithinUses(h))
  /\ g.status \in Terminal => h.status \in Terminal

\* A store with the same grants later.
Later(gs, hs) ==
  hs \in Seq(GrantType) /\ DOMAIN hs = DOMAIN gs /\ \A i \in DOMAIN gs : Follows(gs[i], hs[i])

\* What a step may do to the store: grants follow earlier ones, or have new ids.
Renews ==
  /\ grants' \in Seq(GrantType) /\ nextId' \in Nat /\ nextId <= nextId'
  /\ \A j \in DOMAIN grants' :
       \/ \E i \in DOMAIN grants : Follows(grants[i], grants'[j])
       \/ nextId < grants'[j].id /\ grants'[j].id <= nextId' /\ WithinUses(grants'[j])
  /\ \A i, j \in DOMAIN grants' : grants'[i].id = grants'[j].id => i = j

\* A list has an index set of numbers and elements of its type.
LEMMA StoreIsList ==
  ASSUME NEW gs \in Seq(GrantType)
  PROVE  /\ Len(gs) \in Nat /\ DOMAIN gs = 1..Len(gs) /\ DOMAIN gs \subseteq Nat
         /\ \A i \in DOMAIN gs : gs[i] \in GrantType
BY LenProperties

\* A function on the indices of the store that changes each grant in an allowed way.
LEMMA MapFollows ==
  ASSUME NEW gs \in Seq(GrantType), NEW hs, hs \in [DOMAIN gs -> GrantType],
         \A i \in DOMAIN gs : Follows(gs[i], hs[i])
  PROVE  Later(gs, hs)
<1>1. Len(gs) \in Nat /\ DOMAIN gs = 1..Len(gs)  BY StoreIsList
<1>2. hs \in [1..Len(gs) -> GrantType]  BY <1>1
<1>3. hs \in Seq(GrantType)  BY <1>1, <1>2, SeqDef
<1> QED BY <1>3 DEF Later

\* An unchanged grant follows itself.
LEMMA FollowsSelf == ASSUME NEW g \in GrantType PROVE Follows(g, g)
BY DEF Follows

\* Later than later is later.
LEMMA LaterTwice ==
  ASSUME NEW gs, NEW hs, NEW ks, Later(gs, hs), Later(hs, ks)
  PROVE  Later(gs, ks)
BY DEF Later, Follows

\* refresh_expired, and replace_grant with the copy of a thread that timed out.
LEMMA ExpiredFollows ==
  ASSUME NEW g \in GrantType
  PROVE  Expired(g) \in GrantType /\ TimedOutGrant(g) \in GrantType /\ Follows(g, Expired(g)) /\ Follows(g, TimedOutGrant(g))
<1>1. g.uses \in Nat /\ g.ran \in Nat /\ g.max \in Nat  BY DEF GrantType
<1> DEFINE h == [g EXCEPT !.status = "expired", !.uses = 0]
<1>2. h \in GrantType /\ h.id = g.id /\ h.status = "expired" /\ h.uses = 0 /\ h.ran = g.ran /\ h.max = g.max
  BY DEF GrantType, Statuses, Terminal
<1> HIDE DEF h
<1>3. Follows(g, h)  BY <1>1, <1>2 DEF Follows, WithinUses, Terminal
<1> QED BY <1>2, <1>3 DEF Expired, TimedOutGrant, h

\* A refreshed store holds the same grants.
LEMMA RefreshedFollows ==
  ASSUME NEW gs \in Seq(GrantType)
  PROVE  Later(gs, Refreshed(gs)) /\ Later(gs, gs)
<1>1. \A i \in DOMAIN gs : gs[i] \in GrantType  BY StoreIsList
<1>2. ASSUME NEW i \in DOMAIN gs PROVE Refreshed(gs)[i] \in GrantType /\ Follows(gs[i], Refreshed(gs)[i])
  BY <1>1, ExpiredFollows, FollowsSelf DEF Refreshed
<1>3. Refreshed(gs) \in [DOMAIN gs -> GrantType]  BY <1>2 DEF Refreshed
<1>4. gs \in [DOMAIN gs -> GrantType] /\ \A i \in DOMAIN gs : Follows(gs[i], gs[i])  BY <1>1, LenProperties, FollowsSelf
<1> QED BY <1>2, <1>3, <1>4, MapFollows

\* The same grants later, under the same counter.
LEMMA LaterRenews ==
  ASSUME ControlTypeOK, GrantInv, Later(grants, grants'), nextId' = nextId
  PROVE  Renews
<1>1. grants' \in Seq(GrantType) /\ DOMAIN grants' = DOMAIN grants /\ \A i \in DOMAIN grants : Follows(grants[i], grants'[i])
  BY DEF Later
<1>2. \A i, j \in DOMAIN grants' : grants'[i].id = grants'[j].id => i = j  BY <1>1 DEF GrantInv, Follows
<1> QED BY <1>1, <1>2 DEF Renews, ControlTypeOK

\* The store keeps its invariant.
LEMMA RenewsKeeps == ASSUME ControlTypeOK, GrantInv, Renews PROVE GrantInv'
<1>1. ASSUME NEW j \in DOMAIN grants' PROVE grants'[j].id <= nextId' /\ WithinUses(grants'[j])
  <2>1. CASE \E i \in DOMAIN grants : Follows(grants[i], grants'[j])
    <3>1. PICK i \in DOMAIN grants : Follows(grants[i], grants'[j])  BY <2>1
    <3>2. grants[i] \in GrantType /\ grants[i].id \in Nat  BY StoreIsList DEF ControlTypeOK, GrantType
    <3> QED BY <3>1, <3>2 DEF Follows, GrantInv, Renews, ControlTypeOK
  <2> QED BY <2>1 DEF Renews
<1> QED BY <1>1 DEF Renews, GrantInv

\* A grant that ended stays ended.
LEMMA RenewsIsFinal ==
  ASSUME ControlTypeOK, GrantInv, Renews, NEW i \in DOMAIN grants, NEW j \in DOMAIN grants',
         grants[i].id = grants'[j].id, grants[i].status \in Terminal
  PROVE  grants'[j].status \in Terminal
<1>1. grants[i].id \in Nat /\ grants[i].id <= nextId  BY StoreIsList DEF ControlTypeOK, GrantType, GrantInv
<1>2. PICK k \in DOMAIN grants : Follows(grants[k], grants'[j])  BY <1>1 DEF Renews, ControlTypeOK
<1>3. k = i  BY <1>2 DEF Follows, GrantInv
<1> QED BY <1>2, <1>3 DEF Follows

\* Every grant is found by its id.
LEMMA FoundById ==
  ASSUME GrantInv, NEW i \in DOMAIN grants
  PROVE  Known(grants[i].id) /\ Index(grants[i].id) = i /\ Grant(grants[i].id) = grants[i]
BY DEF GrantInv, Known, Index, Grant

-----------------------------------------------------------------------------
(* How a connection may change.                                            *)

\* A connection that only looked, or was told to look.
Still(r, s) ==
  /\ s \in ConnType /\ s.pc = r.pc /\ s.op = r.op /\ s.ids = r.ids
  /\ s.use = r.use /\ s.barred = r.barred /\ s.cut = r.cut

\* Fields of a connection.
LEMMA ConnFields ==
  ASSUME NEW r \in ConnType
  PROVE  /\ r.pc \in PCs /\ r.ids \subseteq Nat /\ r.use \subseteq Nat /\ r.barred \subseteq Nat /\ r.cut \in BOOLEAN
         /\ r.woken \in BOOLEAN /\ r.copy \in {"pending", "settled", "unknown"}
BY DEF ConnType

\* A thread that has answered.
LEMMA IdleIsTyped ==
  /\ IdleConn \in ConnType /\ IdleConn.pc = "idle" /\ IdleConn.ids = {} /\ IdleConn.use = {}
  /\ IdleConn.barred = {} /\ IdleConn.cut = FALSE
<1>1. IdleConn.op \in ControlOps \cup {IdleConn.op}  OBVIOUS
<1> QED BY <1>1 DEF IdleConn, ConnType, PCs

\* A connection that stays as it is stays stopped, unless the settings allow it again.
LEMMA StillStopped ==
  ASSUME ControlTypeOK, GrantInv, Renews, NEW r \in ConnType, NEW s \in ConnType, Still(r, s), Presents(r), Stopped(r),
         r.pc \in {"queued", "holding"} /\ r.cut => config'.perms = {} /\ config'.ask = {}
  PROVE  Presents(s)' /\ Stopped(s)'
<1>1. Presents(s)'
  <2>1. nextId \in Nat /\ nextId' \in Nat /\ nextId <= nextId'  BY DEF Renews, ControlTypeOK
  <2>2. \A id \in s.ids : id \in Nat /\ id <= nextId  BY ConnFields DEF Still, Presents
  <2>3. \A id \in s.ids : id <= nextId'  BY <2>1, <2>2
  <2> QED BY <2>3 DEF Still, Presents
<1>2. ASSUME s.pc \in {"queued", "holding", "authorized"}, NEW j \in DOMAIN grants', grants'[j].id \in s.barred
      PROVE  grants'[j].status \in Terminal
  <2>1. grants'[j].id <= nextId /\ grants'[j].id \in Nat /\ nextId \in Nat  BY <1>2, ConnFields DEF Still, Presents, ControlTypeOK
  <2>2. PICK i \in DOMAIN grants : Follows(grants[i], grants'[j])  BY <2>1 DEF Renews
  <2>3. grants[i].status \in Terminal  BY <1>2, <2>2 DEF Follows, Still, Stopped
  <2> QED BY <2>2, <2>3 DEF Follows
<1>3. Stopped(s)'  BY <1>2 DEF Still, Stopped
<1> QED BY <1>1, <1>3

\* A step keeps the invariant when the connections of D do, the others stay as they are
\* and write_lock is still exclusive.
LEMMA StepKeeps ==
  ASSUME ControlInv, Renews, conn' \in [Conns -> ConnType], NEW D,
         config' \in [enabled : BOOLEAN, perms : SUBSET Caps, ask : SUBSET Caps],
         \A d \in Conns \ D : Still(conn[d], conn'[d]),
         \A d \in Conns \ D : conn[d].pc \in {"queued", "holding"} /\ conn[d].cut => config'.perms = {} /\ config'.ask = {},
         \A d \in Conns \cap D : Presents(conn[d])' /\ Stopped(conn[d])',
         Exclusive'
  PROVE  ControlInv'
<1>1. GrantInv'  BY RenewsKeeps DEF ControlInv
<1>2. ControlTypeOK'  BY DEF ControlTypeOK, Renews
<1>3. ASSUME NEW d \in Conns, d \notin D PROVE Presents(conn[d])' /\ Stopped(conn[d])'
  <2>1. PICK r \in ConnType : r = conn[d]  BY DEF ControlInv, ControlTypeOK
  <2>2. PICK s \in ConnType : s = conn'[d]  OBVIOUS
  <2>3. Presents(r) /\ Stopped(r)  BY <2>1 DEF ControlInv, ConnInv
  <2>4. Still(r, s)  BY <1>3, <2>1, <2>2
  <2>5. r.pc \in {"queued", "holding"} /\ r.cut => config'.perms = {} /\ config'.ask = {}  BY <1>3, <2>1
  <2>6. Presents(s)' /\ Stopped(s)'  BY <2>3, <2>4, <2>5, StillStopped DEF ControlInv
  <2> QED BY <2>2, <2>6 DEF Presents, Stopped
<1>4. ConnInv'  BY <1>3 DEF ConnInv
<1> QED BY <1>1, <1>2, <1>4 DEF ControlInv

\* A connection that is not at work has nothing to stop.
LEMMA AtRest ==
  ASSUME NEW s \in ConnType, s.pc \in {"idle", "waiting", "timedOut", "answer"},
         \A id \in s.ids : id <= nextId', s.use \subseteq s.ids, s.barred \subseteq s.ids
  PROVE  Presents(s)' /\ Stopped(s)'
BY DEF Presents, Stopped

\* write_lock stays exclusive when nobody takes it.
LEMMA StillExclusive ==
  ASSUME Exclusive, NEW D, writer \ D \subseteq writer', writer' \subseteq writer,
         \A d \in Conns \ D : Still(conn[d], conn'[d]),
         \A d \in Conns \cap D : conn'[d].pc \in {"holding", "authorized", "running"} /\ conn'[d].op \notin Reads => d \in writer'
  PROVE  Exclusive'
BY DEF Exclusive, Still

\* Waking the waiting threads leaves them where they are.
LEMMA NotifyFacts ==
  ASSUME NEW f \in [Conns -> ConnType]
  PROVE  /\ NotifyAll(f) \in [Conns -> ConnType]
         /\ \A c \in Conns : Still(f[c], NotifyAll(f)[c])
<1>1. ASSUME NEW r \in ConnType PROVE Still(r, r) /\ Still(r, [r EXCEPT !.woken = TRUE])  BY DEF ConnType, Still
<1>2. ASSUME NEW c \in Conns PROVE Still(f[c], NotifyAll(f)[c])  BY <1>1 DEF NotifyAll
<1>3. ASSUME NEW c \in Conns PROVE NotifyAll(f)[c] \in ConnType  BY <1>2 DEF Still
<1> QED BY <1>2, <1>3 DEF NotifyAll

\* A step of one connection.
LEMMA OneChanges ==
  ASSUME ControlInv, Renews, UNCHANGED config, NEW c \in Conns, NEW s \in ConnType,
         conn' \in {[conn EXCEPT ![c] = s], NotifyAll([conn EXCEPT ![c] = s])},
         Presents(s)', Stopped(s)', writer' \in {writer, Unlocked(c)},
         s.pc \in {"holding", "authorized", "running"} /\ s.op \notin Reads => c \in writer'
  PROVE  ControlInv'
<1> DEFINE f == [conn EXCEPT ![c] = s]
<1>0. conn \in [Conns -> ConnType] /\ config \in [enabled : BOOLEAN, perms : SUBSET Caps, ask : SUBSET Caps]
  BY DEF ControlInv, ControlTypeOK
<1>1. f \in [Conns -> ConnType] /\ f[c] = s /\ \A d \in Conns \ {c} : f[d] = conn[d]  BY <1>0
<1> HIDE DEF f
<1>2. conn' \in [Conns -> ConnType] /\ \A d \in Conns : Still(f[d], conn'[d])
  <2>1. CASE conn' = f  BY <1>1, <2>1 DEF Still
  <2>2. CASE conn' = NotifyAll(f)  BY <1>1, <2>2, NotifyFacts
  <2> QED BY <2>1, <2>2 DEF f
<1>3. \A d \in Conns \ {c} : Still(conn[d], conn'[d])  BY <1>1, <1>2
<1>4. Presents(conn[c])' /\ Stopped(conn[c])'
  <2>1. Still(s, conn'[c])  BY <1>1, <1>2
  <2> QED BY <2>1 DEF Still, Presents, Stopped
<1>5. Exclusive'
  <2>1. conn'[c].pc = s.pc /\ conn'[c].op = s.op  BY <1>1, <1>2 DEF Still
  <2>2. writer \ {c} \subseteq writer' /\ writer' \subseteq writer  BY DEF Unlocked
  <2>3. PICK D : D = {c}  OBVIOUS
  <2>4. Exclusive /\ writer \ D \subseteq writer' /\ \A d \in Conns \ D : Still(conn[d], conn'[d])
    BY <1>3, <2>2, <2>3 DEF ControlInv
  <2>5. \A d \in Conns \cap D : conn'[d].pc \in {"holding", "authorized", "running"} /\ conn'[d].op \notin Reads => d \in writer'
    BY <2>1, <2>3
  <2> QED BY <2>2, <2>4, <2>5, StillExclusive
<1>6. PICK D : D = {c}  OBVIOUS
<1>7. /\ \A d \in Conns \ D : Still(conn[d], conn'[d])
      /\ \A d \in Conns \ D : conn[d].pc \in {"queued", "holding"} /\ conn[d].cut => config'.perms = {} /\ config'.ask = {}
      /\ \A d \in Conns \cap D : Presents(conn[d])' /\ Stopped(conn[d])'
  <2>1. \A d \in Conns \ D : Still(conn[d], conn'[d])  BY <1>3, <1>6
  <2>2. \A d \in Conns : conn[d].pc \in {"queued", "holding"} /\ conn[d].cut => config'.perms = {} /\ config'.ask = {}
    BY DEF ControlInv, ConnInv, Stopped
  <2>3. \A d \in Conns \cap D : Presents(conn[d])' /\ Stopped(conn[d])'  BY <1>4, <1>6
  <2> QED BY <2>1, <2>2, <2>3
<1>8. config' \in [enabled : BOOLEAN, perms : SUBSET Caps, ask : SUBSET Caps]  BY <1>0
<1> QED BY <1>2, <1>5, <1>7, <1>8, StepKeeps

\* A step of the store alone.
LEMMA NoneChanges ==
  ASSUME ControlInv, Renews, UNCHANGED <<config, writer>>, conn' \in {conn, NotifyAll(conn)}
  PROVE  ControlInv'
<1>0. conn \in [Conns -> ConnType] /\ config \in [enabled : BOOLEAN, perms : SUBSET Caps, ask : SUBSET Caps]
  BY DEF ControlInv, ControlTypeOK
<1>1. conn' \in [Conns -> ConnType] /\ \A d \in Conns : Still(conn[d], conn'[d])
  <2>1. CASE conn' = conn  BY <1>0, <2>1 DEF Still
  <2>2. CASE conn' = NotifyAll(conn)  BY <1>0, <2>2, NotifyFacts
  <2> QED BY <2>1, <2>2
<1>2. Exclusive'  BY <1>1 DEF ControlInv, Exclusive, Still
<1>3. PICK D : D = {}  OBVIOUS
<1>4. /\ \A d \in Conns \ D : conn[d].pc \in {"queued", "holding"} /\ conn[d].cut => config'.perms = {} /\ config'.ask = {}
      /\ \A d \in Conns \ D : Still(conn[d], conn'[d])
  BY <1>1 DEF ControlInv, ConnInv, Stopped
<1>5. \A d \in Conns \cap D : Presents(conn[d])' /\ Stopped(conn[d])'  BY <1>3
<1>6. config' \in [enabled : BOOLEAN, perms : SUBSET Caps, ask : SUBSET Caps]  BY <1>0
<1> QED BY <1>1, <1>2, <1>4, <1>5, <1>6, StepKeeps

\* A store that does not change is no exception.
LEMMA SameRenews ==
  ASSUME ControlInv, UNCHANGED <<grants, nextId>>
  PROVE  Renews
<1>1. Later(grants, grants)  BY RefreshedFollows DEF ControlInv, ControlTypeOK
<1> QED BY <1>1, LaterRenews DEF ControlInv

\* A connection that answered, whatever became of the store.
LEMMA AnswerKeeps ==
  ASSUME ControlInv, Renews, UNCHANGED <<config, writer>>, NEW c \in Conns,
         conn' \in {[conn EXCEPT ![c] = IdleConn], NotifyAll([conn EXCEPT ![c] = IdleConn])}
  PROVE  ControlInv'
<1>1. PICK s \in ConnType : s = IdleConn  BY IdleIsTyped
<1>2. s.pc = "idle" /\ s.ids = {} /\ s.use = {} /\ s.barred = {}  BY <1>1, IdleIsTyped
<1>3. Presents(s)' /\ Stopped(s)'  BY <1>2, AtRest
<1> QED BY <1>1, <1>2, <1>3, OneChanges

-----------------------------------------------------------------------------
(* The invariant holds initially and every step keeps it.                  *)

\* No grant, nobody at work.
LEMMA ControlStarts == ControlInit => ControlInv
<1> SUFFICES ASSUME ControlInit PROVE ControlInv  OBVIOUS
<1>1. PICK s \in Starts : nextId = s[1]  BY DEF ControlInit
<1>2. nextId \in Nat  BY <1>1, ControlAssumption
<1>3. grants = << >> /\ grants \in Seq(GrantType) /\ writer = {}  BY EmptySeq DEF ControlInit
<1>4. conn \in [Conns -> ConnType] /\ \A c \in Conns : conn[c] = IdleConn  BY IdleIsTyped DEF ControlInit
<1>5. config \in [enabled : BOOLEAN, perms : SUBSET Caps, ask : SUBSET Caps]  BY DEF ControlInit
<1>6. ControlTypeOK  BY <1>2, <1>3, <1>4, <1>5 DEF ControlTypeOK
<1>7. GrantInv  BY <1>3 DEF GrantInv
<1>8. ConnInv /\ Exclusive  BY <1>3, <1>4, IdleIsTyped DEF ConnInv, Exclusive, Presents, Stopped
<1> QED BY <1>6, <1>7, <1>8 DEF ControlInv

\* A set of indices that is not empty has a largest one.
LEMMA LargestExists ==
  ASSUME NEW N \in Nat, NEW S, S \subseteq 1..N, S # {}
  PROVE  \E i \in S : \A j \in S : j <= i
<1> DEFINE I == {N - i : i \in S}
<1>1. I \subseteq Nat /\ I # {}
  <2>1. \A i \in S : N - i \in Nat  OBVIOUS
  <2>2. PICK i : i \in S  OBVIOUS
  <2>3. N - i \in I  BY <2>2
  <2> QED BY <2>1, <2>3
<1> HIDE DEF I
<1>2. PICK x \in I : \A y \in I : ~(<<y, x>> \in OpToRel(<, Nat))  BY <1>1, WFMin, NatLessThanWellFounded
<1>3. \A y \in I : ~(y < x)  BY <1>1, <1>2 DEF OpToRel
<1>4. PICK i \in S : x = N - i  BY DEF I
<1>5. ASSUME NEW j \in S PROVE j <= i
  <2>1. N - j \in I  BY DEF I
  <2> QED BY <1>3, <1>4, <2>1
<1> QED BY <1>5

\* The newest grant of a key is one of the store.
LEMMA NewestFound ==
  ASSUME NEW gs \in Seq(GrantType), NEW op, NEW cap, NEW statuses, Newest(gs, op, cap, statuses) # 0
  PROVE  Newest(gs, op, cap, statuses) \in DOMAIN gs
<1> DEFINE S == {i \in DOMAIN gs : gs[i].op = op /\ gs[i].cap = cap /\ gs[i].status \in statuses /\ ~gs[i].past}
<1>1. S # {} /\ Newest(gs, op, cap, statuses) = CHOOSE i \in S : \A j \in S : j <= i  BY DEF Newest
<1>2. S \subseteq 1..Len(gs) /\ Len(gs) \in Nat  BY StoreIsList
<1> HIDE DEF S
<1>3. \E i \in S : \A j \in S : j <= i  BY <1>1, <1>2, LargestExists
<1>4. Newest(gs, op, cap, statuses) \in S  BY <1>1, <1>3
<1> QED BY <1>4 DEF S

\* trim_grants keeps the newest grants in their order.
LEMMA TrimFacts ==
  ASSUME NEW gs \in Seq(GrantType)
  PROVE  /\ Trimmed(gs) \in Seq(GrantType)
         /\ \E k \in Nat : \A i \in DOMAIN Trimmed(gs) : i + k \in DOMAIN gs /\ Trimmed(gs)[i] = gs[i + k]
<1>1. Len(gs) \in Nat /\ DOMAIN gs = 1..Len(gs) /\ \A i \in DOMAIN gs : gs[i] \in GrantType  BY StoreIsList
<1>2. MaxGrants \in Nat /\ MaxGrants > 0  BY ControlAssumption
<1>3. CASE Len(gs) < MaxGrants
  <2>1. Trimmed(gs) = gs  BY <1>3 DEF Trimmed
  <2>2. \A i \in DOMAIN Trimmed(gs) : i + 0 \in DOMAIN gs /\ Trimmed(gs)[i] = gs[i + 0]  BY <1>1, <2>1
  <2> QED BY <2>1, <2>2
<1>4. CASE ~(Len(gs) < MaxGrants)
  <2>1. PICK k \in Nat : k = Len(gs) - MaxGrants + 1 /\ k >= 1  BY <1>1, <1>2, <1>4
  <2>2. Trimmed(gs) = SubSeq(gs, k + 1, Len(gs))  BY <1>1, <1>2, <1>4, <2>1 DEF Trimmed
  <2>3. \A i \in k + 1 .. Len(gs) : gs[i] \in GrantType  BY <1>1, <2>1
  <2>4. /\ Trimmed(gs) \in Seq(GrantType)
        /\ Len(Trimmed(gs)) = IF k + 1 <= Len(gs) THEN Len(gs) - (k + 1) + 1 ELSE 0
        /\ \A i \in 1 .. Len(gs) - (k + 1) + 1 : Trimmed(gs)[i] = gs[(k + 1) + i - 1]
    BY <1>1, <2>1, <2>2, <2>3, SubSeqProperties
  <2>5. DOMAIN Trimmed(gs) = 1..Len(Trimmed(gs))  BY <2>4, StoreIsList
  <2>6. ASSUME NEW i \in DOMAIN Trimmed(gs) PROVE i + k \in DOMAIN gs /\ Trimmed(gs)[i] = gs[i + k]
    <3>1. i \in Nat /\ 1 <= i /\ i <= Len(gs) - k  BY <1>1, <2>1, <2>4, <2>5
    <3>2. i \in 1 .. Len(gs) - (k + 1) + 1 /\ (k + 1) + i - 1 = i + k /\ i + k \in 1..Len(gs)  BY <1>1, <2>1, <3>1
    <3> QED BY <1>1, <2>4, <3>2
  <2> QED BY <2>4, <2>6
<1> QED BY <1>3, <1>4

\* An id that was given out is not the next one.
LEMMA NotTheNext == \A n, y \in Nat : y <= n => y # n + 1
OBVIOUS

\* A new grant joins what trim_grants and refresh_expired left.
LEMMA NewGrantRenews ==
  ASSUME ControlInv, NEW gs \in Seq(GrantType), Later(grants, gs), NEW g \in GrantType,
         g.id = nextId + 1, g.uses = 0, g.ran = 0, g.max = 0,
         grants' = Append(Trimmed(gs), g), nextId' = nextId + 1
  PROVE  Renews
<1>1. nextId \in Nat /\ GrantInv /\ grants \in Seq(GrantType)  BY DEF ControlInv, ControlTypeOK
<1>2. PICK t \in Seq(GrantType) : t = Trimmed(gs)  BY TrimFacts
<1>3. PICK k \in Nat : \A i \in DOMAIN t : i + k \in DOMAIN gs /\ t[i] = gs[i + k]  BY <1>2, TrimFacts
<1>4. /\ grants' \in Seq(GrantType) /\ Len(grants') = Len(t) + 1
      /\ \A i \in 1..Len(t) : grants'[i] = t[i]
      /\ grants'[Len(t) + 1] = g
  BY <1>2, AppendProperties
<1>5. Len(t) \in Nat /\ DOMAIN t = 1..Len(t) /\ DOMAIN grants' = 1..Len(t) + 1  BY <1>4, StoreIsList
<1>6. ASSUME NEW j \in DOMAIN t
      PROVE  j + k \in DOMAIN grants /\ grants'[j] = gs[j + k] /\ Follows(grants[j + k], grants'[j])
  BY <1>3, <1>4, <1>5 DEF Later
<1>7. ASSUME NEW j \in DOMAIN t PROVE grants'[j].id = grants[j + k].id /\ grants'[j].id \in Nat /\ grants'[j].id <= nextId
  <2>1. grants[j + k].id \in Nat /\ grants[j + k].id <= nextId  BY <1>1, <1>6, StoreIsList DEF GrantInv, GrantType
  <2> QED BY <1>6, <2>1 DEF Follows
<1>8. ASSUME NEW i \in DOMAIN grants', NEW j \in DOMAIN grants', grants'[i].id = grants'[j].id PROVE i = j
  <2>1. CASE i \in DOMAIN t /\ j \in DOMAIN t
    <3>1. i + k \in DOMAIN grants /\ j + k \in DOMAIN grants /\ grants[i + k].id = grants[j + k].id  BY <1>6, <1>7, <1>8, <2>1
    <3>4. \A a, b \in DOMAIN grants : grants[a].id = grants[b].id => a = b  BY <1>1 DEF GrantInv
    <3>2. i + k = j + k  BY <3>1, <3>4, Zenon
    <3>3. i \in Nat /\ j \in Nat  BY <1>5, <2>1
    <3> QED BY <3>2, <3>3
  <2>2. CASE i \notin DOMAIN t \/ j \notin DOMAIN t
    <3>1. \A x \in DOMAIN grants' : x \notin DOMAIN t => x = Len(t) + 1 /\ grants'[x].id = nextId + 1  BY <1>4, <1>5
    <3>2. ASSUME NEW x \in DOMAIN t PROVE grants'[x].id # nextId + 1
      <4>1. grants'[x].id \in Nat /\ grants'[x].id <= nextId /\ nextId \in Nat  BY <1>1, <1>7
      <4> QED BY <4>1, NotTheNext, Zenon
    <3> QED BY <1>8, <2>2, <3>1, <3>2
  <2> QED BY <2>1, <2>2
<1>9. ASSUME NEW j \in DOMAIN grants'
      PROVE  \/ \E i \in DOMAIN grants : Follows(grants[i], grants'[j])
             \/ nextId < grants'[j].id /\ grants'[j].id <= nextId' /\ WithinUses(grants'[j])
  <2>1. CASE j \in DOMAIN t  BY <1>6, <2>1
  <2>2. CASE j \notin DOMAIN t
    <3>1. grants'[j] = g  BY <1>4, <1>5, <2>2
    <3>2. WithinUses(g)  BY DEF WithinUses
    <3> QED BY <1>1, <3>1, <3>2
  <2> QED BY <2>1, <2>2
<1> QED BY <1>1, <1>4, <1>8, <1>9 DEF Renews

\* requestAgentGrant.
LEMMA RequestKeeps ==
  ASSUME ControlInv, NEW c \in Conns, NEW op \in ControlOps, NEW cap \in Caps, NEW once \in NonIdempotent,
         RequestGrant(c, op, cap, once, allowed_approval_options(cap, once))
  PROVE  Renews /\ ControlInv'
<1> DEFINE gs == Refreshed(grants)
           denied == Newest(gs, op, cap, {"denied"})
           usable == Newest(gs, op, cap, Live)
           waiting(id) == [IdleConn EXCEPT !.pc = "waiting", !.op = op, !.ids = {id}]
           new == [id |-> nextId + 1, op |-> op, cap |-> cap, status |-> "pending", uses |-> 0, max |-> 0, ran |-> 0,
                   past |-> FALSE, options |-> allowed_approval_options(cap, once), nonIdempotent |-> once]
<1>1. UNCHANGED <<config, writer>>  BY DEF RequestGrant
<1>2. grants \in Seq(GrantType) /\ nextId \in Nat /\ GrantInv /\ ControlTypeOK  BY DEF ControlInv, ControlTypeOK
<1>3. Later(grants, gs) /\ gs \in Seq(GrantType)  BY <1>2, RefreshedFollows DEF Later
<1>4. \/ /\ denied # 0 \/ usable # 0
         /\ grants' = gs /\ nextId' = nextId
         /\ conn' = [conn EXCEPT ![c] = IF denied = 0 /\ gs[usable].status = "pending" THEN waiting(gs[usable].id) ELSE IdleConn]
      \/ /\ nextId' = nextId + 1 /\ grants' = Append(Trimmed(gs), new)
         /\ conn' \in {[conn EXCEPT ![c] = waiting(nextId + 1)], [conn EXCEPT ![c] = IdleConn]}
  BY DEF RequestGrant
<1>5. ASSUME NEW id \in Nat
      PROVE  /\ waiting(id) \in ConnType /\ waiting(id).pc = "waiting" /\ waiting(id).ids = {id}
             /\ waiting(id).use = {} /\ waiting(id).barred = {}
  BY DEF IdleConn, ConnType, PCs
<1>6. new \in GrantType /\ new.id = nextId + 1 /\ new.uses = 0 /\ new.ran = 0 /\ new.max = 0
  <2>1. allowed_approval_options(cap, once) \subseteq Options /\ once \in BOOLEAN
    BY ControlAssumption DEF allowed_approval_options, Options
  <2> QED BY <1>2, <2>1 DEF GrantType, Statuses, Live
<1> HIDE DEF gs, denied, usable, waiting, new
<1>7. ASSUME Renews, NEW id \in Nat, id <= nextId', conn' = [conn EXCEPT ![c] = waiting(id)] PROVE ControlInv'
  <2>1. PICK s \in ConnType : s = waiting(id)  BY <1>5
  <2>2. s.pc = "waiting" /\ s.ids = {id} /\ s.use = {} /\ s.barred = {}  BY <1>5, <2>1
  <2>3. Presents(s)' /\ Stopped(s)'  BY <1>7, <2>2, AtRest
  <2> QED BY <1>1, <1>7, <2>1, <2>2, <2>3, OneChanges
<1>8. CASE /\ denied # 0 \/ usable # 0
           /\ grants' = gs /\ nextId' = nextId
           /\ conn' = [conn EXCEPT ![c] = IF denied = 0 /\ gs[usable].status = "pending" THEN waiting(gs[usable].id) ELSE IdleConn]
  <2>1. Renews  BY <1>2, <1>3, <1>8, LaterRenews
  <2>2. CASE denied = 0 /\ gs[usable].status = "pending"
    <3>1. usable \in DOMAIN gs  BY <1>3, <1>8, <2>2, NewestFound DEF usable
    <3>2. gs[usable].id \in Nat /\ gs[usable].id <= nextId'
      <4>1. gs[usable].id = grants[usable].id /\ usable \in DOMAIN grants  BY <1>3, <3>1 DEF Later, Follows
      <4>2. grants[usable].id \in Nat  BY <1>2, <4>1, StoreIsList DEF GrantType
      <4> QED BY <1>2, <1>8, <4>1, <4>2 DEF GrantInv
    <3> QED BY <1>7, <1>8, <2>1, <2>2, <3>2
  <2>3. CASE ~(denied = 0 /\ gs[usable].status = "pending")  BY <1>1, <1>8, <2>1, <2>3, AnswerKeeps
  <2> QED BY <2>1, <2>2, <2>3
<1>9. CASE /\ nextId' = nextId + 1 /\ grants' = Append(Trimmed(gs), new)
           /\ conn' \in {[conn EXCEPT ![c] = waiting(nextId + 1)], [conn EXCEPT ![c] = IdleConn]}
  <2>1. Renews
    <3>1. PICK g \in GrantType : g = new  BY <1>6
    <3> QED BY <1>3, <1>6, <1>9, <3>1, NewGrantRenews
  <2>2. CASE conn' = [conn EXCEPT ![c] = waiting(nextId + 1)]
    <3>1. nextId + 1 \in Nat /\ nextId + 1 <= nextId'  BY <1>2, <1>9
    <3> QED BY <1>7, <2>1, <2>2, <3>1
  <2>3. CASE conn' = [conn EXCEPT ![c] = IdleConn]  BY <1>1, <2>1, <2>3, AnswerKeeps
  <2> QED BY <1>9, <2>1, <2>2, <2>3
<1> QED BY <1>4, <1>8, <1>9

\* wait_for_grant, its time-out and the copy it stores then.
LEMMA WaitKeeps ==
  ASSUME ControlInv, NEW c \in Conns, WaitWake(c) \/ WaitTimeout(c) \/ WaitExpire(c)
  PROVE  Renews /\ ControlInv'
<1>0. grants \in Seq(GrantType) /\ nextId \in Nat /\ GrantInv /\ ControlTypeOK /\ conn \in [Conns -> ConnType]
  BY DEF ControlInv, ControlTypeOK
<1>1. PICK r \in ConnType : r = conn[c]  BY <1>0
<1>2. Presents(r)  BY <1>1 DEF ControlInv, ConnInv
<1>3. ASSUME WaitWake(c) PROVE Renews /\ ControlInv'
  <2>1. UNCHANGED <<config, grants, nextId, writer>> /\ r.pc = "waiting"  BY <1>1, <1>3 DEF WaitWake
  <2>2. Renews  BY <2>1, SameRenews
  <2> DEFINE s == [r EXCEPT !.woken = FALSE, !.copy = "pending"]
  <2>3. conn' = [conn EXCEPT ![c] = s] \/ conn' = [conn EXCEPT ![c] = IdleConn]  BY <1>1, <1>3 DEF WaitWake
  <2>4. s \in ConnType /\ s.pc = "waiting" /\ s.ids = r.ids /\ s.use = r.use /\ s.barred = r.barred  BY <2>1 DEF ConnType
  <2> HIDE DEF s
  <2>5. CASE conn' = [conn EXCEPT ![c] = s]
    <3>1. Presents(s)' /\ Stopped(s)'  BY <1>2, <2>1, <2>4, AtRest DEF Presents
    <3>2. PICK t \in ConnType : t = s  BY <2>4
    <3>3. Presents(t)' /\ Stopped(t)' /\ t.pc = "waiting"  BY <2>4, <3>1, <3>2
    <3> QED BY <2>1, <2>2, <2>5, <3>2, <3>3, OneChanges
  <2> QED BY <2>1, <2>2, <2>3, <2>5, AnswerKeeps
<1>4. ASSUME WaitTimeout(c) PROVE Renews /\ ControlInv'
  <2>1. UNCHANGED <<config, grants, nextId, writer>> /\ conn' = [conn EXCEPT ![c].pc = "timedOut"]  BY <1>4 DEF WaitTimeout
  <2>2. Renews  BY <2>1, SameRenews
  <2>3. PICK s \in ConnType : s = [r EXCEPT !.pc = "timedOut"]  BY DEF ConnType, PCs
  <2>4. s.pc = "timedOut" /\ s.ids = r.ids /\ s.use = r.use /\ s.barred = r.barred  BY <2>3 DEF ConnType
  <2>5. Presents(s)' /\ Stopped(s)'  BY <1>2, <2>1, <2>4, AtRest DEF Presents
  <2>6. conn' = [conn EXCEPT ![c] = s]  BY <1>1, <2>1, <2>3
  <2> QED BY <2>1, <2>2, <2>4, <2>5, <2>6, OneChanges
<1>5. ASSUME WaitExpire(c) PROVE Renews /\ ControlInv'
  <2>1. /\ UNCHANGED <<config, nextId, writer>> /\ conn' = NotifyAll([conn EXCEPT ![c] = IdleConn])
        /\ grants' = [i \in DOMAIN grants |-> IF grants[i].id \in conn[c].ids THEN TimedOutGrant(grants[i]) ELSE grants[i]]
    BY <1>5 DEF WaitExpire
  <2>2. ASSUME NEW i \in DOMAIN grants PROVE grants'[i] \in GrantType /\ Follows(grants[i], grants'[i])
    BY <1>0, <2>1, StoreIsList, ExpiredFollows, FollowsSelf
  <2>3. grants' \in [DOMAIN grants -> GrantType]  BY <2>1, <2>2
  <2>4. Later(grants, grants')  BY <1>0, <2>2, <2>3, MapFollows
  <2>5. Renews  BY <1>0, <2>1, <2>4, LaterRenews
  <2> QED BY <2>1, <2>5, AnswerKeeps
<1> QED BY <1>3, <1>4, <1>5

\* The i-th grant changes in an allowed way.
LEMMA OneGrantRenews ==
  ASSUME ControlInv, NEW i \in DOMAIN grants, NEW h, Follows(grants[i], h),
         grants' = [grants EXCEPT ![i] = h], nextId' = nextId
  PROVE  Renews
<1>1. grants \in Seq(GrantType) /\ ControlTypeOK /\ GrantInv  BY DEF ControlInv, ControlTypeOK
<1>2. \A j \in DOMAIN grants : grants[j] \in GrantType  BY <1>1, StoreIsList
<1>3. grants \in [DOMAIN grants -> GrantType]  BY <1>1, LenProperties
<1>4. h \in GrantType  BY DEF Follows
<1>5. grants' \in [DOMAIN grants -> GrantType] /\ grants'[i] = h /\ \A j \in DOMAIN grants \ {i} : grants'[j] = grants[j]
  BY <1>3, <1>4
<1>6. \A j \in DOMAIN grants : Follows(grants[j], grants'[j])  BY <1>2, <1>5, FollowsSelf
<1>7. Later(grants, grants')  BY <1>1, <1>5, <1>6, MapFollows
<1> QED BY <1>1, <1>7, LaterRenews

\* The user decides, or time passes: approve, deny, and the lapse of a window.
LEMMA DecideKeeps ==
  ASSUME ControlInv, NEW i \in DOMAIN grants, Deny(i) \/ GrantLapses(i) \/ \E option \in Options : Approve(i, option)
  PROVE  Renews /\ ControlInv'
<1>1. PICK g \in GrantType : g = grants[i]  BY StoreIsList DEF ControlInv, ControlTypeOK
<1>2. g.uses \in Nat /\ g.ran \in Nat /\ g.max \in Nat  BY DEF GrantType
<1>3. ASSUME Deny(i) PROVE Renews /\ ControlInv'
  <2>0. CASE grants[i].status # "pending"
    <3>1. UNCHANGED <<grants, config, nextId, writer>> /\ conn' \in {conn, NotifyAll(conn)}  BY <1>3, <2>0 DEF Deny, Told
    <3>2. Renews  BY <3>1, SameRenews
    <3> QED BY <3>1, <3>2, NoneChanges
  <2> SUFFICES ASSUME grants[i].status = "pending" PROVE Renews /\ ControlInv'  BY <2>0
  <2> DEFINE h == [g EXCEPT !.status = "denied", !.past = FALSE]
  <2>1. h \in GrantType /\ h.id = g.id /\ h.status = "denied" /\ h.uses = g.uses /\ h.ran = g.ran /\ h.max = g.max
    BY DEF GrantType, Statuses, Terminal
  <2>2. grants' = [grants EXCEPT ![i] = h] /\ conn' \in {conn, NotifyAll(conn)} /\ UNCHANGED <<config, nextId, writer>>
    BY <1>1, <1>3 DEF Deny, Told
  <2> HIDE DEF h
  <2>3. Follows(grants[i], h)  BY <1>1, <2>1 DEF Follows, WithinUses, Terminal
  <2>4. Renews  BY <2>2, <2>3, OneGrantRenews
  <2> QED BY <2>2, <2>4, NoneChanges
<1>4. ASSUME GrantLapses(i) PROVE Renews /\ ControlInv'
  <2> DEFINE h == [g EXCEPT !.past = TRUE]
  <2>1. h \in GrantType /\ h.id = g.id /\ h.status = g.status /\ h.uses = g.uses /\ h.ran = g.ran /\ h.max = g.max
    BY DEF GrantType
  <2>2. grants' = [grants EXCEPT ![i] = h] /\ UNCHANGED <<config, nextId, writer, conn>>  BY <1>1, <1>4 DEF GrantLapses
  <2> HIDE DEF h
  <2>3. Follows(grants[i], h)  BY <1>1, <2>1 DEF Follows, WithinUses
  <2>4. Renews  BY <2>2, <2>3, OneGrantRenews
  <2> QED BY <2>2, <2>4, NoneChanges
<1>5. ASSUME NEW option \in Options, Approve(i, option), grants[i].past PROVE Renews /\ ControlInv'
  <2> DEFINE h == [g EXCEPT !.status = "expired"]
  <2>1. h \in GrantType /\ h.id = g.id /\ h.status = "expired" /\ h.uses = g.uses /\ h.ran = g.ran /\ h.max = g.max
    BY DEF GrantType, Statuses, Terminal
  <2>2. grants' = [grants EXCEPT ![i] = h] /\ conn' \in {conn, NotifyAll(conn)} /\ UNCHANGED <<config, nextId, writer>>
    BY <1>1, <1>5 DEF Approve, Told
  <2> HIDE DEF h
  <2>3. Follows(grants[i], h)  BY <1>1, <2>1 DEF Follows, WithinUses, Terminal
  <2>4. Renews  BY <2>2, <2>3, OneGrantRenews
  <2> QED BY <2>2, <2>4, NoneChanges
<1>6. ASSUME NEW option \in Options, Approve(i, option), ~grants[i].past PROVE Renews /\ ControlInv'
  <2>0. PICK n \in Nat : n = OptionUses(option)  BY ControlAssumption DEF OptionUses
  <2> DEFINE h == [g EXCEPT !.status = "approved", !.uses = n, !.max = n]
  <2>1. h \in GrantType /\ h.id = g.id /\ h.status = "approved" /\ h.uses = n /\ h.ran = g.ran /\ h.max = n
    BY DEF GrantType, Statuses, Live
  <2>2. /\ grants' = [grants EXCEPT ![i] = h] /\ conn' \in {conn, NotifyAll(conn)} /\ UNCHANGED <<config, nextId, writer>>
        /\ g.status = "pending"
    <3>1. grants' = [grants EXCEPT ![i].status = "approved", ![i].uses = n, ![i].max = n]  BY <2>0, <1>6 DEF Approve
    <3>2. grants \in [DOMAIN grants -> GrantType]  BY LenProperties DEF ControlInv, ControlTypeOK
    <3>3. grants' = [grants EXCEPT ![i] = h]  BY <1>1, <3>1, <3>2
    <3> QED BY <1>1, <1>6, <3>3 DEF Approve, Told
  <2> HIDE DEF h
  <2>3. g.ran = 0 \/ ~WithinUses(g)  BY <2>2 DEF WithinUses
  <2>4. Follows(grants[i], h)  BY <1>1, <1>2, <2>1, <2>2, <2>3 DEF Follows, WithinUses, Terminal
  <2>5. Renews  BY <2>2, <2>4, OneGrantRenews
  <2> QED BY <2>2, <2>5, NoneChanges
<1> QED BY <1>3, <1>4, <1>5, <1>6

\* One use is spent, by an action or by a failure.
LEMMA SpendFollows ==
  ASSUME NEW g \in GrantType, NEW h \in GrantType, h.id = g.id, g.status \in {"approved", "executing"},
         h.status # "pending", h.uses = g.uses - 1, h.ran \in {g.ran, g.ran + 1}, h.max = g.max
  PROVE  Follows(g, h)
<1>1. PICK u \in Nat, r \in Nat, m \in Nat : u = g.uses /\ r = g.ran /\ m = g.max  BY DEF GrantType
<1>2. u + r <= m => (u - 1) + r <= m /\ (u - 1) + (r + 1) <= m  OBVIOUS
<1>3. g.uses + g.ran <= g.max => h.uses + h.ran <= h.max
  <2>1. CASE h.ran = g.ran  BY <1>1, <1>2, <2>1
  <2>2. CASE h.ran = g.ran + 1  BY <1>1, <1>2, <2>2
  <2> QED BY <2>1, <2>2
<1> QED BY <1>3 DEF Follows, WithinUses, Terminal

\* consume: one use of a grant for a read of the sidecar.
LEMMA ConsumeKeeps ==
  ASSUME ControlInv, NEW c \in Conns, NEW id \in Ids, Consume(c, id)
  PROVE  Renews /\ ControlInv'
<1>0. grants \in Seq(GrantType) /\ ControlTypeOK /\ GrantInv  BY DEF ControlInv, ControlTypeOK
<1>1. PICK gs \in Seq(GrantType) : gs = Refreshed(grants) /\ Later(grants, gs)  BY <1>0, RefreshedFollows DEF Later
<1>2. PICK i \in DOMAIN grants : grants[i].id = id  BY DEF Consume, Known
<1>3. Index(id) = i /\ i \in DOMAIN gs  BY <1>0, <1>1, <1>2, FoundById DEF Later
<1>4. PICK g \in GrantType : g = gs[i]  BY <1>3, StoreIsList
<1> DEFINE h == [g EXCEPT !.uses = @ - 1, !.ran = @ + 1, !.status = IF g.uses = 1 THEN "expired" ELSE @]
<1>5. /\ g.status = "approved" /\ g.uses > 0 /\ UNCHANGED <<config, nextId, writer>>
      /\ conn' = NotifyAll([conn EXCEPT ![c] = IdleConn])
      /\ grants' = [gs EXCEPT ![i].uses = @ - 1, ![i].ran = @ + 1, ![i].status = IF g.uses = 1 THEN "expired" ELSE @]
  BY <1>1, <1>3, <1>4 DEF Consume
<1>6. g.uses \in Nat /\ g.uses - 1 \in Nat /\ g.ran \in Nat /\ g.max \in Nat /\ g.ran + 1 \in Nat  BY <1>5 DEF GrantType
<1>7. h \in GrantType /\ h.id = g.id /\ h.status # "pending" /\ h.uses = g.uses - 1 /\ h.ran = g.ran + 1 /\ h.max = g.max
  BY <1>5, <1>6 DEF GrantType, Statuses, Live, Terminal
<1>8. gs \in [DOMAIN gs -> GrantType]  BY LenProperties
<1>9. grants' \in [DOMAIN gs -> GrantType] /\ grants'[i] = h /\ \A j \in DOMAIN gs \ {i} : grants'[j] = gs[j]
  BY <1>3, <1>4, <1>5, <1>7, <1>8
<1> HIDE DEF h
<1>10. Follows(gs[i], h)
  <2>1. Follows(g, h)  BY <1>5, <1>7, SpendFollows
  <2> QED BY <1>4, <2>1
<1>11. \A j \in DOMAIN gs : Follows(gs[j], grants'[j])  BY <1>8, <1>9, <1>10, FollowsSelf
<1>12. Later(gs, grants')  BY <1>9, <1>11, MapFollows
<1>13. Renews  BY <1>0, <1>1, <1>5, <1>12, LaterTwice, LaterRenews
<1> QED BY <1>5, <1>13, AnswerKeeps

\* revoke: the grant ends, and so do its uses by connections that have not run yet.
LEMMA RevokeKeeps ==
  ASSUME ControlInv, NEW i \in DOMAIN grants, Revoke(i)
  PROVE  Renews /\ ControlInv'
<1>0. grants \in Seq(GrantType) /\ conn \in [Conns -> ConnType] /\ GrantInv /\ ControlTypeOK  BY DEF ControlInv, ControlTypeOK
<1>1. PICK g \in GrantType : g = grants[i]  BY <1>0, StoreIsList
<1>a. CASE grants[i].status \notin Live
  <2>1. UNCHANGED <<grants, config, nextId, writer>> /\ conn' \in {conn, NotifyAll(conn)}  BY <1>a DEF Revoke, Told
  <2>2. Renews  BY <2>1, SameRenews
  <2> QED BY <2>1, <2>2, NoneChanges
<1> SUFFICES ASSUME grants[i].status \in Live PROVE Renews /\ ControlInv'  BY <1>a
<1> DEFINE h == [g EXCEPT !.status = "revoked", !.uses = 0]
<1>b. PICK f \in {conn, NotifyAll(conn)} : conn' = Bar(f, {grants[i].id})  BY DEF Revoke, Told
<1>2. h \in GrantType /\ h.id = g.id /\ h.status = "revoked" /\ h.uses = 0 /\ h.ran = g.ran /\ h.max = g.max
  BY DEF GrantType, Statuses, Terminal
<1>3. /\ grants' = [grants EXCEPT ![i] = h] /\ UNCHANGED <<config, nextId, writer>>
      /\ conn' = Bar(f, {g.id})
  BY <1>1, <1>b DEF Revoke
<1>4. f \in [Conns -> ConnType] /\ \A c \in Conns : Still(conn[c], f[c])  BY <1>0, <1>b, NotifyFacts DEF Still
<1>5. g.uses \in Nat /\ g.ran \in Nat /\ g.max \in Nat  BY DEF GrantType
<1> HIDE DEF h
<1>6. Follows(grants[i], h)  BY <1>1, <1>2, <1>5 DEF Follows, WithinUses, Terminal
<1>7. Renews  BY <1>3, <1>6, OneGrantRenews
<1>8. ASSUME NEW c \in Conns
      PROVE  /\ conn'[c] \in ConnType /\ conn'[c].pc = conn[c].pc /\ conn'[c].op = conn[c].op /\ conn'[c].ids = conn[c].ids
             /\ conn'[c].use = conn[c].use /\ conn'[c].cut = conn[c].cut
             /\ conn'[c].barred \subseteq conn[c].barred \cup (conn[c].ids \cap {g.id})
             /\ conn[c].pc \notin {"queued", "holding", "authorized"} => conn'[c].barred = conn[c].barred
  <2>1. PICK r \in ConnType : r = f[c]  BY <1>4
  <2>2. conn'[c] = IF r.pc \in {"queued", "holding", "authorized"} THEN [r EXCEPT !.barred = @ \cup ({g.id} \cap r.ids)] ELSE r
    BY <1>3, <2>1 DEF Bar
  <2>3. [r EXCEPT !.barred = @ \cup ({g.id} \cap r.ids)] \in ConnType  BY DEF ConnType
  <2>4. Still(conn[c], r)  BY <1>4, <2>1
  <2>5. CASE r.pc \in {"queued", "holding", "authorized"}  BY <2>2, <2>3, <2>4, <2>5 DEF Still, ConnType
  <2>6. CASE r.pc \notin {"queued", "holding", "authorized"}  BY <2>2, <2>4, <2>6 DEF Still
  <2> QED BY <2>5, <2>6
<1>9. conn' \in [Conns -> ConnType]  BY <1>3, <1>8 DEF Bar
<1>10. \A j \in DOMAIN grants' : grants'[j].id = g.id => grants'[j].status \in Terminal
  <2>1. DOMAIN grants' = DOMAIN grants /\ grants'[i] = h /\ \A j \in DOMAIN grants \ {i} : grants'[j] = grants[j]  BY <1>3
  <2> QED BY <1>0, <1>1, <1>2, <2>1 DEF GrantInv, Terminal
<1>11. ASSUME NEW c \in Conns PROVE Presents(conn[c])' /\ Stopped(conn[c])'
  <2>0. PICK r \in ConnType : r = conn[c]  BY <1>0
  <2>1. Presents(r)' /\ Stopped(r)'
    <3>1. Still(r, r) /\ Presents(r) /\ Stopped(r)  BY <2>0 DEF Still, ControlInv, ConnInv
    <3>2. r.pc \in {"queued", "holding"} /\ r.cut => config'.perms = {} /\ config'.ask = {}  BY <1>3, <3>1 DEF Stopped
    <3> QED BY <1>0, <1>7, <3>1, <3>2, StillStopped
  <2>2. Presents(conn[c])'  BY <1>8, <2>0, <2>1 DEF Presents
  <2>3. Stopped(conn[c])'
    <3>1. ASSUME conn'[c].pc \in {"queued", "holding", "authorized"}, NEW j \in DOMAIN grants', grants'[j].id \in conn'[c].barred
          PROVE  grants'[j].status \in Terminal
      <4>1. grants'[j].id \in r.barred \/ grants'[j].id = g.id  BY <1>8, <2>0, <3>1
      <4> QED BY <1>8, <1>10, <2>0, <2>1, <3>1, <4>1 DEF Stopped
    <3>2. conn'[c].pc = "running" => conn'[c].use \cap conn'[c].barred = {}  BY <1>8, <2>0, <2>1 DEF Stopped
    <3>3. /\ conn'[c].pc \in {"queued", "holding"} /\ conn'[c].cut => config'.perms = {} /\ config'.ask = {}
          /\ conn'[c].pc \in {"authorized", "running"} /\ conn'[c].cut => Needs[conn'[c].op] = {}
      BY <1>8, <2>0, <2>1 DEF Stopped
    <3> QED BY <3>1, <3>2, <3>3 DEF Stopped
  <2> QED BY <2>2, <2>3
<1>12. Exclusive'  BY <1>3, <1>8 DEF ControlInv, Exclusive
<1>13. PICK D : D = Conns  OBVIOUS
<1>14. (\A c \in Conns \cap D : Presents(conn[c])' /\ Stopped(conn[c])') /\ Conns \ D = {}  BY <1>11, <1>13
<1>15. config' \in [enabled : BOOLEAN, perms : SUBSET Caps, ask : SUBSET Caps]  BY <1>0, <1>3 DEF ControlTypeOK
<1>16. ControlInv'  BY <1>7, <1>9, <1>12, <1>14, <1>15, StepKeeps
<1> QED BY <1>7, <1>16

\* The grants an action will use are among those it presented.
LEMMA UsesPresented == ASSUME NEW op, NEW ids PROVE GrantsFor(op, ids) \subseteq ids
BY DEF GrantsFor, Authorized

\* authorize leaves a store with the same grants.
LEMMA ConsultedRenews ==
  ASSUME ControlInv, NEW op, NEW ids, NEW passed, grants' \in StoreAfter(op, ids, passed), nextId' = nextId
  PROVE  Renews
<1>1. ControlTypeOK /\ GrantInv /\ grants \in Seq(GrantType)  BY DEF ControlInv, ControlTypeOK
<1>2. Later(grants, grants')  BY <1>1, RefreshedFollows DEF StoreAfter, Consulted
<1> QED BY <1>1, <1>2, LaterRenews

\* The first preflight.
LEMMA SubmitKeeps ==
  ASSUME ControlInv, NEW c \in Conns, NEW op \in ControlOps, NEW ids \in SUBSET {grants[i].id : i \in DOMAIN grants},
         Submit(c, op, ids)
  PROVE  Renews /\ ControlInv'
<1>1. PICK passed : grants' \in StoreAfter(op, ids, passed) /\ UNCHANGED <<config, nextId, writer>>  BY DEF Submit
<1>2. Renews  BY <1>1, ConsultedRenews
<1> DEFINE started == [IdleConn EXCEPT !.op = op, !.ids = ids]
<1>3. ids \subseteq Nat /\ \A id \in ids : id <= nextId'
  <2>1. \A i \in DOMAIN grants : grants[i].id \in Nat /\ grants[i].id <= nextId
    BY StoreIsList DEF ControlInv, ControlTypeOK, GrantType, GrantInv
  <2> QED BY <1>1, <2>1
<1>4. PICK r \in ConnType : /\ r = started /\ r.op = op /\ r.ids = ids /\ r.use = {} /\ r.barred = {} /\ r.cut = FALSE
  <2>1. PICK d \in ConnType : d = IdleConn /\ d.use = {} /\ d.barred = {} /\ d.cut = FALSE  BY IdleIsTyped
  <2>2. [d EXCEPT !.op = op, !.ids = ids] \in ConnType  BY <1>3 DEF ConnType
  <2> QED BY <2>1, <2>2 DEF ConnType
<1>5. PICK s \in ConnType :
        /\ conn' = [conn EXCEPT ![c] = s] /\ s.op = op /\ s.ids = ids /\ s.use \subseteq ids /\ s.barred = {} /\ s.cut = FALSE
        /\ s.pc \in {"answer", "queued"} \/ (s.pc = "authorized" /\ op \in Reads)
  <2>1. \/ conn' = [conn EXCEPT ![c] = [r EXCEPT !.pc = "answer", !.copy = "settled"]]
        \/ conn' = [conn EXCEPT ![c] = [r EXCEPT !.pc = "authorized", !.use = GrantsFor(op, ids)]] /\ op \in Reads
        \/ conn' = [conn EXCEPT ![c] = [r EXCEPT !.pc = "queued"]]
    BY <1>4 DEF Submit
  <2> HIDE DEF started
  <2>2. PICK s1 \in ConnType : s1 = [r EXCEPT !.pc = "answer", !.copy = "settled"]  BY DEF ConnType, PCs
  <2>3. PICK s2 \in ConnType : s2 = [r EXCEPT !.pc = "authorized", !.use = GrantsFor(op, ids)]
    <3>1. GrantsFor(op, ids) \in SUBSET Nat  BY <1>3, UsesPresented
    <3> QED BY <3>1 DEF ConnType, PCs
  <2>4. PICK s3 \in ConnType : s3 = [r EXCEPT !.pc = "queued"]  BY DEF ConnType, PCs
  <2>5. CASE conn' = [conn EXCEPT ![c] = s1]  BY <1>4, <2>2, <2>5 DEF ConnType
  <2>6. CASE conn' = [conn EXCEPT ![c] = s2] /\ op \in Reads
    <3>1. s2.use \subseteq ids  BY <2>3, UsesPresented DEF ConnType
    <3> QED BY <1>4, <2>3, <2>6, <3>1 DEF ConnType
  <2>7. CASE conn' = [conn EXCEPT ![c] = s3]  BY <1>4, <2>4, <2>7 DEF ConnType
  <2> QED BY <2>1, <2>2, <2>3, <2>4, <2>5, <2>6, <2>7
<1>6. Presents(s)' /\ Stopped(s)'  BY <1>3, <1>5 DEF Presents, Stopped
<1>7. ControlInv'  BY <1>1, <1>2, <1>5, <1>6, OneChanges
<1> QED BY <1>2, <1>7

\* write_lock is taken by one at a time.
LEMMA TakeKeeps == ASSUME ControlInv, NEW c \in Conns, TakeLock(c) PROVE Renews /\ ControlInv'
<1>0. conn \in [Conns -> ConnType] /\ ControlTypeOK /\ Exclusive  BY DEF ControlInv, ControlTypeOK
<1>1. /\ conn[c].pc = "queued" /\ writer = {} /\ writer' = {c} /\ conn' = [conn EXCEPT ![c].pc = "holding"]
      /\ UNCHANGED <<config, grants, nextId>>
  BY DEF TakeLock
<1>2. Renews  BY <1>1, SameRenews
<1>3. PICK r \in ConnType : r = conn[c]  BY <1>0
<1>4. PICK s \in ConnType : s = [r EXCEPT !.pc = "holding"]  BY DEF ConnType, PCs
<1>5. /\ s.pc = "holding" /\ s.op = r.op /\ s.ids = r.ids /\ s.use = r.use /\ s.barred = r.barred /\ s.cut = r.cut
      /\ conn' = [conn EXCEPT ![c] = s]
  BY <1>1, <1>3, <1>4 DEF ConnType
<1>6. conn' \in [Conns -> ConnType] /\ conn'[c] = s /\ \A d \in Conns \ {c} : conn'[d] = conn[d]  BY <1>0, <1>5
<1>7. Presents(s)' /\ Stopped(s)'
  <2>1. Presents(r) /\ Stopped(r) /\ r.pc = "queued"  BY <1>1, <1>3 DEF ControlInv, ConnInv
  <2> QED BY <1>1, <1>5, <2>1 DEF Presents, Stopped
<1>8. Presents(conn[c])' /\ Stopped(conn[c])'  BY <1>6, <1>7 DEF Presents, Stopped
<1>9. Exclusive'  BY <1>0, <1>1, <1>6 DEF Exclusive
<1>10. PICK D : D = {c}  OBVIOUS
<1>11. /\ \A d \in Conns \ D : Still(conn[d], conn'[d])
       /\ \A d \in Conns \ D : conn[d].pc \in {"queued", "holding"} /\ conn[d].cut => config'.perms = {} /\ config'.ask = {}
  <2>1. \A d \in Conns \ D : Still(conn[d], conn'[d])  BY <1>0, <1>6, <1>10 DEF Still
  <2> QED BY <1>1, <2>1 DEF ControlInv, ConnInv, Stopped
<1>12. \A d \in Conns \cap D : Presents(conn[d])' /\ Stopped(conn[d])'  BY <1>8, <1>10
<1>13. config' \in [enabled : BOOLEAN, perms : SUBSET Caps, ask : SUBSET Caps]  BY <1>0, <1>1 DEF ControlTypeOK
<1>14. ControlInv'  BY <1>2, <1>6, <1>9, <1>11, <1>12, <1>13, StepKeeps
<1> QED BY <1>2, <1>14

\* A request that ends before it runs, or has run, and gives write_lock back.
LEMMA EndsKeeps ==
  ASSUME ControlInv, Renews, NEW c \in Conns, NEW copy \in {"settled", "unknown"}, UNCHANGED config,
         conn' = [conn EXCEPT ![c].pc = "answer", ![c].copy = copy], writer' = Unlocked(c)
  PROVE  ControlInv'
<1>0. conn \in [Conns -> ConnType] /\ ControlTypeOK  BY DEF ControlInv, ControlTypeOK
<1>1. PICK r \in ConnType : r = conn[c]  BY <1>0
<1>2. PICK s \in ConnType : s = [r EXCEPT !.pc = "answer", !.copy = copy]  BY DEF ConnType, PCs
<1>3. s.pc = "answer" /\ s.ids = r.ids /\ s.use = r.use /\ s.barred = r.barred  BY <1>2 DEF ConnType
<1>4. conn' = [conn EXCEPT ![c] = s]  BY <1>0, <1>1, <1>2
<1>5. Presents(s)' /\ Stopped(s)'
  <2>1. Presents(r) /\ r.ids \subseteq Nat  BY <1>1, ConnFields DEF ControlInv, ConnInv
  <2>2. nextId \in Nat /\ nextId' \in Nat /\ nextId <= nextId'  BY <1>0 DEF ControlTypeOK, Renews
  <2>3. \A id \in s.ids : id <= nextId'  BY <1>3, <2>1, <2>2 DEF Presents
  <2> QED BY <1>3, <2>1, <2>3, AtRest DEF Presents
<1> QED BY <1>3, <1>4, <1>5, OneChanges

\* The second preflight, under write_lock: nothing passes while control is revoked.
LEMMA RecheckKeeps == ASSUME ControlInv, NEW c \in Conns, Recheck(c) PROVE Renews /\ ControlInv'
<1>0. conn \in [Conns -> ConnType] /\ ControlTypeOK /\ Exclusive  BY DEF ControlInv, ControlTypeOK
<1>1. PICK passed \in {FALSE, StillAllowed(c)} :
        /\ conn[c].pc = "holding" /\ grants' \in StoreAfter(conn[c].op, conn[c].ids, passed) /\ UNCHANGED <<config, nextId>>
        /\ passed => conn' = [conn EXCEPT ![c].pc = "authorized", ![c].use = GrantsFor(conn[c].op, conn[c].ids)] /\ UNCHANGED writer
        /\ ~passed => conn' = [conn EXCEPT ![c].pc = "answer", ![c].copy = "settled"] /\ writer' = Unlocked(c)
  BY DEF Recheck
<1>2. Renews
  <2>1. PICK op, ids : op = conn[c].op /\ ids = conn[c].ids  OBVIOUS
  <2> QED BY <1>1, <2>1, ConsultedRenews
<1>3. PICK r \in ConnType : r = conn[c]  BY <1>0
<1>4. Presents(r) /\ Stopped(r)  BY <1>3 DEF ControlInv, ConnInv
<1>5. CASE ~passed
  <2>1. conn' = [conn EXCEPT ![c].pc = "answer", ![c].copy = "settled"] /\ writer' = Unlocked(c)  BY <1>1, <1>5
  <2>2. PICK copy \in {"settled", "unknown"} : copy = "settled"  OBVIOUS
  <2> QED BY <1>1, <1>2, <2>1, <2>2, EndsKeeps
<1>6. CASE passed
  <2>0. StillAllowed(c)  BY <1>6
  <2> DEFINE use == GrantsFor(r.op, r.ids)
  <2>1. conn' = [conn EXCEPT ![c].pc = "authorized", ![c].use = use] /\ writer' = writer  BY <1>1, <1>3, <1>6
  <2>2. use \subseteq r.ids /\ r.ids \subseteq Nat  BY UsesPresented, ConnFields
  <2> HIDE DEF use
  <2>3. PICK s \in ConnType : s = [r EXCEPT !.pc = "authorized", !.use = use]  BY <2>2 DEF ConnType, PCs
  <2>4. s.pc = "authorized" /\ s.op = r.op /\ s.ids = r.ids /\ s.use = use /\ s.barred = r.barred /\ s.cut = r.cut
    BY <2>3 DEF ConnType
  <2>5. conn' = [conn EXCEPT ![c] = s]  BY <1>0, <1>3, <2>1, <2>3
  <2>6. r.cut => Needs[r.op] = {}
    <3>1. Missing(r.op) \subseteq config.ask  BY <1>3, <2>0 DEF StillAllowed, Preflight
    <3>2. r.cut => config.perms = {} /\ config.ask = {}  BY <1>1, <1>3, <1>4 DEF Stopped
    <3> QED BY <3>1, <3>2 DEF Missing
  <2>7. Presents(r)' /\ Stopped(r)'
    <3>1. Still(r, r) /\ ControlTypeOK /\ GrantInv  BY DEF Still, ControlInv
    <3>2. r.pc \in {"queued", "holding"} /\ r.cut => config'.perms = {} /\ config'.ask = {}  BY <1>1, <1>4 DEF Stopped
    <3> QED BY <1>2, <1>4, <3>1, <3>2, StillStopped
  <2>8. Presents(s)' /\ Stopped(s)'  BY <1>1, <1>3, <2>2, <2>4, <2>6, <2>7 DEF Presents, Stopped
  <2>9. s.op \notin Reads => c \in writer'  BY <1>0, <1>1, <1>3, <2>1, <2>4 DEF Exclusive
  <2> QED BY <1>1, <1>2, <2>1, <2>5, <2>8, <2>9, OneChanges
<1> QED BY <1>5, <1>6

\* A grant that can be reserved is approved and has a use left.
LEMMA ReservableGrant ==
  ASSUME GrantInv, NEW use, Reservable(use), NEW i \in DOMAIN grants, grants[i].id \in use
  PROVE  grants[i].status \in {"approved", "executing"} /\ grants[i].uses > 0
BY FoundById DEF Reservable

\* mark_executing spends one use of each grant, ran or not.
LEMMA ReserveRenews ==
  ASSUME ControlInv, NEW use, Reservable(use), nextId' = nextId,
         grants' \in {Reserved(use), Ran(Reserved(use), use)}
  PROVE  Renews
<1>0. grants \in Seq(GrantType) /\ ControlTypeOK /\ GrantInv  BY DEF ControlInv, ControlTypeOK
<1>1. DOMAIN grants' = DOMAIN grants /\ grants' = [i \in DOMAIN grants |-> grants'[i]]  BY DEF Reserved, Ran
<1>2. ASSUME NEW i \in DOMAIN grants PROVE grants'[i] \in GrantType /\ Follows(grants[i], grants'[i])
  <2>1. PICK g \in GrantType : g = grants[i]  BY <1>0, StoreIsList
  <2>2. CASE g.id \notin use
    <3>1. grants'[i] = g  BY <2>1, <2>2 DEF Reserved, Ran
    <3> QED BY <2>1, <3>1, FollowsSelf
  <2>3. CASE g.id \in use
    <3>1. g.status \in {"approved", "executing"} /\ g.uses > 0  BY <1>0, <2>1, <2>3, ReservableGrant
    <3>2. g.uses \in Nat /\ g.uses - 1 \in Nat /\ g.ran \in Nat /\ g.ran + 1 \in Nat  BY <3>1 DEF GrantType
    <3>3. PICK h \in GrantType : h = [g EXCEPT !.status = "executing", !.uses = @ - 1]  BY <3>2 DEF GrantType, Statuses, Live
    <3>4. PICK k \in GrantType : k = [h EXCEPT !.ran = @ + 1]  BY <3>2, <3>3 DEF GrantType
    <3>5. h.id = g.id /\ h.status = "executing" /\ h.uses = g.uses - 1 /\ h.ran = g.ran /\ h.max = g.max  BY <3>3 DEF GrantType
    <3>6. k.id = g.id /\ k.status = "executing" /\ k.uses = g.uses - 1 /\ k.ran = g.ran + 1 /\ k.max = g.max
      BY <3>4, <3>5 DEF GrantType
    <3>7. Follows(g, h) /\ Follows(g, k)  BY <3>1, <3>5, <3>6, SpendFollows
    <3>8. Reserved(use)[i] = h  BY <2>1, <2>3, <3>3 DEF Reserved
    <3>9. Ran(Reserved(use), use)[i] = k
      <4>1. DOMAIN Reserved(use) = DOMAIN grants  BY DEF Reserved
      <4> QED BY <2>3, <3>4, <3>5, <3>8, <4>1 DEF Ran
    <3> QED BY <2>1, <3>7, <3>8, <3>9
  <2> QED BY <2>2, <2>3
<1>3. grants' \in [DOMAIN grants -> GrantType]  BY <1>1, <1>2
<1>4. Later(grants, grants')  BY <1>0, <1>2, <1>3, MapFollows
<1> QED BY <1>0, <1>4, LaterRenews

\* mark_executing and dispatch: a grant that was revoked cannot be reserved.
LEMMA ExecuteKeeps == ASSUME ControlInv, NEW c \in Conns, Execute(c) PROVE Renews /\ ControlInv'
<1>0. conn \in [Conns -> ConnType] /\ ControlTypeOK /\ Exclusive /\ GrantInv  BY DEF ControlInv, ControlTypeOK
<1>1. PICK r \in ConnType : r = conn[c]  BY <1>0
<1>2. r.pc = "authorized" /\ UNCHANGED <<config, nextId>> /\ Presents(r) /\ Stopped(r)  BY <1>1 DEF Execute, ControlInv, ConnInv
<1>3. PICK use : use = r.use  OBVIOUS
<1>4. CASE /\ Reservable(use) /\ grants' = Ran(Reserved(use), use)
           /\ conn' = [conn EXCEPT ![c].pc = "running"] /\ UNCHANGED writer
  <2>1. Renews  BY <1>2, <1>4, ReserveRenews
  <2>2. PICK s \in ConnType : s = [r EXCEPT !.pc = "running"]  BY DEF ConnType, PCs
  <2>3. s.pc = "running" /\ s.op = r.op /\ s.ids = r.ids /\ s.use = r.use /\ s.barred = r.barred /\ s.cut = r.cut
    BY <2>2 DEF ConnType
  <2>4. conn' = [conn EXCEPT ![c] = s]  BY <1>0, <1>1, <1>4, <2>2
  <2>5. r.use \cap r.barred = {}
    <3> SUFFICES ASSUME NEW id, id \in r.use, id \in r.barred PROVE FALSE  OBVIOUS
    <3>1. Known(id)  BY <1>3, <1>4 DEF Reservable
    <3>2. PICK i \in DOMAIN grants : grants[i].id = id  BY <3>1 DEF Known
    <3>3. grants[i].status \in {"approved", "executing"}  BY <1>0, <1>3, <1>4, <3>2, ReservableGrant
    <3>4. grants[i].status \in Terminal  BY <1>2, <3>2 DEF Stopped
    <3> QED BY <3>3, <3>4 DEF Terminal
  <2>6. Presents(s)' /\ Stopped(s)'  BY <1>2, <2>3, <2>5 DEF Presents, Stopped
  <2>7. s.op \notin Reads => c \in writer'  BY <1>0, <1>1, <1>2, <1>4, <2>3 DEF Exclusive
  <2> QED BY <1>2, <1>4, <2>1, <2>4, <2>6, <2>7, OneChanges
<1>5. CASE /\ grants' = IF Reservable(use) THEN Reserved(use) ELSE grants
           /\ conn' = [conn EXCEPT ![c].pc = "answer", ![c].copy = "settled"] /\ writer' = Unlocked(c)
  <2>1. Renews  BY <1>2, <1>5, ReserveRenews, SameRenews
  <2>2. PICK copy \in {"settled", "unknown"} : copy = "settled"  OBVIOUS
  <2> QED BY <1>2, <1>5, <2>1, <2>2, EndsKeeps
<1> QED BY <1>1, <1>3, <1>4, <1>5 DEF Execute

\* dispatch returns, then finish: only a grant that is still executing changes.
LEMMA FinishKeeps ==
  ASSUME ControlInv, NEW c \in Conns, Answer(c) \/ \E outcome \in {"settled", "unknown"} : ReturnResult(c, outcome)
  PROVE  Renews /\ ControlInv'
<1>0. grants \in Seq(GrantType) /\ conn \in [Conns -> ConnType] /\ ControlTypeOK /\ GrantInv  BY DEF ControlInv, ControlTypeOK
<1>1. ASSUME NEW outcome \in {"settled", "unknown"}, ReturnResult(c, outcome) PROVE Renews /\ ControlInv'
  <2>1. Renews  BY <1>1, SameRenews DEF ReturnResult
  <2> QED BY <1>1, <2>1, EndsKeeps DEF ReturnResult
<1>2. ASSUME Answer(c) PROVE Renews /\ ControlInv'
  <2>1. /\ grants' = [i \in DOMAIN grants |-> IF grants[i].id \in conn[c].ids THEN Completed(grants[i], conn[c].copy) ELSE grants[i]]
        /\ conn' = NotifyAll([conn EXCEPT ![c] = IdleConn]) /\ UNCHANGED <<config, nextId, writer>>
    BY <1>2 DEF Answer
  <2>2. ASSUME NEW g \in GrantType, NEW outcome PROVE Completed(g, outcome) \in GrantType /\ Follows(g, Completed(g, outcome))
    <3>1. CASE g.status # "executing"  BY <3>1, FollowsSelf DEF Completed
    <3>2. CASE g.status = "executing"
      <4>1. PICK status \in Statuses : /\ status = IF outcome = "unknown" THEN "unknown" ELSE IF g.uses > 0 THEN "approved" ELSE "expired"
                                       /\ status # "pending"
        BY DEF Statuses, Live, Terminal
      <4>2. PICK h \in GrantType : h = [g EXCEPT !.status = status]  BY DEF GrantType
      <4>3. h.id = g.id /\ h.status = status /\ h.uses = g.uses /\ h.ran = g.ran /\ h.max = g.max  BY <4>2 DEF GrantType
      <4>4. Follows(g, h)  BY <3>2, <4>1, <4>3 DEF Follows, WithinUses, Terminal
      <4>5. Completed(g, outcome) = h  BY <3>2, <4>1, <4>2 DEF Completed
      <4> QED BY <4>4, <4>5
    <3> QED BY <3>1, <3>2
  <2>3. ASSUME NEW i \in DOMAIN grants PROVE grants'[i] \in GrantType /\ Follows(grants[i], grants'[i])
    BY <1>0, <2>1, <2>2, StoreIsList, FollowsSelf
  <2>4. grants' \in [DOMAIN grants -> GrantType]  BY <2>1, <2>3
  <2>5. Later(grants, grants')  BY <1>0, <2>3, <2>4, MapFollows
  <2>6. Renews  BY <1>0, <2>1, <2>5, LaterRenews
  <2> QED BY <2>1, <2>6, AnswerKeeps
<1> QED BY <1>1, <1>2

\* New settings lift a revocation, a revocation of all control cuts what has not been
\* checked under the lock yet.
LEMMA SettingsKeep ==
  ASSUME ControlInv, NEW cut \in BOOLEAN,
         config' \in [enabled : BOOLEAN, perms : SUBSET Caps, ask : SUBSET Caps],
         cut => config'.perms = {} /\ config'.ask = {},
         conn' = [c \in Conns |-> IF conn[c].pc \in {"queued", "holding"} THEN [conn[c] EXCEPT !.cut = cut] ELSE conn[c]],
         UNCHANGED <<grants, nextId, writer>>
  PROVE  Renews /\ ControlInv'
<1>0. conn \in [Conns -> ConnType] /\ ControlTypeOK /\ Exclusive  BY DEF ControlInv, ControlTypeOK
<1>1. Renews  BY SameRenews
<1>2. ASSUME NEW c \in Conns
      PROVE  /\ conn'[c] \in ConnType /\ conn'[c].pc = conn[c].pc /\ conn'[c].op = conn[c].op /\ conn'[c].ids = conn[c].ids
             /\ conn'[c].use = conn[c].use /\ conn'[c].barred = conn[c].barred
             /\ conn'[c].cut = IF conn[c].pc \in {"queued", "holding"} THEN cut ELSE conn[c].cut
  <2>1. PICK r \in ConnType : r = conn[c]  BY <1>0
  <2>2. PICK s \in ConnType : s = [r EXCEPT !.cut = cut]  BY DEF ConnType
  <2>3. s.pc = r.pc /\ s.op = r.op /\ s.ids = r.ids /\ s.use = r.use /\ s.barred = r.barred /\ s.cut = cut  BY <2>2 DEF ConnType
  <2>4. conn'[c] = IF r.pc \in {"queued", "holding"} THEN s ELSE r  BY <2>1, <2>2
  <2> QED BY <2>1, <2>3, <2>4
<1>3. conn' \in [Conns -> ConnType]  BY <1>2
<1>4. ASSUME NEW c \in Conns PROVE Presents(conn[c])' /\ Stopped(conn[c])'
  <2>1. Presents(conn[c]) /\ Stopped(conn[c])  BY DEF ControlInv, ConnInv
  <2>2. Presents(conn[c])'  BY <1>2, <2>1 DEF Presents
  <2>3. Stopped(conn[c])'  BY <1>2, <2>1 DEF Stopped
  <2> QED BY <2>2, <2>3
<1>5. Exclusive'  BY <1>0, <1>2 DEF Exclusive
<1>6. PICK D : D = Conns  OBVIOUS
<1>7. (\A c \in Conns \cap D : Presents(conn[c])' /\ Stopped(conn[c])') /\ Conns \ D = {}  BY <1>4, <1>6
<1>8. ControlInv'  BY <1>1, <1>3, <1>5, <1>7, StepKeeps
<1> QED BY <1>1, <1>8

\* clear_grants leaves an empty store.
LEMMA ClearKeeps == ASSUME ControlInv, ClearGrants PROVE Renews /\ ControlInv'
<1>1. grants' = << >> /\ conn' = NotifyAll(conn) /\ UNCHANGED <<config, nextId, writer>>  BY DEF ClearGrants
<1>2. nextId \in Nat  BY DEF ControlInv, ControlTypeOK
<1>3. Renews  BY <1>1, <1>2, EmptySeq DEF Renews
<1> QED BY <1>1, <1>3, NoneChanges

\* update_agent_access_settings and revoke_agent_control_permissions.
LEMMA ConfigKeeps ==
  ASSUME ControlInv,
         \/ \E perms \in {{}, Caps} : UpdateSettings(TRUE, perms, Caps)
         \/ UpdateSettings(FALSE, Caps, {})
         \/ RevokeAll
  PROVE  Renews /\ ControlInv'
<1>1. ASSUME NEW enabled \in BOOLEAN, NEW perms \in SUBSET Caps, NEW ask \in SUBSET Caps, UpdateSettings(enabled, perms, ask)
      PROVE  Renews /\ ControlInv'
  <2>1. PICK cut \in BOOLEAN : cut = FALSE  OBVIOUS
  <2>2. conn' = [c \in Conns |-> IF conn[c].pc \in {"queued", "holding"} THEN [conn[c] EXCEPT !.cut = cut] ELSE conn[c]]
    BY <1>1, <2>1 DEF UpdateSettings
  <2>3. config' \in [enabled : BOOLEAN, perms : SUBSET Caps, ask : SUBSET Caps] /\ UNCHANGED <<grants, nextId, writer>>
    BY <1>1 DEF UpdateSettings
  <2> QED BY <2>1, <2>2, <2>3, SettingsKeep
<1>2. ASSUME RevokeAll PROVE Renews /\ ControlInv'
  <2>1. PICK cut \in BOOLEAN : cut = TRUE  OBVIOUS
  <2>2. conn' = [c \in Conns |-> IF conn[c].pc \in {"queued", "holding"} THEN [conn[c] EXCEPT !.cut = cut] ELSE conn[c]]
    BY <1>2, <2>1 DEF RevokeAll
  <2>3. /\ config' \in [enabled : BOOLEAN, perms : SUBSET Caps, ask : SUBSET Caps] /\ UNCHANGED <<grants, nextId, writer>>
        /\ config'.perms = {} /\ config'.ask = {}
    BY <1>2 DEF RevokeAll, ControlInv, ControlTypeOK
  <2> QED BY <2>1, <2>2, <2>3, SettingsKeep
<1> QED BY <1>1, <1>2

\* Every step renews the store and keeps the invariant.
LEMMA ControlStepKeeps == ControlInv /\ [ControlNext]_controlVars => Renews /\ ControlInv'
<1> SUFFICES ASSUME ControlInv, [ControlNext]_controlVars PROVE Renews /\ ControlInv'  OBVIOUS
<1>1. CASE UNCHANGED controlVars
  <2>1. Renews  BY <1>1, SameRenews DEF controlVars
  <2> QED BY <1>1, <2>1, NoneChanges DEF controlVars
<1>2. ASSUME NEW c \in Conns, ConnStep(c) PROVE Renews /\ ControlInv'
  BY <1>2, WaitKeeps, TakeKeeps, RecheckKeeps, ExecuteKeeps, FinishKeeps DEF ConnStep
<1>3. ASSUME NEW c \in Conns, NEW id \in Ids, Consume(c, id) PROVE Renews /\ ControlInv'  BY <1>3, ConsumeKeeps
<1>4. ASSUME NEW c \in Conns, NEW op \in ControlOps, NEW cap \in Caps, NEW once \in NonIdempotent,
             RequestGrant(c, op, cap, once, allowed_approval_options(cap, once))
      PROVE  Renews /\ ControlInv'
  BY <1>4, RequestKeeps
<1>5. ASSUME NEW c \in Conns, NEW op \in ControlOps, NEW ids \in SUBSET {grants[i].id : i \in DOMAIN grants}, Submit(c, op, ids)
      PROVE  Renews /\ ControlInv'
  BY <1>5, SubmitKeeps
<1>6. ASSUME NEW i \in DOMAIN grants, Deny(i) \/ Revoke(i) \/ GrantLapses(i) \/ \E option \in Options : Approve(i, option)
      PROVE  Renews /\ ControlInv'
  BY <1>6, DecideKeeps, RevokeKeeps
<1>7. ASSUME \/ \E perms \in {{}, Caps} : UpdateSettings(TRUE, perms, Caps)
             \/ UpdateSettings(FALSE, Caps, {}) \/ RevokeAll
      PROVE  Renews /\ ControlInv'
  BY <1>7, ConfigKeeps
<1>8. ASSUME ClearGrants PROVE Renews /\ ControlInv'  BY <1>8, ClearKeeps
<1> QED BY <1>1, <1>2, <1>3, <1>4, <1>5, <1>6, <1>7, <1>8 DEF ControlNext

\* In every state the ids of the grants are their own, a revoked grant bars who has not
\* run yet, and write_lock has one holder (agent_grants.rs, execute_request).
THEOREM ControlInvariant == ControlSpec => []ControlInv
<1>1. ControlInit => ControlInv  BY ControlStarts
<1>2. ControlInv /\ [ControlNext]_controlVars => ControlInv'  BY ControlStepKeeps
<1> QED BY <1>1, <1>2, PTL DEF ControlSpec

\* What the user approved bounds what runs: no grant pays for more actions than its
\* option allows, a request that was queued when its grant or all control was revoked
\* does not run, and writes run one at a time, for any number of connections and grants.
THEOREM ApprovalAlwaysBounds == ControlSpec => []ApprovalBoundsWork
<1>1. ControlInv => ApprovalBoundsWork
  <2> SUFFICES ASSUME ControlInv PROVE ApprovalBoundsWork  OBVIOUS
  <2>1. UsesWithinApproval  BY DEF ControlInv, GrantInv, WithinUses, UsesWithinApproval
  <2>2. \A c \in Conns : conn[c].pc = "running" =>
          conn[c].use \cap conn[c].barred = {} /\ (conn[c].cut => Needs[conn[c].op] = {})
    BY DEF ControlInv, ConnInv, Stopped
  <2> DEFINE W == {c \in Conns : conn[c].pc = "running" /\ conn[c].op \notin Reads}
  <2>3. \A c, d \in W : c = d  BY DEF ControlInv, Exclusive
  <2>4. Cardinality(W) <= 1
    <3>1. CASE W = {}  BY <3>1, FS_EmptySet
    <3>2. CASE W # {}
      <4>1. PICK c : c \in W  BY <3>2
      <4>2. W = {c}  BY <2>3, <4>1
      <4> HIDE DEF W
      <4> QED BY <4>2, FS_Singleton
    <3> QED BY <3>1, <3>2
  <2> QED BY <2>1, <2>2, <2>4 DEF ApprovalBoundsWork, RevocationStopsQueued
<1> QED BY <1>1, ControlInvariant, PTL

\* A grant that was denied, revoked or has expired never becomes usable again, whatever
\* finishes or times out late (finish, replace_grant).
THEOREM EndedStaysEnded == ControlSpec => TerminalIsFinal
<1> DEFINE Final == \A i \in DOMAIN grants, j \in DOMAIN grants' :
                      grants[i].id = grants'[j].id /\ grants[i].status \in Terminal => grants'[j].status \in Terminal
<1>1. ControlInv /\ [ControlNext]_controlVars => [Final]_controlVars
  <2> SUFFICES ASSUME ControlInv, [ControlNext]_controlVars PROVE Final  OBVIOUS
  <2>1. Renews /\ ControlTypeOK /\ GrantInv  BY ControlStepKeeps DEF ControlInv
  <2> QED BY <2>1, RenewsIsFinal
<1> QED BY <1>1, ControlInvariant, PTL DEF ControlSpec, TerminalIsFinal

-----------------------------------------------------------------------------
(* The channel of a tool call.                                             *)

Decisions == {"denied", "expired", "launchFailed", "disabled", "invalid", "approvalRequired"}
Outcomes == Decisions \cup {"none", "ok", "failed", "timeout", "unavailable", "auditUnavailable", "auditLost", "resultTooLarge"}
\* Where a call is before its request is with the desktop.
BeforeRequest == {"check", "find", "launch", "poll", "approval", "consume", "send", "config", "database"}
CallPhases == BeforeRequest \cup {"waiting", "broken", "finish", "done"}
CallType == [phase : CallPhases, tool : Tools, desc : Nat, prev : Nat, attempt : {1, 2}, missing : BOOLEAN, later : BOOLEAN,
             granted : BOOLEAN, sensitive : BOOLEAN, launched : BOOLEAN, answer : Outcomes, remote : BOOLEAN, retryable : BOOLEAN]
RequestType == [phase : {"received", "executed", "respond"}, valid : BOOLEAN, outcome : Outcomes]

ChannelTyped ==
  /\ desktop \in [inst : Nat, up : {"down", "binding", "serving", "deaf", "closing"}] /\ desc \in Nat
  /\ call = NoCall \/ call \in CallType
  /\ handler = NoRequest \/ handler \in RequestType
  /\ ran \in Nat /\ rows \subseteq {"desktop", "sidecar"} \X {1, 2} \X Outcomes

DesktopRow == \E r \in rows : r[1] = "desktop"
SidecarWrote == \E r \in rows : r[1] = "sidecar"
Nothing == ran = 0 /\ handler = NoRequest

\* What the desktop has done for the request it handles.
HandlerInv ==
  /\ ran <= 1
  /\ handler.phase = "received" => ran = 0
  /\ handler.phase = "executed" => (ran = 1 <=> handler.outcome \in {"ok", "failed"}) /\ handler.outcome # "auditLost"
  /\ handler.phase = "respond" =>
       /\ ran = 1 <=> handler.outcome \in {"ok", "failed", "auditLost"}
       /\ handler.outcome = "ok" /\ is_write(call.tool) => <<"desktop", call.attempt, "ok">> \in rows
  /\ handler # NoRequest => handler.outcome \notin {"unavailable", "timeout", "resultTooLarge", "expired", "launchFailed", "disabled", "invalid"}

\* What has happened by the time a call is where it is.
CallInv ==
  /\ call = NoCall => Nothing /\ rows = {}
  /\ call.phase \in BeforeRequest => Nothing
  /\ call.phase \in {"config", "database", "consume"} => ~is_write(call.tool)
  /\ call.phase = "waiting" => handler # NoRequest
  /\ call.phase = "broken" => handler = NoRequest
  /\ SidecarWrote => call.phase = "done"
  /\ call.phase \in {"finish", "done"} =>
       /\ call.answer \in Decisions => Nothing
       /\ is_write(call.tool) =>
            /\ handler # NoRequest => call.answer \in {"unavailable", "timeout"} /\ call.remote
            /\ call.answer = "ok" => ran = 1 /\ \E a \in {1, 2} : <<"desktop", a, "ok">> \in rows
            /\ ran = 1 /\ handler = NoRequest /\ ~DesktopRow =>
                 call.answer \in {"auditLost", "unavailable", "timeout", "resultTooLarge", "failed"}
            /\ ~call.remote /\ call.answer \notin {"ok", "resultTooLarge"} => Nothing
            /\ call.phase = "finish" /\ ~call.remote /\ call.answer # "ok" => Nothing
            /\ SidecarWrote => call.answer = "resultTooLarge" \/ Nothing

ChannelInv == ChannelTyped /\ HandlerInv /\ CallInv

\* A write is left to the desktop's audit, is no query and needs no capability of its own.
LEMMA ToolFacts ==
  \A t : is_write(t) => is_agent_control_tool(t) /\ t \in ControlTools /\ ~NeedsCapability(t) /\ t # "get_app_status"
BY DEF is_write, is_agent_control_tool, ControlTools, NeedsCapability, BodyReads, WorkspaceTools, ProxyTools, CertificateTools,
       SessionTools, RuleTools, PlanTools, ChangeTools, ChangeEndTools

\* The files and the process of the desktop are not the call's.
LEMMA DesktopStep ==
  ASSUME ChannelInv,
         UserStarts \/ PublishDescriptor \/ StartFails \/ ShutdownChannel \/ Heartbeat \/ DesktopDies \/ BeatAges \/ SpawnedStarts
  PROVE  ChannelInv'
<1> USE DEF ChannelInv, ChannelTyped, HandlerInv, CallInv, Nothing, DesktopRow, SidecarWrote
<1>1. CASE UserStarts \/ SpawnedStarts  BY <1>1 DEF UserStarts, SpawnedStarts, StartDesktop
<1>2. CASE PublishDescriptor  BY <1>2 DEF PublishDescriptor
<1>3. CASE StartFails  BY <1>3 DEF StartFails
<1>4. CASE ShutdownChannel  BY <1>4 DEF ShutdownChannel
<1>5. CASE Heartbeat \/ BeatAges  BY <1>5 DEF Heartbeat, BeatAges
<1>6. CASE DesktopDies  BY <1>6 DEF DesktopDies, NoCall, NoRequest, CallType, CallPhases, BeforeRequest
<1> QED BY <1>1, <1>2, <1>3, <1>4, <1>5, <1>6

\* A step of the sidecar before its request: the call stays there, or is answered while
\* nothing has happened.
EarlyStep ==
  /\ call.phase \in BeforeRequest /\ UNCHANGED <<handler, ran, rows>> /\ desktop' = desktop /\ desc' = desc
  /\ call' \in CallType /\ call'.tool = call.tool
  /\ \/ call'.phase \in BeforeRequest /\ (call'.phase \in {"config", "database", "consume"} => ~is_write(call.tool))
     \/ call'.phase = "finish" /\ call'.answer # "ok"

\* Such a step keeps the invariant.
LEMMA EarlyKeeps == ASSUME ChannelInv, EarlyStep PROVE ChannelInv'
BY DEF ChannelInv, ChannelTyped, HandlerInv, CallInv, Nothing, DesktopRow, SidecarWrote, EarlyStep, BeforeRequest, NoCall, CallType

\* A call that is somewhere has its fields.
LEMMA CallIsTyped == ASSUME ChannelInv, call.phase # "idle" PROVE call \in CallType
BY DEF ChannelInv, ChannelTyped, NoCall

\* A call that moves on, or is answered, before its request.
LEMMA EarlyMove ==
  ASSUME ChannelInv, call.phase \in BeforeRequest, CallOnly, call' \in CallType, call'.tool = call.tool, call'.phase \in BeforeRequest,
         call'.phase \in {"config", "database", "consume"} => ~is_write(call.tool)
  PROVE  ChannelInv'
BY EarlyKeeps DEF EarlyStep, CallOnly, Surroundings

\* Answered before its request.
LEMMA EarlyAnswer ==
  ASSUME ChannelInv, call.phase \in BeforeRequest, CallOnly, NEW code \in Outcomes \ {"ok"}, NEW remote \in BOOLEAN,
         call' = Replied(code, remote)
  PROVE  ChannelInv'
<1>1. call \in CallType  BY CallIsTyped DEF BeforeRequest
<1>2. call' \in CallType /\ call'.phase = "finish" /\ call'.answer = code /\ call'.tool = call.tool
  BY <1>1 DEF Replied, CallType, CallPhases
<1> QED BY <1>2, EarlyKeeps DEF EarlyStep, CallOnly, Surroundings

\* Everything between the arguments of a call and its request.
LEMMA SidecarStep ==
  ASSUME ChannelInv,
         \/ \E c \in {"pass", "disabled", "denied", "auditUnavailable", "invalid"} : CheckTool(c)
         \/ FindDescriptor \/ RefuseDescriptor \/ LaunchDesktop \/ PollDescriptor \/ PollTimesOut
         \/ \E c \in {"approved", "denied", "expired", "unavailable"} : GrantDecision(c)
         \/ ConsumeGrant \/ \E e \in BOOLEAN : CheckConfig(e)
  PROVE  ChannelInv'
<1> USE DEF CallAt, Answered
<1>0. {"disabled", "denied", "auditUnavailable", "invalid", "unavailable", "launchFailed", "expired"} \subseteq Outcomes \ {"ok"}
  BY DEF Outcomes, Decisions
<1>1. {"check", "find", "launch", "poll", "approval", "consume", "send", "config", "database"} = BeforeRequest
  BY DEF BeforeRequest
<1>2. call.phase \in BeforeRequest => call \in CallType  BY CallIsTyped, <1>1
<1>3. (call.phase \in {"config", "database", "consume"} => ~is_write(call.tool)) /\ desc \in Nat
  BY DEF ChannelInv, CallInv, ChannelTyped
<1>4. ASSUME NEW c \in {"pass", "disabled", "denied", "auditUnavailable", "invalid"}, CheckTool(c) PROVE ChannelInv'
  <2>1. CASE c = "pass"
    <3>1. call.phase = "check" /\ CallOnly /\ call' = [call EXCEPT !.phase = "find"]  BY <1>4, <2>1 DEF CheckTool
    <3>2. call' \in CallType /\ call'.tool = call.tool /\ call'.phase = "find"  BY <1>1, <1>2, <3>1 DEF CallType, CallPhases
    <3> QED BY <1>1, <3>1, <3>2, EarlyMove
  <2>2. CASE c # "pass"  BY <1>0, <1>1, <1>4, <2>2, EarlyAnswer DEF CheckTool
  <2> QED BY <2>1, <2>2
<1>5. CASE FindDescriptor
  <2>1. call.phase = "find" /\ CallOnly  BY <1>5 DEF FindDescriptor
  <2>2. CASE call' = Replied("unavailable", FALSE)  BY <1>0, <1>1, <2>1, <2>2, EarlyAnswer
  <2>3. CASE call' # Replied("unavailable", FALSE)
    <3>1. \/ call' = [call EXCEPT !.phase = "launch"]
          \/ call' = [call EXCEPT !.phase = "approval", !.desc = desc]
          \/ call' = [call EXCEPT !.phase = "send", !.desc = desc]
      BY <1>5, <2>3 DEF FindDescriptor
    <3>2. call' \in CallType /\ call'.tool = call.tool /\ call'.phase \in {"launch", "approval", "send"}
      BY <1>1, <1>2, <1>3, <2>1, <3>1 DEF CallType, CallPhases
    <3> QED BY <1>1, <2>1, <3>2, EarlyMove
  <2> QED BY <2>2, <2>3
<1>6. CASE LaunchDesktop
  <2>1. call.phase = "launch" /\ CallOnly  BY <1>6 DEF LaunchDesktop
  <2>2. CASE HeartbeatFresh  BY <1>0, <1>1, <1>6, <2>1, <2>2, EarlyAnswer DEF LaunchDesktop
  <2>3. CASE ~HeartbeatFresh
    <3>1. call' = [call EXCEPT !.phase = "poll", !.prev = desc, !.launched = TRUE]  BY <1>6, <2>3 DEF LaunchDesktop
    <3>2. call' \in CallType /\ call'.tool = call.tool /\ call'.phase = "poll"
      BY <1>1, <1>2, <1>3, <2>1, <3>1 DEF CallType, CallPhases
    <3> QED BY <1>1, <2>1, <3>2, EarlyMove
  <2> QED BY <2>2, <2>3
<1>7. CASE PollDescriptor
  <2>1. call.phase = "poll" /\ CallOnly  BY <1>7 DEF PollDescriptor
  <2>2. call' = [call EXCEPT !.desc = desc, !.phase = "approval"] \/ call' = [call EXCEPT !.desc = desc, !.phase = "send"]
    BY <1>7 DEF PollDescriptor
  <2>3. call' \in CallType /\ call'.tool = call.tool /\ call'.phase \in {"approval", "send"}
    BY <1>1, <1>2, <1>3, <2>1, <2>2 DEF CallType, CallPhases
  <2> QED BY <1>1, <2>1, <2>3, EarlyMove
<1>8. CASE PollTimesOut \/ RefuseDescriptor  BY <1>0, <1>1, <1>8, EarlyAnswer DEF PollTimesOut, RefuseDescriptor
<1>9. ASSUME NEW c \in {"approved", "denied", "expired", "unavailable"}, GrantDecision(c) PROVE ChannelInv'
  <2>1. call.phase = "approval" /\ CallOnly  BY <1>9 DEF GrantDecision
  <2>2. CASE \E r \in BOOLEAN : c # "approved" /\ call' = Replied(c, r)  BY <1>0, <1>1, <2>1, <2>2, EarlyAnswer
  <2>3. CASE ~\E r \in BOOLEAN : c # "approved" /\ call' = Replied(c, r)
    <3>1. \/ NeedsCapability(call.tool) /\ call' = [call EXCEPT !.phase = "consume", !.granted = TRUE]
          \/ call' = [call EXCEPT !.phase = "send", !.granted = TRUE]
      BY <1>9, <2>3 DEF GrantDecision
    <3>2. /\ call' \in CallType /\ call'.tool = call.tool /\ call'.phase \in {"consume", "send"}
          /\ call'.phase = "consume" => NeedsCapability(call.tool)
      BY <1>1, <1>2, <2>1, <3>1 DEF CallType, CallPhases
    <3> QED BY <1>1, <2>1, <3>2, ToolFacts, EarlyMove
  <2> QED BY <2>2, <2>3
<1>10. CASE ConsumeGrant
  <2>1. call.phase = "consume" /\ CallOnly  BY <1>10 DEF ConsumeGrant
  <2>2. CASE call' = Replied("unavailable", FALSE)  BY <1>0, <1>1, <2>1, <2>2, EarlyAnswer
  <2>3. CASE call' # Replied("unavailable", FALSE)
    <3>1. call' = [call EXCEPT !.phase = "database"]  BY <1>10, <2>3 DEF ConsumeGrant
    <3>2. call' \in CallType /\ call'.tool = call.tool /\ call'.phase = "database"
      BY <1>1, <1>2, <2>1, <3>1 DEF CallType, CallPhases
    <3> QED BY <1>1, <1>3, <2>1, <3>2, EarlyMove
  <2> QED BY <2>2, <2>3
<1>11. ASSUME NEW e \in BOOLEAN, CheckConfig(e) PROVE ChannelInv'
  <2>1. call.phase = "config" /\ CallOnly  BY <1>11 DEF CheckConfig
  <2>2. CASE ~e  BY <1>0, <1>1, <1>11, <2>1, <2>2, EarlyAnswer DEF CheckConfig
  <2>3. CASE e
    <3>1. call' = [call EXCEPT !.phase = "find"] \/ call' = [call EXCEPT !.phase = "database"]  BY <1>11, <2>3 DEF CheckConfig
    <3>2. call' \in CallType /\ call'.tool = call.tool /\ call'.phase \in {"find", "database"}
      BY <1>1, <1>2, <2>1, <3>1 DEF CallType, CallPhases
    <3> QED BY <1>1, <1>3, <2>1, <3>2, EarlyMove
  <2> QED BY <2>2, <2>3
<1> QED BY <1>4, <1>5, <1>6, <1>7, <1>8, <1>9, <1>10, <1>11

\* The beginning and the query of a call that needs no desktop.
LEMMA QueryStep ==
  ASSUME ChannelInv,
         \/ \E t \in Tools, m, l \in BOOLEAN : \E s \in Sensitive(t) : BeginCall(t, m, l, s)
         \/ \E o \in {"ok", "failed", "timeout", "unavailable"} : QueryDatabase(o)
  PROVE  ChannelInv'
<1> USE DEF ChannelInv, ChannelTyped, HandlerInv, CallInv, Nothing, DesktopRow, SidecarWrote, CallPhases, Surroundings
<1>1. ASSUME NEW t \in Tools, NEW m \in BOOLEAN, NEW l \in BOOLEAN, NEW s \in Sensitive(t), BeginCall(t, m, l, s)
      PROVE  ChannelInv'
  <2>1. s \in BOOLEAN  BY DEF Sensitive
  <2>2. /\ call = NoCall /\ call'.phase \in {"check", "find", "config"} /\ call'.tool = t
        /\ UNCHANGED <<desktop, desc, handler, ran, rows>>
    BY <1>1 DEF BeginCall
  <2>3. call' \in CallType
    <3>1. call'.phase \in CallPhases /\ call'.answer \in Outcomes  BY <1>1 DEF BeginCall, BeforeRequest, Outcomes
    <3> QED BY <1>1, <2>1, <3>1 DEF BeginCall, CallType
  <2>4. call'.phase = "config" => ~is_write(t)  BY <1>1, ToolFacts DEF BeginCall
  <2>5. Nothing /\ rows = {}  BY <2>2
  <2>6. HandlerInv'  BY <2>2, <2>5 DEF NoRequest
  <2>7. CallInv'  BY <2>2, <2>4, <2>5
  <2> QED BY <2>2, <2>3, <2>6, <2>7
<1>2. ASSUME NEW o \in {"ok", "failed", "timeout", "unavailable"}, QueryDatabase(o) PROVE ChannelInv'
  <2>1. call \in CallType /\ call.phase = "database" /\ UNCHANGED <<desktop, desc, handler, rows>> /\ ran' \in {ran, ran + 1}
    BY <1>2, CallIsTyped DEF QueryDatabase
  <2>2. call' \in CallType /\ call'.phase = "finish" /\ call'.tool = call.tool /\ call'.answer = o
    BY <1>2, <2>1 DEF QueryDatabase, Replied, CallType, Outcomes
  <2>3. ran = 0 /\ handler = NoRequest /\ ~is_write(call.tool) /\ ~SidecarWrote  BY <2>1 DEF BeforeRequest
  <2>4. HandlerInv'  BY <2>1, <2>3 DEF NoRequest
  <2>5. CallInv'  BY <2>1, <2>2, <2>3 DEF BeforeRequest, Decisions, NoCall
  <2> QED BY <2>1, <2>2, <2>3, <2>4, <2>5
<1> QED BY <1>1, <1>2

\* A failure to connect ends the call, or sends it back to launch the desktop.
LEMMA NotConnected ==
  ASSUME call \in CallType, NEW c, c = AfterFailure("unavailable", FALSE, TRUE)
  PROVE  c \in CallType /\ c.tool = call.tool /\ (c.phase = "launch" \/ (c.phase = "finish" /\ c.answer = "unavailable"))
<1>1. c = Replied("unavailable", FALSE) \/ c = [call EXCEPT !.phase = "launch", !.attempt = 2]  BY DEF AfterFailure
<1>2. "unavailable" \in Outcomes /\ "finish" \in CallPhases /\ "launch" \in CallPhases  BY DEF Outcomes, CallPhases, BeforeRequest
<1> QED BY <1>1, <1>2 DEF Replied, CallType

\* The request reaches whichever desktop is bound, or nobody.
LEMMA ConnectStep ==
  ASSUME ChannelInv, ConnectEndpoint
  PROVE  ChannelInv'
<1> USE DEF ChannelInv, ChannelTyped, HandlerInv, CallInv, Nothing, DesktopRow, SidecarWrote, Surroundings
<1>1. call \in CallType /\ call.phase = "send" /\ UNCHANGED <<desktop, desc, ran, rows>>  BY CallIsTyped DEF ConnectEndpoint
<1>2. ran = 0 /\ handler = NoRequest /\ ~SidecarWrote  BY <1>1 DEF BeforeRequest
<1>3. CASE Bound
  <2>1. handler' = [phase |-> "received", valid |-> call.desc = desktop.inst, outcome |-> "none"] /\ call' = [call EXCEPT !.phase = "waiting"]
    BY <1>3 DEF ConnectEndpoint
  <2>2. call' \in CallType /\ call'.phase = "waiting" /\ call'.tool = call.tool  BY <1>1, <2>1 DEF CallType, CallPhases
  <2>3. (call.desc = desktop.inst) \in BOOLEAN  OBVIOUS
  <2>4. handler' \in RequestType /\ handler'.phase = "received" /\ handler'.outcome = "none"
    <3>1. "none" \in Outcomes  BY DEF Outcomes
    <3> QED BY <2>1, <2>3, <3>1 DEF RequestType
  <2>5. handler' # NoRequest  BY <2>1 DEF NoRequest
  <2>6. CallInv'  BY <1>1, <1>2, <2>2, <2>5 DEF BeforeRequest, NoCall
  <2> QED BY <1>1, <1>2, <2>2, <2>4, <2>6
<1>4. CASE ~Bound
  <2>1. handler' = NoRequest /\ call' = AfterFailure("unavailable", FALSE, TRUE) /\ "unavailable" \in Outcomes
    BY <1>4 DEF ConnectEndpoint, Outcomes
  <2>2. PICK c : c = AfterFailure("unavailable", FALSE, TRUE)  OBVIOUS
  <2>3. c \in CallType /\ c.tool = call.tool /\ (c.phase = "launch" \/ (c.phase = "finish" /\ c.answer = "unavailable"))
    BY <1>1, <2>2, NotConnected
  <2>4. call' \in CallType /\ call'.tool = call.tool /\ (call'.phase = "launch" \/ (call'.phase = "finish" /\ call'.answer = "unavailable"))
    BY <2>1, <2>2, <2>3
  <2>5. HandlerInv'  BY <1>1, <1>2, <2>1 DEF NoRequest
  <2>6. call' # NoCall  BY <2>4 DEF NoCall
  <2>7. Nothing' /\ ~SidecarWrote'  BY <1>1, <1>2, <2>1
  <2>8. ~(call'.phase \in {"config", "database", "consume", "waiting", "broken", "done"})  BY <2>4
  <2>9. CallInv'
    <3>1. call'.answer # "ok" \/ call'.phase = "launch"  BY <2>4
    <3> QED BY <2>6, <2>7, <2>8, <3>1
  <2> QED BY <1>1, <2>1, <2>4, <2>5, <2>9
<1> QED BY <1>3, <1>4

\* A request in the handler belongs to a call, which is past its request.
LEMMA HandlerHasCall ==
  ASSUME ChannelInv, handler.phase \in {"received", "executed", "respond"}
  PROVE  /\ handler \in RequestType /\ handler # NoRequest
         /\ call \in CallType /\ call.phase \in {"waiting", "finish", "done"}
<1>1. handler # NoRequest  BY DEF NoRequest
<1>2. call # NoCall /\ call.phase \notin BeforeRequest /\ call.phase # "broken"  BY <1>1 DEF ChannelInv, CallInv, Nothing
<1> QED BY <1>1, <1>2 DEF ChannelInv, ChannelTyped, CallType, CallPhases

\* What the handler does before it answers.
LEMMA HandlerStep ==
  ASSUME ChannelInv,
         \/ \E o \in {"denied", "approvalRequired", "auditUnavailable"} : Refuse(o)
         \/ \E o \in {"ok", "failed"} : Perform(o)
  PROVE  ChannelInv'
<1> USE DEF ChannelInv, ChannelTyped, HandlerInv, CallInv, Nothing, DesktopRow, SidecarWrote, Surroundings
<1>0. {"denied", "approvalRequired", "auditUnavailable", "ok", "failed", "auditLost"} \subseteq Outcomes
  BY DEF Outcomes, Decisions
<1>1. ASSUME NEW o \in {"denied", "approvalRequired", "auditUnavailable", "ok", "failed"}, NEW n \in {0, 1},
             handler.phase = "received", handler' = [handler EXCEPT !.phase = "executed", !.outcome = o],
             UNCHANGED <<desktop, desc, call, rows>>, ran' = ran + n, n = 1 <=> o \in {"ok", "failed"}
      PROVE  ChannelInv'
  <2>1. /\ handler \in RequestType /\ handler # NoRequest
        /\ call \in CallType /\ call.phase \in {"waiting", "finish", "done"}
    BY <1>1, HandlerHasCall
  <2>2. handler' \in RequestType /\ handler'.phase = "executed" /\ handler'.outcome = o  BY <1>0, <1>1, <2>1 DEF RequestType
  <2>3. handler' # NoRequest  BY <2>2 DEF NoRequest
  <2>4. ran = 0  BY <1>1
  <2>5. HandlerInv'  BY <1>1, <2>2, <2>4
  <2>6. call.phase \in {"finish", "done"} => call.answer \notin Decisions  BY <2>1
  <2>7. CallInv'
    <3>1. call.phase \in {"finish", "done"} /\ is_write(call.tool) => call.answer \in {"unavailable", "timeout"} /\ call.remote /\ ~SidecarWrote
      BY <2>1
    <3> QED BY <1>1, <2>1, <2>3, <2>6, <3>1 DEF BeforeRequest, NoCall
  <2> QED BY <1>1, <2>1, <2>2, <2>4, <2>5, <2>7
<1>2. ASSUME NEW o \in {"denied", "approvalRequired", "auditUnavailable"}, Refuse(o) PROVE ChannelInv'
  <2>1. /\ handler.phase = "received" /\ handler' = [handler EXCEPT !.phase = "executed", !.outcome = o]
        /\ UNCHANGED <<desktop, desc, call, rows>> /\ ran' = ran
    BY <1>2 DEF Refuse
  <2>2. ran' = ran + 0 /\ 0 \in {0, 1} /\ (0 = 1 <=> o \in {"ok", "failed"})  BY <2>1
  <2> QED BY <1>1, <2>1, <2>2
<1>3. ASSUME NEW o \in {"ok", "failed"}, Perform(o) PROVE ChannelInv'
  <2>1. /\ handler.phase = "received" /\ handler' = [handler EXCEPT !.phase = "executed", !.outcome = o]
        /\ UNCHANGED <<desktop, desc, call, rows>> /\ ran' = ran + 1
    BY <1>3 DEF Perform
  <2> QED BY <1>1, <2>1
<1> QED BY <1>2, <1>3

\* A request that fell out of the accept queue.
LEMMA DroppedStep ==
  ASSUME ChannelInv, ConnectionDropped
  PROVE  ChannelInv'
<1> USE DEF ChannelInv, ChannelTyped, HandlerInv, CallInv, Nothing, DesktopRow, SidecarWrote, Surroundings
<1>1. /\ call.phase = "waiting" /\ handler.phase = "received" /\ handler' = NoRequest
      /\ call' = [call EXCEPT !.phase = "broken"] /\ UNCHANGED <<desktop, desc, ran, rows>>
  BY DEF ConnectionDropped
<1>2. call \in CallType  BY <1>1, CallIsTyped
<1>3. call' \in CallType /\ call'.phase = "broken" /\ call'.tool = call.tool  BY <1>1, <1>2 DEF CallType, CallPhases
<1>4. ran = 0 /\ ~SidecarWrote /\ HandlerInv'  BY <1>1 DEF NoRequest
<1>5. CallInv'  BY <1>1, <1>3, <1>4 DEF BeforeRequest, NoCall
<1> QED BY <1>1, <1>3, <1>4, <1>5

\* The desktop's audit row.
LEMMA AuditStep ==
  ASSUME ChannelInv, NEW written \in BOOLEAN, Audit(written)
  PROVE  ChannelInv'
<1> USE DEF ChannelInv, ChannelTyped, HandlerInv, CallInv, Nothing, DesktopRow, SidecarWrote, Surroundings
<1>1. /\ handler \in RequestType /\ handler # NoRequest /\ handler.phase = "executed"
      /\ call \in CallType /\ call.phase \in {"waiting", "finish", "done"}
  BY HandlerHasCall DEF Audit
<1>2. PICK o : o = IF is_write(call.tool) /\ ~written /\ handler.outcome = "ok" THEN "auditLost" ELSE handler.outcome  OBVIOUS
<1>3. handler' = [handler EXCEPT !.phase = "respond", !.outcome = o] /\ UNCHANGED <<desktop, desc, call, ran>>
  BY <1>1, <1>2 DEF Audit, RequestType
<1>4. o \in Outcomes /\ handler.outcome \in Outcomes  BY <1>1, <1>2 DEF RequestType, Outcomes
<1>5. handler' \in RequestType /\ handler'.phase = "respond" /\ handler'.outcome = o  BY <1>1, <1>3, <1>4 DEF RequestType
<1>6. handler' # NoRequest  BY <1>5 DEF NoRequest
<1>7. call.attempt \in {1, 2}  BY <1>1 DEF CallType
<1>8. PICK row : row = <<"desktop", call.attempt, handler.outcome>>  OBVIOUS
<1>9. row \in {"desktop", "sidecar"} \X {1, 2} \X Outcomes /\ row[1] = "desktop"  BY <1>4, <1>7, <1>8
<1>10. /\ rows' = rows \/ rows' = rows \cup {row}
       /\ is_write(call.tool) /\ written => row \in rows'
  BY <1>8 DEF Audit
<1>11. (SidecarWrote' => SidecarWrote) /\ rows \subseteq rows'  BY <1>9, <1>10
<1>12. rows' \subseteq {"desktop", "sidecar"} \X {1, 2} \X Outcomes  BY <1>9, <1>10
<1>13. o = "ok" /\ is_write(call.tool) => written /\ row = <<"desktop", call.attempt, "ok">>  BY <1>2, <1>8
<1>14. /\ ran = 1 <=> handler.outcome \in {"ok", "failed"}
       /\ handler.outcome # "auditLost"
       /\ handler.outcome \notin {"unavailable", "timeout", "resultTooLarge", "expired", "launchFailed", "disabled", "invalid"}
  BY <1>1
<1>16. ran = 1 <=> o \in {"ok", "failed", "auditLost"}  BY <1>2, <1>14
<1>17. HandlerInv'  BY <1>3, <1>5, <1>10, <1>13, <1>14, <1>16, <1>2
<1>18. CallInv'
  <2>1. call.phase \in {"finish", "done"} => call.answer \notin Decisions  BY <1>1
  <2>2. call.phase \in {"finish", "done"} /\ is_write(call.tool) => call.answer \in {"unavailable", "timeout"} /\ call.remote /\ ~SidecarWrote
    BY <1>1
  <2> QED BY <1>1, <1>3, <1>6, <1>11, <2>1, <2>2 DEF BeforeRequest, NoCall
<1> QED BY <1>1, <1>3, <1>5, <1>12, <1>17, <1>18

\* The answer of the desktop reaches the call, unless it has stopped waiting.
LEMMA RespondStep ==
  ASSUME ChannelInv, NEW outcome \in {"ok", "failed", "denied", "approvalRequired", "auditUnavailable", "auditLost", "resultTooLarge"}, Respond(outcome)
  PROVE  ChannelInv'
<1> USE DEF ChannelInv, ChannelTyped, HandlerInv, CallInv, Nothing, DesktopRow, SidecarWrote, Surroundings
<1>1. /\ handler \in RequestType /\ handler # NoRequest /\ handler.phase = "respond"
      /\ call \in CallType /\ call.phase \in {"waiting", "finish", "done"}
  BY HandlerHasCall DEF Respond
<1>2. handler' = NoRequest /\ UNCHANGED <<desktop, desc, ran, rows>>  BY DEF Respond
<1>3. outcome = handler.outcome \/ (handler.outcome = "ok" /\ outcome = "resultTooLarge")  BY DEF Respond
<1>4. HandlerInv' /\ outcome \in Outcomes  BY <1>2 DEF NoRequest, Outcomes, Decisions
<1>5. /\ ran = 1 <=> outcome \in {"ok", "failed", "auditLost", "resultTooLarge"}
      /\ handler.outcome = "ok" /\ is_write(call.tool) => <<"desktop", call.attempt, "ok">> \in rows
      /\ call.attempt \in {1, 2} /\ ran \in Nat /\ ran <= 1
  BY <1>1, <1>3 DEF CallType
<1>6. CASE call.phase # "waiting"
  <2>1. call' = call  BY <1>6 DEF Respond
  <2>2. call.answer \notin Decisions  BY <1>1, <1>6
  <2>3. is_write(call.tool) => call.answer \in {"unavailable", "timeout"} /\ call.remote /\ ~SidecarWrote  BY <1>1, <1>6
  <2>4. CallInv'  BY <1>1, <1>2, <1>6, <2>1, <2>2, <2>3 DEF BeforeRequest, NoCall
  <2> QED BY <1>1, <1>2, <1>4, <2>1, <2>4
<1>7. CASE call.phase = "waiting"
  <2>0. ~SidecarWrote  BY <1>7
  <2>1. CASE outcome = "approvalRequired" /\ call.attempt = 1
    <3>1. call' = [call EXCEPT !.phase = "approval", !.attempt = 2]  BY <1>7, <2>1 DEF Respond
    <3>2. call' \in CallType /\ call'.phase = "approval"  BY <1>1, <3>1 DEF CallType, CallPhases, BeforeRequest
    <3>3. ran = 0  BY <1>5, <2>1
    <3>4. CallInv'  BY <1>2, <2>0, <3>2, <3>3 DEF NoCall
    <3> QED BY <1>2, <1>4, <3>2, <3>4
  <2>2. CASE ~(outcome = "approvalRequired" /\ call.attempt = 1)
    <3>1. PICK remote \in BOOLEAN : call' = Replied(outcome, remote) /\ (outcome = "ok" <=> ~remote)
      <4>1. AfterFailure(outcome, TRUE, FALSE) = Replied(outcome, TRUE)  BY DEF AfterFailure, MayRelaunch
      <4> QED BY <1>7, <2>2, <4>1 DEF Respond
    <3>2. call' \in CallType /\ call'.phase = "finish" /\ call'.answer = outcome /\ call'.tool = call.tool /\ call'.remote = remote
      BY <1>1, <1>4, <3>1 DEF Replied, CallType, CallPhases
    <3>3. outcome \in Decisions => ran = 0  BY <1>5 DEF Decisions
    <3>4. ~is_write(call.tool) \/ outcome # "ok" \/ (ran = 1 /\ \E a \in {1, 2} : <<"desktop", a, "ok">> \in rows)  BY <1>3, <1>5
    <3>5. ran = 1 => outcome \in {"ok", "failed", "auditLost", "resultTooLarge"}  BY <1>5
    <3>6. CallInv'
      <4>1. call' # NoCall  BY <3>2 DEF NoCall
      <4>2. ran = 1 /\ ~DesktopRow /\ is_write(call.tool) => outcome # "ok"  BY <3>4
      <4> QED BY <1>2, <2>0, <3>1, <3>2, <3>3, <3>4, <3>5, <4>1, <4>2 DEF BeforeRequest
    <3> QED BY <1>2, <1>4, <3>2, <3>6
  <2> QED BY <2>1, <2>2
<1> QED BY <1>6, <1>7

\* A response that does not come: a write is answered as one the desktop may have executed.
LEMMA LostStep ==
  ASSUME ChannelInv, ResponseLost \/ ResponseTimesOut
  PROVE  ChannelInv'
<1> USE DEF ChannelInv, ChannelTyped, HandlerInv, CallInv, Nothing, DesktopRow, SidecarWrote
<1>1. call.phase \in {"waiting", "broken"} /\ UNCHANGED <<desktop, desc, handler, ran, rows>>
  BY DEF ResponseLost, ResponseTimesOut, CallOnly, Surroundings
<1>2. call \in CallType  BY <1>1, CallIsTyped
<1>3. PICK code \in {"unavailable", "timeout"} : call' = Replied(code, is_write(call.tool))
  BY DEF ResponseLost, ResponseTimesOut, mark_lost_write_response, AfterFailure, MayRelaunch
<1>4. is_write(call.tool) \in BOOLEAN /\ code \in Outcomes /\ code \notin Decisions  BY DEF is_write, Outcomes, Decisions
<1>5. call' \in CallType /\ call'.phase = "finish" /\ call'.answer = code /\ call'.tool = call.tool /\ call'.remote = is_write(call.tool)
  BY <1>2, <1>3, <1>4 DEF Replied, CallType, CallPhases
<1>6. ~SidecarWrote  BY <1>1
<1>7. HandlerInv'
  <2>1. handler.phase = "respond" => call.attempt = call'.attempt  BY <1>2, <1>3 DEF Replied, CallType
  <2> QED BY <1>1, <1>5, <2>1
<1>8. CallInv'  BY <1>1, <1>3, <1>4, <1>5, <1>6 DEF BeforeRequest, NoCall
<1> QED BY <1>1, <1>5, <1>7, <1>8

\* The end of a call, and the row the sidecar writes about it.
LEMMA FinishStep ==
  ASSUME ChannelInv, NEW fits \in BOOLEAN, NEW written \in BOOLEAN, FinishCall(fits, written)
  PROVE  ChannelInv'
<1> USE DEF ChannelInv, ChannelTyped, HandlerInv, CallInv, Nothing, DesktopRow, SidecarWrote
<1>1. call.phase = "finish" /\ UNCHANGED <<desktop, desc, handler, ran>>  BY DEF FinishCall, Surroundings
<1>2. call \in CallType /\ ~SidecarWrote  BY <1>1, CallIsTyped
<1>3. PICK good \in BOOLEAN : good = (call.answer = "ok" \/ (call.tool = "get_app_status" /\ call.answer \in {"unavailable", "timeout"}))
  OBVIOUS
<1>4. PICK answer : answer = IF good /\ ~fits THEN "resultTooLarge" ELSE IF good THEN "ok" ELSE call.answer  OBVIOUS
<1>5. PICK recorded \in BOOLEAN : recorded = IF answer = "ok" THEN ~is_agent_control_tool(call.tool)
                                           ELSE ~(is_agent_control_tool(call.tool) /\ call.remote /\ ~good)
  BY DEF is_agent_control_tool
<1>6. PICK given : given = IF answer = "ok" /\ recorded /\ ~written /\ call.sensitive THEN "auditUnavailable" ELSE answer  OBVIOUS
<1>7. PICK row : row = SidecarRow(answer)  OBVIOUS
<1>8. /\ rows' = IF recorded /\ written THEN rows \cup {row} ELSE rows
      /\ call' = [call EXCEPT !.phase = "done", !.answer = given]
  BY <1>3, <1>4, <1>5, <1>6, <1>7 DEF FinishCall
<1>9. answer \in Outcomes /\ given \in Outcomes  BY <1>2, <1>4, <1>6 DEF CallType, Outcomes
<1>10. row \in {"desktop", "sidecar"} \X {1, 2} \X Outcomes /\ row[1] = "sidecar"  BY <1>2, <1>7, <1>9 DEF SidecarRow, CallType
<1>11. /\ call' \in CallType /\ call'.phase = "done" /\ call'.answer = given /\ call'.tool = call.tool
       /\ call'.remote = call.remote /\ call'.attempt = call.attempt
  BY <1>2, <1>8, <1>9 DEF CallType, CallPhases
<1>12. rows' \subseteq {"desktop", "sidecar"} \X {1, 2} \X Outcomes /\ rows \subseteq rows'  BY <1>8, <1>10
<1>13. (DesktopRow' <=> DesktopRow) /\ (SidecarWrote' => recorded)  BY <1>2, <1>8, <1>10
<1>14. HandlerInv'  BY <1>1, <1>11, <1>12
<1>15. given \in Decisions => call.answer \in Decisions  BY <1>4, <1>6 DEF Decisions
<1>16. is_write(call.tool) => (answer = "ok" => ~recorded) /\ given = answer /\ (good <=> call.answer = "ok")
  BY <1>3, <1>4, <1>5, <1>6, ToolFacts
<1>17. CallInv'
  <2>1. call' # NoCall  BY <1>11 DEF NoCall
  <2>2. given \in Decisions => Nothing  BY <1>1, <1>15
  <2>3. ASSUME is_write(call.tool) PROVE
          /\ handler # NoRequest => given \in {"unavailable", "timeout"} /\ call.remote
          /\ given = "ok" => ran = 1 /\ \E a \in {1, 2} : <<"desktop", a, "ok">> \in rows
          /\ ran = 1 /\ handler = NoRequest /\ ~DesktopRow => given \in {"auditLost", "unavailable", "timeout", "resultTooLarge", "failed"}
          /\ ~call.remote /\ given \notin {"ok", "resultTooLarge"} => Nothing
          /\ recorded => given = "resultTooLarge" \/ Nothing
    <3>1. /\ handler # NoRequest => call.answer \in {"unavailable", "timeout"} /\ call.remote
          /\ call.answer = "ok" => ran = 1 /\ \E a \in {1, 2} : <<"desktop", a, "ok">> \in rows
          /\ ran = 1 /\ handler = NoRequest /\ ~DesktopRow => call.answer \in {"auditLost", "unavailable", "timeout", "resultTooLarge", "failed"}
          /\ ~call.remote /\ call.answer # "ok" => Nothing
      BY <1>1, <2>3
    <3>2. CASE call.answer = "ok"
      <4>1. given \in {"ok", "resultTooLarge"} /\ (given = "ok" => ~recorded)  BY <1>3, <1>4, <1>16, <2>3, <3>2
      <4> QED BY <3>1, <3>2, <4>1
    <3>3. CASE call.answer # "ok"
      <4>1. given = call.answer /\ (recorded => ~call.remote)  BY <1>3, <1>4, <1>5, <1>16, <2>3, <3>3, ToolFacts
      <4> QED BY <3>1, <3>3, <4>1
    <3> QED BY <3>2, <3>3
  <2> QED BY <1>1, <1>11, <1>12, <1>13, <2>1, <2>2, <2>3 DEF BeforeRequest
<1> QED BY <1>1, <1>11, <1>12, <1>14, <1>17

\* The call and the desktop keep the invariant over every behaviour, whatever crashes.
THEOREM ChannelInvariant == ChannelSpec => []ChannelInv
<1>1. ChannelInit => ChannelInv
  BY DEF ChannelInit, ChannelInv, ChannelTyped, HandlerInv, CallInv, Nothing, DesktopRow, SidecarWrote, NoCall, NoRequest, BeforeRequest
<1>2. ASSUME ChannelInv, [NextChannel]_channelVars PROVE ChannelInv'
  <2>1. CASE NextChannel
    BY <1>2, <2>1, DesktopStep, SidecarStep, QueryStep, ConnectStep, DroppedStep, HandlerStep, AuditStep, RespondStep, LostStep, FinishStep
       DEF NextChannel
  <2>2. CASE UNCHANGED channelVars
    BY <1>2, <2>2 DEF channelVars, ChannelInv, ChannelTyped, HandlerInv, CallInv, Nothing, DesktopRow, SidecarWrote
  <2> QED BY <1>2, <2>1, <2>2
<1> QED BY <1>1, <1>2, PTL DEF ChannelSpec

\* Whatever the desktop does, the answer of a call tells the truth about it: the operation ran
\* at most once over both attempts, and what the sidecar says agrees with what was done and
\* audited (call_control, mark_lost_write_response, finish_error_with_summary).
THEOREM AnswersAlwaysTrue == ChannelSpec => []AnswersAreTrue
<1>1. ChannelInv => AnswersAreTrue
  BY DEF ChannelInv, ChannelTyped, HandlerInv, CallInv, Nothing, DesktopRow, SidecarWrote, Decisions, AnswersAreTrue
<1> QED BY <1>1, ChannelInvariant, PTL

-----------------------------------------------------------------------------
(* Rules, changes and experiments of the automation engine.                *)

ChangeStatus == {"committed", "publish_failed", "active", "reverting", "reverted", "aborted", "promoted"}
Experiments == {"none", "running", "completed", "expired", "aborted", "promoted"}
MetaType == [owner : {"none", "agent", "user"}, change : SUBSET Keys]
ItemType == [op : {"create", "update", "delete"}, before : Nat, metaBefore : MetaType, after : Nat]
ItemSets == UNION {[S -> ItemType] : S \in SUBSET Rules}
ChangeType == [status : ChangeStatus, lifecycle : {"persistent", "ephemeral"}, items : ItemSets, past : BOOLEAN,
               hash : [Rules -> Nat], experiment : Experiments, torn : BOOLEAN, resaved : SUBSET Rules]
ChangeTable == [Keys -> ChangeType \cup {Unused}]
EntryType == [v : Nat, lock : BOOLEAN]
Entries == [Rules -> EntryType]
JobSteps == {"committed", "published"}
Commits == [kind : {"apply", "retry", "manual", "expired", "clear"}, of : SUBSET Keys, step : JobSteps, user : BOOLEAN]
Saves == [kind : {"save"}, rule : Rules, v : Nat, copy : Entries]
Forgets == [kind : {"forget"}, rule : Rules]
TicketType == [lifecycle : {"persistent", "ephemeral"}, plan : Plans, content : Contents, hash : [Rules -> Nat]]
PurgeType == [rule : Rules, copy : Entries]

AutomationTyped ==
  /\ rules \in [Rules -> Nat] /\ meta \in [Rules -> MetaType] /\ changes \in ChangeTable /\ live \in Entries
  /\ temp \subseteq Rules /\ purge \subseteq PurgeType /\ (\A p, q \in purge : p = q)
  /\ ticket \subseteq TicketType
  /\ up \in {"down", "loaded", "recovered", "failed", "up"} /\ stale \in BOOLEAN /\ raced \in BOOLEAN
  /\ job \in {Idle} \cup Commits \cup Saves \cup Forgets

\* What metadata of rule r can be: an owner has at most one change, which touched the rule,
\* only an agent owns a rule through an ephemeral change, and what an agent owns or owned
\* some change created.
MetaSound(r, m) ==
  /\ m.owner = "none" => m.change = {}
  /\ m.owner = "agent" => ~Native(r)
  /\ \A j, k \in m.change : j = k
  /\ \A k \in m.change : Used(k) /\ r \in Touched(k) /\ (m.owner # "agent" => changes[k].lifecycle = "persistent")
\* What an item replaced: never a rule of an ephemeral change; an ephemeral change only
\* creates.
ItemSound(k, r) ==
  LET m == changes[k].items[r].metaBefore IN
  /\ MetaSound(r, m) /\ \A j \in m.change : changes[j].lifecycle = "persistent"
  /\ changes[k].lifecycle = "ephemeral" => m.owner # "agent" /\ changes[k].items[r].op = "create"
  /\ changes[k].items[r].op = "create" => changes[k].items[r].before = 0 /\ changes[k].items[r].after # 0
MetaInv ==
  /\ \A r \in Rules : MetaSound(r, meta[r])
  /\ \A k \in Keys : Used(k) => \A r \in Touched(k) : ItemSound(k, r)

\* The rule is what the change k that owns it wrote.
Written(r, k) == rules[r] = (IF changes[k].lifecycle = "ephemeral" THEN 0 ELSE changes[k].items[r].after) \/ TakenStale(r)
WrittenInv == \A r \in Rules : meta[r].owner = "agent" => \A k \in meta[r].change : Written(r, k)
\* A change that stands has the rules it created, or another change took them over; one that
\* is over has left nothing of them in the tables; but for what the user saved since.
Stands(k) == changes[k].status \in {"committed", "publish_failed", "active"}
Created(k) == {r \in Touched(k) : changes[k].items[r].op = "create" /\ r \notin changes[k].resaved}
Has(k, r) == meta[r].change = {k} \/ \E j \in Keys \ {k} : Used(j) /\ r \in Touched(j)
Gone(k, r) == ~Stands(k) /\ (changes[k].lifecycle = "persistent" => rules[r] = 0)
StandsInv == \A k \in Keys : Used(k) => \A r \in Created(k) : Has(k, r) \/ Gone(k, r)
\* Nobody takes a rule from an ephemeral change that stands.
Short(k) == Used(k) /\ changes[k].lifecycle = "ephemeral" /\ Stands(k)
Holds(k, r) == meta[r].change = {k} /\ meta[r].owner = "agent" /\ \A j \in Keys \ {k} : Used(j) => r \notin Touched(j)
HoldInv == \A k \in Keys : Short(k) => \A r \in Touched(k) : Holds(k, r)
\* No change ever owns a rule of the registry, whatever plans did to it.
Temporary(r) == r \in temp \/ \E p \in purge : p.rule = r
Unowned(r) == meta[r] = NoMeta /\ \A k \in Keys : Used(k) /\ r \in Touched(k) => changes[k].items[r].metaBefore = NoMeta
OwnInv == \A r \in Rules : Temporary(r) => Unowned(r)

\* What the job that holds automation_mutation_lock works on.
Forward == job.kind \in {"apply", "retry"}
Backward == job.kind \in {"manual", "expired", "clear"}
JobInv ==
  /\ Forward => \A k \in job.of : Used(k) /\ changes[k].status \in {"committed", "publish_failed"}
  /\ job.kind = "apply" => \A k \in job.of : changes[k].status = "committed"
  /\ Backward => \A k \in job.of : Used(k) /\ changes[k].status = "reverting"
  /\ job.kind = "save" => rules[job.rule] = job.v /\ meta[job.rule].owner # "agent"
  /\ job.kind = "forget" => rules[job.rule] = 0 /\ meta[job.rule].owner # "agent"
  /\ up # "up" => job = Idle /\ temp = {} /\ purge = {} /\ ~raced
  /\ up \in {"down", "loaded"} => stale

\* The managers against the database: a rule no save is about, outside a job; and all of them
\* between a publication and its record, where the pending changes count as active.
Overlay(r, pending) ==
  {k \in meta[r].change : /\ changes[k].lifecycle = "ephemeral"
                          /\ changes[k].status = "active" \/ (k \in pending /\ changes[k].status \in {"committed", "publish_failed"})}
Match(r, pending) ==
  /\ \A k \in Overlay(r, pending) : live[r].v = changes[k].items[r].after
  /\ Overlay(r, pending) = {} /\ rules[r] # 0 => live[r].v = rules[r]
  /\ Overlay(r, pending) = {} /\ rules[r] = 0 => (live[r].v # 0 <=> Temporary(r))
  /\ (Overlay(r, pending) # {} \/ rules[r] # 0) /\ meta[r].owner = "agent" => live[r].lock
Pending == IF Forward THEN job.of ELSE {}
Resting == ~stale /\ ~raced /\ job.kind \in {"idle", "save", "forget"}
Published == (Forward \/ Backward) /\ job.step = "published" /\ ~raced
MatchInv ==
  /\ Resting => \A r \in Rules \ shed : (job.kind \in {"save", "forget"} => r # job.rule) => Match(r, {})
  /\ Published => \A r \in Rules \ shed : Match(r, Pending)

\* The temporary rules run, and are in every copy of the managers that is still to be
\* written back.
Forgetting(r) == job.kind = "forget" /\ job.rule = r
TempInv ==
  /\ \A r \in temp : Forgetting(r) \/ live[r].v # 0
  /\ \A p \in purge : p.rule \notin temp /\ \A r \in temp : Forgetting(r) \/ p.copy[r].v # 0
  /\ ~raced => \A p \in purge : p.copy = live
  /\ job.kind = "save" => (\A r \in temp : job.copy[r].v # 0) /\ (job.rule \in temp => job.v = 0)
  /\ job.kind = "forget" /\ ~raced => live[job.rule].v = 0

AutomationInv ==
  /\ AutomationTyped /\ MetaInv /\ WrittenInv /\ StandsInv /\ HoldInv /\ OwnInv
  /\ JobInv /\ MatchInv /\ TempInv /\ ExperimentFollowsChange

\* A change that was made is a record with its items, each about a rule.
LEMMA MadeChanges ==
  ASSUME NEW f \in ChangeTable
  PROVE  \A k \in Keys : f[k] # Unused <=> f[k] \in ChangeType
BY DEF ChangeTable, ChangeType, ChangeStatus, Unused

\* The items of a change are about rules.
LEMMA ItemsAreOfRules ==
  ASSUME NEW f \in ItemSets
  PROVE  DOMAIN f \subseteq Rules /\ \A r \in DOMAIN f : f[r] \in ItemType
BY DEF ItemSets

\* A change that was made touched rules, and each of its items is well formed.
LEMMA TouchedRules ==
  ASSUME AutomationTyped, NEW k \in Keys, Used(k)
  PROVE  /\ changes[k] \in ChangeType /\ Touched(k) \subseteq Rules
         /\ \A r \in Touched(k) : changes[k].items[r] \in ItemType /\ changes[k].items[r].metaBefore \in MetaType
<1>1. changes[k] \in ChangeType  BY MadeChanges DEF AutomationTyped, Used
<1>2. changes[k].items \in ItemSets  BY <1>1 DEF ChangeType
<1>3. DOMAIN changes[k].items \subseteq Rules /\ \A r \in DOMAIN changes[k].items : changes[k].items[r] \in ItemType
  BY <1>2, ItemsAreOfRules
<1> QED BY <1>1, <1>3 DEF Touched, ItemType

\* The kinds of jobs tell their records apart.
LEMMA JobKinds ==
  ASSUME AutomationTyped
  PROVE  /\ job.kind \in {"idle", "apply", "retry", "manual", "expired", "clear", "save", "forget"}
         /\ (job.kind = "idle" <=> job = Idle) /\ (Forward \/ Backward => job \in Commits)
         /\ (job.kind = "save" => job \in Saves) /\ (job.kind = "forget" => job \in Forgets)
         /\ (Forward \/ Backward => job.of \subseteq Keys)
<1>1. job \in {Idle} \cup Commits \cup Saves \cup Forgets  BY DEF AutomationTyped
<1>2. CASE job = Idle  BY <1>2 DEF Idle, Forward, Backward
<1>3. CASE job \in Commits  BY <1>3 DEF Idle, Commits, Forward, Backward
<1>5. CASE job \in Saves  BY <1>5 DEF Idle, Saves, Forward, Backward
<1>6. CASE job \in Forgets  BY <1>6 DEF Idle, Forgets, Forward, Backward
<1> QED BY <1>1, <1>2, <1>3, <1>5, <1>6

\* A table of changes is rewritten without touching what the changes did.
Rewritten(f, g) ==
  \A k \in Keys : /\ f[k] # Unused <=> g[k] # Unused
                  /\ f[k] # Unused => g[k].items = f[k].items /\ g[k].lifecycle = f[k].lifecycle

\* What SetStatus leaves of the changes.
LEMMA StatusIsSet ==
  ASSUME NEW f \in ChangeTable, NEW ks \in SUBSET Keys, NEW s \in ChangeStatus, \A k \in ks : f[k] # Unused
  PROVE  /\ SetStatus(f, ks, s) \in ChangeTable /\ Rewritten(f, SetStatus(f, ks, s))
         /\ \A k \in Keys \ ks : SetStatus(f, ks, s)[k] = f[k]
         /\ \A k \in ks : SetStatus(f, ks, s)[k] \in ChangeType /\ SetStatus(f, ks, s)[k].status = s
                          /\ SetStatus(f, ks, s)[k].experiment = f[k].experiment /\ SetStatus(f, ks, s)[k].torn = f[k].torn
                          /\ SetStatus(f, ks, s)[k].resaved = f[k].resaved
<1>1. \A k \in ks : f[k] \in ChangeType  BY MadeChanges
<1>2. \A k \in ks : /\ [f[k] EXCEPT !.status = s] \in ChangeType /\ [f[k] EXCEPT !.status = s].status = s
                    /\ [f[k] EXCEPT !.status = s].items = f[k].items /\ [f[k] EXCEPT !.status = s].lifecycle = f[k].lifecycle
                    /\ [f[k] EXCEPT !.status = s].experiment = f[k].experiment /\ [f[k] EXCEPT !.status = s].torn = f[k].torn
                    /\ [f[k] EXCEPT !.status = s].resaved = f[k].resaved
  BY <1>1 DEF ChangeType
<1>3. /\ \A k \in Keys \ ks : SetStatus(f, ks, s)[k] = f[k]
      /\ \A k \in ks : SetStatus(f, ks, s)[k] = [f[k] EXCEPT !.status = s]
  BY DEF SetStatus
<1>4. SetStatus(f, ks, s) \in ChangeTable
  <2>1. \A k \in Keys : SetStatus(f, ks, s)[k] \in ChangeType \cup {Unused}  BY <1>2, <1>3 DEF ChangeTable
  <2> QED BY <2>1 DEF SetStatus, ChangeTable
<1>5. Rewritten(f, SetStatus(f, ks, s))  BY <1>1, <1>2, <1>3, <1>4, MadeChanges DEF Rewritten
<1> QED BY <1>2, <1>3, <1>4, <1>5

\* What SetExperiment leaves of the changes.
LEMMA ExperimentIsSet ==
  ASSUME NEW f \in ChangeTable, NEW ks \in SUBSET Keys, NEW s \in Experiments \ {"none", "running"}, \A k \in ks : f[k] # Unused
  PROVE  /\ SetExperiment(f, ks, s) \in ChangeTable /\ Rewritten(f, SetExperiment(f, ks, s))
         /\ \A k \in Keys \ ks : SetExperiment(f, ks, s)[k] = f[k]
         /\ \A k \in ks : SetExperiment(f, ks, s)[k] \in ChangeType /\ SetExperiment(f, ks, s)[k].status = f[k].status
                          /\ SetExperiment(f, ks, s)[k].experiment # "running" /\ SetExperiment(f, ks, s)[k].resaved = f[k].resaved
<1>1. \A k \in ks : f[k] \in ChangeType  BY MadeChanges
<1>2. \A k \in ks : LET g == [f[k] EXCEPT !.experiment = s] IN
                    /\ g \in ChangeType /\ g.status = f[k].status /\ g.items = f[k].items /\ g.lifecycle = f[k].lifecycle
                    /\ g.resaved = f[k].resaved /\ g.experiment = s
  BY <1>1 DEF ChangeType
<1>3. /\ \A k \in Keys \ ks : SetExperiment(f, ks, s)[k] = f[k]
      /\ \A k \in ks : SetExperiment(f, ks, s)[k] = IF f[k].experiment # "none" THEN [f[k] EXCEPT !.experiment = s] ELSE f[k]
  BY DEF SetExperiment
<1>4. SetExperiment(f, ks, s) \in ChangeTable
  <2>1. \A k \in Keys : SetExperiment(f, ks, s)[k] \in ChangeType \cup {Unused}  BY <1>2, <1>3 DEF ChangeTable
  <2> QED BY <2>1 DEF SetExperiment, ChangeTable
<1>5. Rewritten(f, SetExperiment(f, ks, s))  BY <1>1, <1>2, <1>3, <1>4, MadeChanges DEF Rewritten
<1> QED BY <1>1, <1>2, <1>3, <1>4, <1>5

\* What changes did stays: their rules, what they replaced and what they wrote.
LEMMA DeedsStay ==
  ASSUME AutomationTyped, AutomationTyped', MetaInv, Rewritten(changes, changes')
  PROVE  /\ \A k \in Keys : Used(k)' <=> Used(k)
         /\ \A k \in Keys : Used(k) => changes'[k].items = changes[k].items /\ changes'[k].lifecycle = changes[k].lifecycle
         /\ \A r \in Rules, m \in MetaType : MetaSound(r, m) => MetaSound(r, m)'
         /\ \A k \in Keys : Used(k)' => \A r \in Touched(k)' : ItemSound(k, r)'
         /\ \A r \in Rules : TakenStale(r) => TakenStale(r)'
<1>1. \A k \in Keys : Used(k)' <=> Used(k)  BY DEF Rewritten, Used
<1>2. \A k \in Keys : Used(k) => changes'[k].items = changes[k].items /\ changes'[k].lifecycle = changes[k].lifecycle
  BY DEF Rewritten, Used
<1>0. \A r \in Rules : ~Native(r) => ~Native(r)'  BY <1>1, <1>2 DEF Native, Touched
<1>3. ASSUME NEW r \in Rules, NEW m \in MetaType, MetaSound(r, m) PROVE MetaSound(r, m)'
  BY <1>0, <1>1, <1>2, <1>3 DEF MetaSound, MetaType, Touched
<1>4. ASSUME NEW k \in Keys, Used(k), NEW r \in Touched(k) PROVE ItemSound(k, r)'
  <2>1. PICK m \in MetaType : m = changes[k].items[r].metaBefore  BY <1>4, TouchedRules
  <2>2. r \in Rules /\ m = changes'[k].items[r].metaBefore /\ changes'[k].lifecycle = changes[k].lifecycle /\ changes'[k].items = changes[k].items
    BY <1>2, <1>4, <2>1, TouchedRules
  <2>3. MetaSound(r, m) /\ (\A j \in m.change : changes[j].lifecycle = "persistent") /\ (changes[k].lifecycle = "ephemeral" => m.owner # "agent" /\ changes[k].items[r].op = "create")
        /\ (changes[k].items[r].op = "create" => changes[k].items[r].before = 0 /\ changes[k].items[r].after # 0)
    BY <1>4, <2>1 DEF MetaInv, ItemSound
  <2>4. \A j \in m.change : j \in Keys /\ Used(j)  BY <2>1, <2>3 DEF MetaSound, MetaType
  <2> QED BY <1>2, <1>3, <2>2, <2>3, <2>4 DEF ItemSound
<1>5. ASSUME NEW r \in Rules, TakenStale(r) PROVE TakenStale(r)'
  <2>1. PICK k \in Keys : /\ Used(k) /\ r \in Touched(k) /\ changes[k].items[r].metaBefore.owner = "agent"
                          /\ \E j \in changes[k].items[r].metaBefore.change : changes[k].items[r].before # changes[j].items[r].after
    BY <1>5 DEF TakenStale
  <2>2. PICK j \in changes[k].items[r].metaBefore.change : changes[k].items[r].before # changes[j].items[r].after  BY <2>1
  <2>3. j \in Keys /\ Used(j)  BY <2>1, <2>2, TouchedRules DEF MetaInv, ItemSound, MetaSound, MetaType
  <2>4. changes'[k].items = changes[k].items /\ changes'[j].items = changes[j].items /\ Used(k)'  BY <1>1, <1>2, <2>1, <2>3
  <2> QED BY <2>1, <2>2, <2>4 DEF TakenStale, Touched
<1> QED BY <1>1, <1>2, <1>3, <1>4, <1>5 DEF Touched

\* Neither rules nor their owners change.
LEMMA OwnersStay ==
  ASSUME AutomationTyped, AutomationTyped', MetaInv, WrittenInv, Rewritten(changes, changes'), rules' = rules, meta' = meta
  PROVE  MetaInv' /\ WrittenInv'
<1>1. \A r \in Rules : meta[r] \in MetaType /\ MetaSound(r, meta[r])  BY DEF AutomationTyped, MetaInv
<1>2. \A r \in Rules : MetaSound(r, meta[r])'  BY <1>1, DeedsStay
<1>3. MetaInv'  BY <1>2, DeedsStay DEF MetaInv
<1>4. ASSUME NEW r \in Rules, meta[r].owner = "agent", NEW k \in meta[r].change PROVE Written(r, k)'
  <2>1. k \in Keys /\ Used(k) /\ Written(r, k)  BY <1>1, <1>4 DEF MetaSound, MetaType, WrittenInv
  <2>2. changes'[k].items = changes[k].items /\ changes'[k].lifecycle = changes[k].lifecycle /\ (TakenStale(r) => TakenStale(r)')
    BY <2>1, DeedsStay
  <2> QED BY <2>1, <2>2 DEF Written
<1> QED BY <1>3, <1>4 DEF WrittenInv

\* A change has what it had, and one that is over left nothing behind.
LEMMA StandingStays ==
  ASSUME AutomationTyped, AutomationTyped', MetaInv, StandsInv, Rewritten(changes, changes'),
         \A r \in Rules : meta'[r].change = meta[r].change,
         \A k \in Keys : Used(k) => /\ Stands(k)' => Stands(k)
                                   /\ \A r \in Touched(k) \ changes'[k].resaved : rules'[r] \in {rules[r], 0} /\ r \notin changes[k].resaved
  PROVE  StandsInv'
<1>1. ASSUME NEW k \in Keys, Used(k)', NEW r \in Created(k)' PROVE Has(k, r)' \/ Gone(k, r)'
  <2>1. Used(k) /\ r \in Touched(k) /\ changes[k].items[r].op = "create" /\ changes'[k].lifecycle = changes[k].lifecycle
    BY <1>1, DeedsStay DEF Created, Touched
  <2>2. r \in Rules \ changes'[k].resaved  BY <1>1, <2>1, TouchedRules DEF Created
  <2>3. r \in Created(k) /\ rules'[r] \in {rules[r], 0}  BY <2>1, <2>2 DEF Created
  <2>4. Has(k, r) \/ Gone(k, r)  BY <2>1, <2>3 DEF StandsInv
  <2>5. \A j \in Keys : Used(j) /\ r \in Touched(j) => Used(j)' /\ r \in Touched(j)'  BY DeedsStay DEF Touched
  <2> QED BY <2>1, <2>2, <2>3, <2>4, <2>5 DEF Has, Gone
<1> QED BY <1>1 DEF StandsInv

\* An ephemeral change that stands keeps what it holds.
LEMMA HoldStays ==
  ASSUME AutomationTyped, AutomationTyped', MetaInv, HoldInv, Rewritten(changes, changes'),
         \A k \in Keys : Used(k) /\ changes[k].lifecycle = "ephemeral" /\ Stands(k)' =>
           Stands(k) /\ \A r \in Touched(k) : meta[r].change = {k} => meta'[r] = meta[r]
  PROVE  HoldInv'
<1>1. ASSUME NEW k \in Keys, Short(k)', NEW r \in Touched(k)' PROVE Holds(k, r)'
  <2>1. Used(k) /\ r \in Touched(k) /\ changes[k].lifecycle = "ephemeral" /\ Stands(k)'  BY <1>1, DeedsStay DEF Short, Touched
  <2>2. Stands(k) /\ Holds(k, r)  BY <2>1 DEF HoldInv, Short
  <2>3. meta'[r] = meta[r]  BY <2>1, <2>2 DEF Holds
  <2>4. \A j \in Keys : Used(j)' => Used(j) /\ Touched(j)' = Touched(j)  BY DeedsStay DEF Touched
  <2> QED BY <2>2, <2>3, <2>4 DEF Holds
<1> QED BY <1>1 DEF HoldInv

\* The rules of the registry stay without an owner.
LEMMA OwnStays ==
  ASSUME AutomationTyped, AutomationTyped', MetaInv, OwnInv, Rewritten(changes, changes'),
         \A r \in Rules : Temporary(r)' => Temporary(r),
         \A r \in Rules : Temporary(r) /\ Unowned(r) => meta'[r] = NoMeta
  PROVE  OwnInv'
<1>1. ASSUME NEW r \in Rules, Temporary(r)' PROVE Unowned(r)'
  <2>1. Temporary(r) /\ Unowned(r) /\ meta'[r] = NoMeta  BY <1>1 DEF OwnInv
  <2>2. \A k \in Keys : Used(k)' => Used(k) /\ Touched(k)' = Touched(k) /\ changes'[k].items = changes[k].items
    BY DeedsStay DEF Touched
  <2> QED BY <2>1, <2>2 DEF Unowned
<1> QED BY <1>1 DEF OwnInv

\* A rule keeps matching as long as nothing about it changes.
LEMMA MatchStays ==
  ASSUME AutomationTyped, AutomationTyped', MetaInv, Rewritten(changes, changes'), NEW r \in Rules, NEW pending,
         live'[r] = live[r], meta'[r] = meta[r], rules'[r] = rules[r],
         \A k \in meta[r].change : changes'[k].status = changes[k].status,
         Temporary(r)' <=> Temporary(r),
         Match(r, pending)
  PROVE  Match(r, pending)'
<1>1. \A k \in meta[r].change : k \in Keys /\ Used(k)  BY DEF AutomationTyped, MetaInv, MetaSound, MetaType
<1>2. \A k \in meta[r].change : changes'[k].items = changes[k].items /\ changes'[k].lifecycle = changes[k].lifecycle
  BY <1>1, DeedsStay
<1>3. Overlay(r, pending)' = Overlay(r, pending) /\ \A k \in Overlay(r, pending) : k \in meta[r].change  BY <1>2 DEF Overlay
<1> QED BY <1>2, <1>3 DEF Match

\* The parts of the invariant, and the types most steps need.
LEMMA AutomationParts ==
  ASSUME AutomationInv
  PROVE  /\ AutomationTyped /\ MetaInv /\ WrittenInv /\ StandsInv /\ HoldInv /\ OwnInv
         /\ JobInv /\ MatchInv /\ TempInv /\ ExperimentFollowsChange
         /\ rules \in [Rules -> Nat] /\ meta \in [Rules -> MetaType] /\ changes \in ChangeTable /\ live \in Entries
         /\ temp \subseteq Rules
BY DEF AutomationInv, AutomationTyped

\* Only the statuses, rules and managers matter: a step that keeps them keeps the invariant.
LEMMA RecordsOnly ==
  ASSUME AutomationInv, changes' \in ChangeTable, Rewritten(changes, changes'), ExperimentFollowsChange', ticket' \subseteq TicketType,
         \A k \in Keys : Used(k) => changes'[k].status = changes[k].status /\ changes'[k].resaved = changes[k].resaved,
         UNCHANGED <<rules, meta, live, temp, job, purge, up, stale, raced, shed>>
  PROVE  AutomationInv'
<1>1. AutomationTyped'  BY AutomationParts DEF AutomationTyped
<1>2. MetaInv' /\ WrittenInv'  BY <1>1, AutomationParts, OwnersStay
<1>3. StandsInv'
  <2>1. \A k \in Keys : Used(k) => (Stands(k)' => Stands(k)) /\ \A r \in Touched(k) \ changes'[k].resaved : r \notin changes[k].resaved
    BY DEF Stands
  <2> QED BY <1>1, <2>1, AutomationParts, StandingStays
<1>0. HoldInv' /\ OwnInv'
  <2>1. \A k \in Keys : Used(k) => (Stands(k)' => Stands(k))  BY DEF Stands
  <2>2. \A r \in Rules : Temporary(r)' <=> Temporary(r)  BY DEF Temporary
  <2>3. \A r \in Rules : Unowned(r) => meta'[r] = NoMeta  BY DEF Unowned
  <2> QED BY <1>1, <2>1, <2>2, <2>3, AutomationParts, HoldStays, OwnStays
<1>4. JobInv'
  <2>1. Forward' = Forward /\ Backward' = Backward  BY DEF Forward, Backward
  <2>2. Forward \/ Backward => job.of \subseteq Keys  BY AutomationParts, JobKinds
  <2>3. \A k \in Keys : Used(k) => Used(k)'  BY <1>1, AutomationParts, DeedsStay
  <2>4. Forward => \A k \in job.of : k \in Keys /\ Used(k) /\ changes[k].status \in {"committed", "publish_failed"}
    BY <2>2, AutomationParts DEF JobInv
  <2>5. Backward => \A k \in job.of : k \in Keys /\ Used(k) /\ changes[k].status = "reverting"
    BY <2>2, AutomationParts DEF JobInv
  <2>6. job.kind = "apply" => \A k \in job.of : k \in Keys /\ Used(k) /\ changes[k].status = "committed"
    BY <2>4, AutomationParts DEF JobInv, Forward
  <2>7. /\ job.kind = "save" => rules[job.rule] = job.v /\ meta[job.rule].owner # "agent"
        /\ job.kind = "forget" => rules[job.rule] = 0 /\ meta[job.rule].owner # "agent"
        /\ up \in {"down", "loaded"} => stale
        /\ (up # "up" => job = Idle /\ temp = {} /\ purge = {} /\ ~raced)
    BY AutomationParts DEF JobInv
  <2> QED BY <2>1, <2>3, <2>4, <2>5, <2>6, <2>7 DEF JobInv
<1>5. MatchInv'
  <2>1. PICK pending : pending = Pending  OBVIOUS
  <2>2. Pending' = pending /\ Resting' = Resting /\ Published' = Published
    BY <2>1 DEF Pending, Resting, Published, Forward, Backward
  <2>3. ASSUME NEW r \in Rules, NEW p, Match(r, p) PROVE Match(r, p)'
    <3>1. \A k \in meta[r].change : k \in Keys /\ Used(k)  BY AutomationParts DEF MetaInv, MetaSound, MetaType
    <3>2. \A k \in meta[r].change : changes'[k].status = changes[k].status  BY <3>1
    <3>3. Temporary(r)' <=> Temporary(r)  BY DEF Temporary
    <3> QED BY <1>1, <2>3, <3>2, <3>3, AutomationParts, MatchStays
  <2>4. Resting => \A r \in Rules \ shed : (job.kind \in {"save", "forget"} => r # job.rule) => Match(r, {})
    BY AutomationParts DEF MatchInv
  <2>5. Published => \A r \in Rules \ shed : Match(r, pending)  BY <2>1, AutomationParts DEF MatchInv
  <2> QED BY <2>2, <2>3, <2>4, <2>5 DEF MatchInv
<1>6. TempInv'  BY AutomationParts DEF TempInv, Forgetting
<1> QED BY <1>0, <1>1, <1>2, <1>3, <1>4, <1>5, <1>6 DEF AutomationInv

\* A step that leaves everything but the ticket and the evidence alone.
LEMMA SameRecords ==
  ASSUME AutomationInv, UNCHANGED <<rules, meta, changes, live, temp, job, purge, up, stale, raced, shed>>, ticket' \subseteq TicketType
  PROVE  AutomationInv'
<1>1. changes' \in ChangeTable /\ Rewritten(changes, changes')  BY AutomationParts DEF Rewritten
<1>2. ExperimentFollowsChange'  BY AutomationParts DEF ExperimentFollowsChange, Used
<1> QED BY <1>1, <1>2, RecordsOnly

\* Plans, the time to live and verification.
LEMMA PlanSteps ==
  ASSUME AutomationInv,
         \/ \E lifecycle \in {"persistent", "ephemeral"}, plan \in Plans, content \in Contents, user \in BOOLEAN :
              Validate(lifecycle, plan, content, user)
         \/ ApplyRefused
         \/ \E k \in Keys : VerifyStart(k)
  PROVE  AutomationInv'
<1>1. UNCHANGED <<rules, meta, changes, live, temp, job, purge, up, stale, raced, shed>>
  BY DEF Validate, ApplyRefused, VerifyStart
<1>2. ScopeHash \in [Rules -> Nat]  BY AutomationParts DEF ScopeHash, Entries, EntryType
<1>3. ASSUME NEW lifecycle \in {"persistent", "ephemeral"}, NEW plan \in Plans, NEW content \in Contents, NEW user \in BOOLEAN,
             Validate(lifecycle, plan, content, user)
      PROVE  ticket' \subseteq TicketType
  BY <1>2, <1>3 DEF Validate, TicketType
<1>4. ticket \subseteq TicketType  BY AutomationParts DEF AutomationTyped
<1>5. ticket' \subseteq TicketType  BY <1>3, <1>4 DEF ApplyRefused, VerifyStart
<1> QED BY <1>1, <1>5, SameRecords

\* The time to live of a change runs out.
LEMMA LapseStep ==
  ASSUME AutomationInv, NEW k \in Keys, Lapse(k)
  PROVE  AutomationInv'
<1>1. /\ Used(k) /\ changes' = [changes EXCEPT ![k].past = TRUE]
      /\ UNCHANGED <<rules, meta, live, temp, job, purge, ticket, up, stale, raced, shed>>
  BY DEF Lapse
<1>2. PICK c \in ChangeType : c = changes[k]  BY <1>1, AutomationParts, TouchedRules
<1>0. PICK d : d = [c EXCEPT !.past = TRUE]  OBVIOUS
<1>3. /\ d \in ChangeType /\ d.status = c.status /\ d.items = c.items /\ d.lifecycle = c.lifecycle
      /\ d.resaved = c.resaved /\ d.experiment = c.experiment /\ d.torn = c.torn
  BY <1>0, <1>2 DEF ChangeType
<1>4. changes' = [changes EXCEPT ![k] = d]  BY <1>0, <1>1, <1>2
<1>5. changes' \in ChangeTable /\ changes'[k] = d /\ \A j \in Keys \ {k} : changes'[j] = changes[j]
  BY <1>3, <1>4, AutomationParts DEF ChangeTable
<1>6. Rewritten(changes, changes')  BY <1>2, <1>3, <1>5, AutomationParts, MadeChanges DEF Rewritten
<1>7. \A j \in Keys : Used(j) => changes'[j].status = changes[j].status /\ changes'[j].resaved = changes[j].resaved
  BY <1>2, <1>3, <1>5
<1>8. ExperimentFollowsChange'  BY <1>1, <1>2, <1>3, <1>5, AutomationParts DEF ExperimentFollowsChange, Used
<1>9. ticket' \subseteq TicketType  BY <1>1, AutomationParts DEF AutomationTyped
<1> QED BY <1>1, <1>5, <1>6, <1>7, <1>8, <1>9, RecordsOnly

\* The record of a verification opens an experiment only of an active change.
LEMMA VerifyRecordStep ==
  ASSUME AutomationInv, NEW k \in Keys, VerifyRecord(k)
  PROVE  AutomationInv'
<1>1. UNCHANGED <<rules, meta, live, temp, job, purge, ticket, up, stale, raced, shed>>  BY DEF VerifyRecord
<1>2. ticket' \subseteq TicketType  BY <1>1, AutomationParts DEF AutomationTyped
<1>3. CASE changes' = changes  BY <1>1, <1>2, <1>3, SameRecords
<1>4. CASE StillActive(k) /\ changes' = [changes EXCEPT ![k].experiment = "running"]
  <2>1. Used(k)  BY <1>4 DEF StillActive, Used, Unused
  <2>2. PICK c \in ChangeType : c = changes[k]  BY <2>1, AutomationParts, TouchedRules
  <2>0. PICK d : d = [c EXCEPT !.experiment = "running"]  OBVIOUS
  <2>3. d \in ChangeType /\ d.status = c.status /\ d.items = c.items /\ d.lifecycle = c.lifecycle /\ d.resaved = c.resaved
    BY <2>0, <2>2 DEF ChangeType, Experiments
  <2>4. changes' = [changes EXCEPT ![k] = d]  BY <1>4, <2>0, <2>2
  <2>5. changes' \in ChangeTable /\ changes'[k] = d /\ \A j \in Keys \ {k} : changes'[j] = changes[j]
    BY <2>3, <2>4, AutomationParts DEF ChangeTable
  <2>6. Rewritten(changes, changes')
    <3>1. changes[k] # Unused /\ changes'[k] # Unused  BY <2>1, <2>5, <2>3, AutomationParts, MadeChanges DEF Used
    <3> QED BY <2>2, <2>3, <2>5, <3>1 DEF Rewritten
  <2>7. \A j \in Keys : Used(j) => changes'[j].status = changes[j].status /\ changes'[j].resaved = changes[j].resaved
    BY <2>2, <2>3, <2>5
  <2>8. ExperimentFollowsChange'  BY <1>4, <2>2, <2>3, <2>5, AutomationParts DEF ExperimentFollowsChange, Used, StillActive
  <2> QED BY <1>1, <1>2, <2>5, <2>6, <2>7, <2>8, RecordsOnly
<1> QED BY <1>3, <1>4 DEF VerifyRecord

\* A step that leaves rules, owners and changes alone.
LEMMA DatabaseSame ==
  ASSUME AutomationInv, AutomationTyped', UNCHANGED <<rules, meta, changes>>
  PROVE  /\ MetaInv' /\ WrittenInv' /\ StandsInv' /\ HoldInv' /\ ExperimentFollowsChange' /\ Rewritten(changes, changes')
         /\ (\A r \in Rules : Temporary(r)' => Temporary(r)) => OwnInv'
         /\ \A r \in Rules, p \in SUBSET Keys : Match(r, p) /\ live'[r] = live[r] /\ (Temporary(r)' <=> Temporary(r)) => Match(r, p)'
<1>1. Rewritten(changes, changes')  BY DEF Rewritten
<1>2. MetaInv' /\ WrittenInv'  BY <1>1, AutomationParts, OwnersStay
<1>3. StandsInv'  BY <1>1, AutomationParts, StandingStays DEF Stands, Used
<1>4. ExperimentFollowsChange'  BY AutomationParts DEF ExperimentFollowsChange, Used
<1>5. ASSUME NEW r \in Rules, NEW p \in SUBSET Keys, Match(r, p), live'[r] = live[r], Temporary(r)' <=> Temporary(r) PROVE Match(r, p)'
  BY <1>1, <1>5, AutomationParts, MatchStays
<1>6. HoldInv'  BY <1>1, AutomationParts, HoldStays DEF Stands
<1>7. ASSUME \A r \in Rules : Temporary(r)' => Temporary(r) PROVE OwnInv'  BY <1>1, <1>7, AutomationParts, OwnStays DEF Unowned
<1> QED BY <1>1, <1>2, <1>3, <1>4, <1>5, <1>6, <1>7

\* A job that has committed and not published: nothing is said of the managers.
LEMMA CommittedJob ==
  ASSUME AutomationInv, AutomationTyped', job = Idle, job' \in Commits, job'.step = "committed",
         UNCHANGED <<live, temp, purge, up, raced>>
  PROVE  MatchInv' /\ TempInv'
<1>1. job'.kind \in {"apply", "retry", "manual", "expired", "clear"}  BY DEF Commits
<1>2. job.kind = "idle"  BY DEF Idle
<1>3. MatchInv'  BY <1>1 DEF MatchInv, Resting, Published
<1>4. TempInv'  BY <1>1, <1>2, AutomationParts DEF TempInv, Forgetting
<1> QED BY <1>3, <1>4

\* The same plan sent again.
LEMMA RetryStep ==
  ASSUME AutomationInv, NEW k \in Keys, ApplyRetry(k)
  PROVE  AutomationInv'
<1>1. /\ up = "up" /\ job = Idle /\ Used(k) /\ changes[k].status \in {"committed", "publish_failed"}
      /\ job' = [kind |-> "retry", of |-> {k}, step |-> "committed", user |-> FALSE]
      /\ UNCHANGED <<rules, meta, changes, live, temp, purge, ticket, up, stale, raced>>
  BY DEF ApplyRetry, Free
<1>2. job' \in Commits /\ job'.step = "committed" /\ job'.kind = "retry" /\ job'.of = {k}  BY <1>1 DEF Commits, JobSteps
<1>3. AutomationTyped'  BY <1>1, <1>2, AutomationParts DEF AutomationTyped
<1>4. JobInv'  BY <1>1, <1>2 DEF JobInv, Forward, Backward, Used
<1>5. \A r \in Rules : Temporary(r)' => Temporary(r)  BY <1>1 DEF Temporary
<1> QED BY <1>1, <1>2, <1>3, <1>4, <1>5, DatabaseSame, CommittedJob DEF AutomationInv

\* What a publication makes of the database matches it.
LEMMA DatabaseMatches ==
  ASSUME AutomationTyped, MetaInv, NEW r \in Rules, NEW p \in SUBSET Keys, NEW e, e = FromDatabase(changes, rules, meta, p)[r]
  PROVE  /\ e \in EntryType /\ (\A k \in Overlay(r, p) : e.v = changes[k].items[r].after)
         /\ (Overlay(r, p) = {} => e.v = rules[r]) /\ (Overlay(r, p) # {} => e.v # 0)
         /\ (e.v # 0 /\ meta[r].owner = "agent" => e.lock)
<1>1. PICK over : over = {k \in Running(changes, p) : meta[r].change = {k} /\ r \in DOMAIN changes[k].items}  OBVIOUS
<1>2. e = IF over # {} THEN [v |-> changes[CHOOSE k \in over : TRUE].items[r].after, lock |-> TRUE]
          ELSE [v |-> rules[r], lock |-> rules[r] # 0 /\ meta[r].owner = "agent"]
  BY <1>1 DEF FromDatabase
<1>3. MetaSound(r, meta[r]) /\ meta[r] \in MetaType /\ rules[r] \in Nat  BY DEF MetaInv, AutomationTyped
<1>4. \A k \in meta[r].change : k \in Keys /\ Used(k) /\ r \in Touched(k) /\ meta[r].change = {k}  BY <1>3 DEF MetaSound, MetaType
<1>5. over = Overlay(r, p)
  <2>1. ASSUME NEW k \in over PROVE k \in Overlay(r, p)  BY <1>1, <2>1 DEF Running, Overlay
  <2>2. ASSUME NEW k \in Overlay(r, p) PROVE k \in over  BY <1>1, <1>4, <2>2 DEF Running, Overlay, Used, Touched
  <2> QED BY <2>1, <2>2
<1>6. \A k \in over : meta[r].change = {k} /\ k \in meta[r].change  BY <1>1
<1>7. CASE over = {}
  <2>1. PICK b \in BOOLEAN : b = (rules[r] # 0 /\ meta[r].owner = "agent")  OBVIOUS
  <2>2. e = [v |-> rules[r], lock |-> b]  BY <1>2, <1>7, <2>1
  <2>3. e \in EntryType /\ e.v = rules[r] /\ e.lock = b  BY <1>3, <2>2 DEF EntryType
  <2> QED BY <1>5, <1>7, <2>1, <2>3
<1>8. CASE over # {}
  <2>1. PICK c : c = CHOOSE k \in over : TRUE  OBVIOUS
  <2>2. c \in over  BY <1>8, <2>1
  <2>3. \A k \in over : k = c  BY <1>6, <2>2
  <2>4. changes[c].items[r].after \in Nat /\ changes[c].items[r].after # 0
    <3>1. c \in Keys /\ Used(c) /\ r \in Touched(c) /\ changes[c].lifecycle = "ephemeral"  BY <1>4, <1>5, <1>6, <2>2 DEF Overlay
    <3> QED BY <3>1, TouchedRules DEF ItemType, MetaInv, ItemSound
  <2>5. e = [v |-> changes[c].items[r].after, lock |-> TRUE]  BY <1>2, <1>8, <2>1
  <2> QED BY <1>5, <1>8, <2>3, <2>4, <2>5 DEF EntryType
<1> QED BY <1>7, <1>8

\* A publication is made of the database and the registry's rules.
LEMMA PublicationMatches ==
  ASSUME AutomationTyped, MetaInv, NEW p \in SUBSET Keys, NEW e, e = WithTemporary(FromDatabase(changes, rules, meta, p)),
         \A r \in temp : live[r].v # 0
  PROVE  /\ e \in Entries
         /\ \A r \in temp : e[r].v # 0
         /\ \A r \in Rules : /\ \A k \in Overlay(r, p) : e[r].v = changes[k].items[r].after
                             /\ Overlay(r, p) = {} /\ rules[r] # 0 => e[r].v = rules[r]
                             /\ Overlay(r, p) = {} /\ rules[r] = 0 => (e[r].v # 0 <=> r \in temp)
                             /\ (Overlay(r, p) # {} \/ rules[r] # 0) /\ meta[r].owner = "agent" => e[r].lock
<1>0. PICK d : d = FromDatabase(changes, rules, meta, p)  OBVIOUS
<1>1. \A r \in Rules : /\ d[r] \in EntryType /\ (\A k \in Overlay(r, p) : d[r].v = changes[k].items[r].after)
                       /\ (Overlay(r, p) = {} => d[r].v = rules[r]) /\ (Overlay(r, p) # {} => d[r].v # 0)
                       /\ (d[r].v # 0 /\ meta[r].owner = "agent" => d[r].lock)
  BY <1>0, DatabaseMatches
<1>2. \A r \in Rules : e[r] = IF d[r].v = 0 /\ r \in temp THEN live[r] ELSE d[r]  BY <1>0 DEF WithTemporary
<1>3. \A r \in Rules : live[r] \in EntryType  BY DEF AutomationTyped, Entries
<1>4. e \in Entries
  <2>1. \A r \in Rules : e[r] \in EntryType  BY <1>1, <1>2, <1>3
  <2> QED BY <2>1 DEF Entries, WithTemporary
<1>5. ASSUME NEW r \in Rules
      PROVE  /\ r \in temp => e[r].v # 0
             /\ \A k \in Overlay(r, p) : e[r].v = changes[k].items[r].after
             /\ Overlay(r, p) = {} /\ rules[r] # 0 => e[r].v = rules[r]
             /\ Overlay(r, p) = {} /\ rules[r] = 0 => (e[r].v # 0 <=> r \in temp)
             /\ (Overlay(r, p) # {} \/ rules[r] # 0) /\ meta[r].owner = "agent" => e[r].lock
  <2>1. CASE Overlay(r, p) # {}
    <3>1. e[r] = d[r] /\ d[r].v # 0  BY <1>1, <1>2, <2>1
    <3> QED BY <1>1, <2>1, <3>1
  <2>2. CASE Overlay(r, p) = {}  BY <1>1, <1>2, <2>2
  <2> QED BY <2>1, <2>2
<1>6. \A r \in temp : r \in Rules  BY DEF AutomationTyped
<1> QED BY <1>4, <1>5, <1>6

\* A publication makes the managers match the database, the pending change included; when it fails
\* the managers count as stale.
LEMMA PublishStep ==
  ASSUME AutomationInv, Publish
  PROVE  AutomationInv'
<1>1. job.kind \in {"apply", "retry", "manual", "expired", "clear"} /\ job.step = "committed" /\ purge = {} /\ up = "up"
  BY DEF Publish, Outcome
<1>2. (Forward \/ Backward) /\ job # Idle /\ job \in Commits /\ job.of \in SUBSET Keys
  BY <1>1, AutomationParts, JobKinds DEF Forward, Backward
<1>3. PICK p \in SUBSET Keys : p = Pending  BY <1>2 DEF Pending
<1>4. UNCHANGED <<rules, meta, temp, purge, ticket, up>>  BY DEF Publish
<1>5. CASE /\ live' = WithTemporary(FromDatabase(changes, rules, meta, p))
           /\ job' = [job EXCEPT !.step = "published"] /\ stale' = FALSE /\ raced' = FALSE /\ shed' = {} /\ changes' = changes
  <2>1. job' \in Commits /\ job'.kind = job.kind /\ job'.of = job.of /\ job'.step = "published"
    BY <1>2, <1>5 DEF Commits, JobSteps
  <2>10. \A r \in temp : live[r].v # 0  BY <1>1, AutomationParts DEF TempInv, Forgetting
  <2>2. PICK e : e = WithTemporary(FromDatabase(changes, rules, meta, p))  OBVIOUS
  <2>3. /\ e \in Entries
        /\ \A r \in temp : e[r].v # 0
        /\ \A r \in Rules : /\ \A k \in Overlay(r, p) : e[r].v = changes[k].items[r].after
                            /\ Overlay(r, p) = {} /\ rules[r] # 0 => e[r].v = rules[r]
                            /\ Overlay(r, p) = {} /\ rules[r] = 0 => (e[r].v # 0 <=> r \in temp)
                            /\ (Overlay(r, p) # {} \/ rules[r] # 0) /\ meta[r].owner = "agent" => e[r].lock
    BY <2>2, <2>10, AutomationParts, PublicationMatches
  <2>4. live' = e  BY <1>5, <2>2
  <2>5. AutomationTyped'  BY <1>4, <1>5, <2>1, <2>3, <2>4, AutomationParts DEF AutomationTyped
  <2>11. \A r \in Rules : (Temporary(r)' <=> Temporary(r)) /\ (Temporary(r) <=> r \in temp)  BY <1>1, <1>4 DEF Temporary
  <2>6. MetaInv' /\ WrittenInv' /\ StandsInv' /\ HoldInv' /\ OwnInv' /\ ExperimentFollowsChange'
    BY <1>4, <1>5, <2>5, <2>11, DatabaseSame
  <2>7. JobInv'  BY <1>1, <1>2, <1>4, <1>5, <2>1, AutomationParts DEF JobInv, Forward, Backward, Used
  <2>8. MatchInv'
    <3>1. ASSUME NEW r \in Rules PROVE Match(r, p)'
      <4>1. Overlay(r, p)' = Overlay(r, p) /\ (Temporary(r)' <=> r \in temp)  BY <1>4, <1>5, <2>11 DEF Overlay
      <4> QED BY <1>4, <1>5, <2>3, <2>4, <4>1 DEF Match
    <3>2. Pending' = p  BY <1>3, <2>1 DEF Pending, Forward
    <3>3. ~Resting'  BY <1>1, <2>1 DEF Resting
    <3> QED BY <3>1, <3>2, <3>3 DEF MatchInv
  <2>9. TempInv'  BY <1>1, <1>4, <2>1, <2>3, <2>4 DEF TempInv, Forgetting
  <2> QED BY <2>5, <2>6, <2>7, <2>8, <2>9 DEF AutomationInv
<1>6. CASE /\ changes' = IF job.kind = "apply" THEN SetStatus(changes, job.of, "publish_failed") ELSE changes
           /\ job' = Idle /\ stale' = TRUE /\ UNCHANGED <<live, raced, shed>>
  <2>1. job.kind = "apply" => \A k \in job.of : changes[k] # Unused /\ changes[k].status = "committed"
    BY AutomationParts DEF JobInv, Forward, Used
  <2>2. /\ changes' \in ChangeTable /\ Rewritten(changes, changes')
        /\ \A k \in Keys : \/ changes'[k] = changes[k]
                           \/ /\ changes[k].status = "committed" /\ changes'[k].experiment = changes[k].experiment
                              /\ changes'[k].torn = changes[k].torn /\ changes'[k].resaved = changes[k].resaved
    <3>1. CASE job.kind = "apply"
      <4>1. PICK ks \in SUBSET Keys : ks = job.of  BY <1>2
      <4>2. PICK g : g = SetStatus(changes, ks, "publish_failed")  OBVIOUS
      <4>3. /\ g \in ChangeTable /\ Rewritten(changes, g) /\ \A k \in Keys \ ks : g[k] = changes[k]
            /\ \A k \in ks : g[k].experiment = changes[k].experiment /\ g[k].torn = changes[k].torn /\ g[k].resaved = changes[k].resaved
        BY <2>1, <3>1, <4>1, <4>2, AutomationParts, StatusIsSet DEF ChangeStatus
      <4> QED BY <1>6, <2>1, <3>1, <4>1, <4>2, <4>3
    <3>2. CASE job.kind # "apply"  BY <1>6, <3>2, AutomationParts DEF Rewritten
    <3> QED BY <3>1, <3>2
  <2>3. AutomationTyped'  BY <1>4, <1>6, <2>2, AutomationParts DEF AutomationTyped
  <2>4. MetaInv' /\ WrittenInv'  BY <1>4, <2>2, <2>3, AutomationParts, OwnersStay
  <2>5. StandsInv'
    <3>1. \A k \in Keys : (Stands(k)' => Stands(k)) /\ \A r \in Touched(k) \ changes'[k].resaved : r \notin changes[k].resaved
      BY <2>2 DEF Stands
    <3> QED BY <1>4, <2>2, <2>3, <3>1, AutomationParts, StandingStays
  <2>10. HoldInv' /\ OwnInv'
    <3>1. \A k \in Keys : Stands(k)' => Stands(k)  BY <2>2 DEF Stands
    <3>2. \A r \in Rules : Temporary(r)' => Temporary(r)  BY <1>4 DEF Temporary
    <3>3. \A r \in Rules : Unowned(r) => meta'[r] = NoMeta  BY <1>4 DEF Unowned
    <3> QED BY <1>4, <2>2, <2>3, <3>1, <3>2, <3>3, AutomationParts, HoldStays, OwnStays
  <2>6. ExperimentFollowsChange'
    <3>1. \A k \in Keys : Used(k)' => Used(k)  BY <2>2, <2>3, AutomationParts, DeedsStay
    <3> QED BY <2>2, <3>1, AutomationParts DEF ExperimentFollowsChange
  <2>7. job'.kind = "idle"  BY <1>6 DEF Idle
  <2>8. JobInv' /\ MatchInv'  BY <1>1, <1>4, <1>6, <2>7 DEF JobInv, MatchInv, Forward, Backward, Resting, Published
  <2>9. TempInv'
    <3>1. \A r \in Rules : ~Forgetting(r)' /\ ~Forgetting(r)  BY <1>1, <2>7 DEF Forgetting
    <3> QED BY <1>4, <1>6, <2>7, <3>1, AutomationParts DEF TempInv
  <2> QED BY <2>3, <2>4, <2>5, <2>6, <2>8, <2>9, <2>10 DEF AutomationInv
<1>7. p = IF job.kind \in {"apply", "retry"} THEN job.of ELSE {}  BY <1>3 DEF Pending, Forward
<1> QED BY <1>5, <1>6, <1>7 DEF Publish

\* What a record makes of the changes: `done` are over, `cut` may be torn.
RecordedAs(f, done, cut, kind) ==
  /\ f \in ChangeTable /\ Rewritten(changes, f) /\ (\A k \in Keys \ (done \cup cut) : f[k] = changes[k])
  /\ \A k \in done \cup cut : f[k].status = Outcome[kind] /\ f[k].resaved = changes[k].resaved
  /\ \A k \in done : kind \in {"manual", "expired", "clear"} => f[k].experiment # "running"
  /\ \A k \in cut : f[k].torn

\* The record of some of a job's changes, one of which may be left torn.
LEMMA RecordedChanges ==
  ASSUME AutomationTyped, NEW kind \in {"apply", "retry", "manual", "expired", "clear"},
         NEW done \in SUBSET Keys, NEW cut \in SUBSET Keys, done \cap cut = {}, \A k \in done \cup cut : Used(k),
         NEW f, f = Recorded(done, cut, kind)
  PROVE  RecordedAs(f, done, cut, kind)
<1>0. PICK ks \in SUBSET Keys : ks = done \cup cut  OBVIOUS
<1>1. PICK s : ks = done \cup cut /\ s = Outcome[kind]  BY <1>0
<1>2. s \in ChangeStatus  BY <1>1 DEF Outcome, ChangeStatus
<1>3. PICK g : g = SetStatus(changes, ks, s)  OBVIOUS
<1>4. (\A k \in ks : changes[k] # Unused) /\ changes \in ChangeTable  BY <1>1 DEF Used, AutomationTyped
<1>5. /\ SetStatus(changes, ks, s) \in ChangeTable /\ Rewritten(changes, SetStatus(changes, ks, s))
      /\ \A k \in Keys \ ks : SetStatus(changes, ks, s)[k] = changes[k]
      /\ \A k \in ks : SetStatus(changes, ks, s)[k] \in ChangeType /\ SetStatus(changes, ks, s)[k].status = s
                       /\ SetStatus(changes, ks, s)[k].resaved = changes[k].resaved
  BY <1>2, <1>4, StatusIsSet
<1>6. /\ g \in ChangeTable /\ Rewritten(changes, g) /\ (\A k \in Keys \ ks : g[k] = changes[k])
      /\ \A k \in ks : g[k] \in ChangeType /\ g[k].status = s /\ g[k].resaved = changes[k].resaved /\ g[k] # Unused
  BY <1>3, <1>4, <1>5 DEF Rewritten
<1>7. PICK h : h = IF kind \in DOMAIN ExperimentOutcome THEN SetExperiment(g, done, ExperimentOutcome[kind]) ELSE g  OBVIOUS
<1>8. /\ h \in ChangeTable /\ Rewritten(g, h) /\ (\A k \in Keys \ done : h[k] = g[k])
      /\ \A k \in done : h[k].status = s /\ h[k].resaved = g[k].resaved
      /\ \A k \in done : kind \in {"manual", "expired", "clear"} => h[k].experiment # "running"
  <2>1. CASE kind \in DOMAIN ExperimentOutcome
    <3>1. PICK x \in Experiments \ {"none", "running"} : x = ExperimentOutcome[kind]  BY <2>1 DEF ExperimentOutcome, Experiments
    <3>2. h = SetExperiment(g, done, x)  BY <1>7, <2>1, <3>1
    <3>3. \A k \in done : g[k] # Unused  BY <1>1, <1>6
    <3>4. /\ SetExperiment(g, done, x) \in ChangeTable /\ Rewritten(g, SetExperiment(g, done, x))
          /\ \A k \in Keys \ done : SetExperiment(g, done, x)[k] = g[k]
          /\ \A k \in done : /\ SetExperiment(g, done, x)[k].status = g[k].status
                             /\ SetExperiment(g, done, x)[k].experiment # "running" /\ SetExperiment(g, done, x)[k].resaved = g[k].resaved
      BY <1>6, <3>3, ExperimentIsSet
    <3> QED BY <1>1, <1>6, <3>2, <3>4
  <2>2. CASE kind \notin DOMAIN ExperimentOutcome
    <3>1. h = g /\ kind \notin {"manual", "expired", "clear"}  BY <1>7, <2>2 DEF ExperimentOutcome
    <3> QED BY <1>1, <1>6, <3>1 DEF Rewritten
  <2> QED BY <2>1, <2>2
<1>9. f = [k \in Keys |-> IF k \in cut THEN [h[k] EXCEPT !.torn = TRUE] ELSE h[k]]  BY <1>1, <1>3, <1>7 DEF Recorded
<1>11. \A k \in cut : h[k] \in ChangeType /\ h[k] = g[k]  BY <1>1, <1>6, <1>8
<1>12. \A k \in cut : LET d == [h[k] EXCEPT !.torn = TRUE] IN
         d \in ChangeType /\ d.status = h[k].status /\ d.resaved = h[k].resaved /\ d.torn /\ d.items = h[k].items /\ d.lifecycle = h[k].lifecycle
  BY <1>11 DEF ChangeType
<1>13. /\ \A k \in cut : /\ f[k] \in ChangeType /\ f[k].status = s /\ f[k].resaved = changes[k].resaved
                          /\ f[k].torn /\ f[k].items = h[k].items /\ f[k].lifecycle = h[k].lifecycle
       /\ \A k \in Keys \ cut : f[k] = h[k]
  BY <1>1, <1>6, <1>9, <1>11, <1>12
<1>14. f \in ChangeTable
  <2>1. \A k \in Keys : f[k] \in ChangeType \cup {Unused}  BY <1>8, <1>13 DEF ChangeTable
  <2> QED BY <1>9, <2>1 DEF ChangeTable
<1>15. Rewritten(h, f)
  <2>1. \A k \in cut : h[k] # Unused /\ f[k] # Unused  BY <1>8, <1>11, <1>13, <1>14, MadeChanges
  <2> QED BY <1>13, <2>1 DEF Rewritten
<1>16. Rewritten(changes, f)  BY <1>6, <1>8, <1>15 DEF Rewritten
<1> QED BY <1>1, <1>6, <1>8, <1>13, <1>14, <1>16 DEF RecordedAs

\* The record of a job: the changes it was about get their last status; while an applied
\* one has not got it, the managers count as stale.
LEMMA RecordStep ==
  ASSUME AutomationInv, Record
  PROVE  AutomationInv'
<1>1. job.kind \in {"apply", "retry", "manual", "expired", "clear"} /\ job.step = "published" /\ up = "up"  BY DEF Record, Outcome
<1>2. (Forward \/ Backward) /\ (Forward => ~Backward)  BY <1>1 DEF Forward, Backward
<1>3. PICK ks \in SUBSET Keys : ks = job.of  BY <1>2, AutomationParts, JobKinds
<1>4. /\ Forward => \A k \in ks : Used(k) /\ changes[k].status \in {"committed", "publish_failed"}
      /\ Backward => \A k \in ks : Used(k) /\ changes[k].status = "reverting"
  BY <1>3, AutomationParts DEF JobInv
<1>5. /\ job' = Idle /\ UNCHANGED <<rules, meta, live, temp, purge, ticket, up, raced, shed>>  BY DEF Record
<1>0. PICK s : s = Outcome[job.kind]  OBVIOUS
<1>6. s \in ChangeStatus /\ (Forward => s = "active") /\ (Backward => s \in {"reverted", "aborted"})
  <2>1. (job.kind \in {"apply", "retry"} => s = "active") /\ (job.kind \in {"manual", "expired"} => s = "reverted")
        /\ (job.kind = "clear" => s = "aborted")
    BY <1>0 DEF Outcome
  <2> QED BY <1>1, <2>1 DEF ChangeStatus, Forward, Backward
<1>7. PICK done \in SUBSET Keys, cut \in SUBSET Keys :
        /\ done \cap cut = {} /\ done \cup cut \subseteq ks /\ changes' = Recorded(done, cut, job.kind)
        /\ (Forward => cut = {}) /\ stale' \in BOOLEAN
        /\ \/ done = ks /\ stale' = stale
           \/ Forward /\ stale'
           \/ Backward /\ stale' = stale
  <2>1. CASE changes' = Recorded(job.of, {}, job.kind) /\ UNCHANGED stale  BY <1>3, <2>1, AutomationParts DEF AutomationTyped
  <2>2. CASE \E done \in SUBSET job.of, cut \in SUBSET job.of :
          /\ done \cap cut = {} /\ (job.kind \notin DOMAIN ExperimentOutcome => cut = {})
          /\ changes' = Recorded(done, cut, job.kind) /\ stale' = (stale \/ job.kind \in {"apply", "retry"})
    <3>1. PICK done \in SUBSET job.of, cut \in SUBSET job.of :
            /\ done \cap cut = {} /\ (job.kind \notin DOMAIN ExperimentOutcome => cut = {})
            /\ changes' = Recorded(done, cut, job.kind) /\ stale' = (stale \/ job.kind \in {"apply", "retry"})
      BY <2>2
    <3>2. Forward => job.kind \notin DOMAIN ExperimentOutcome  BY DEF Forward, ExperimentOutcome
    <3>3. done \in SUBSET Keys /\ cut \in SUBSET Keys /\ done \cup cut \subseteq ks  BY <1>3, <3>1
    <3>4. stale \in BOOLEAN /\ stale' \in BOOLEAN /\ (Forward => stale') /\ (Backward => stale' = stale)
      BY <3>1, AutomationParts DEF Forward, Backward, AutomationTyped
    <3> QED BY <1>2, <3>1, <3>2, <3>3, <3>4
  <2> QED BY <2>1, <2>2 DEF Record
<1>8. PICK f : f = Recorded(done, cut, job.kind)  OBVIOUS
<1>9. /\ changes' \in ChangeTable /\ Rewritten(changes, changes') /\ (\A k \in Keys \ (done \cup cut) : changes'[k] = changes[k])
      /\ \A k \in done \cup cut : changes'[k].status = s /\ changes'[k].resaved = changes[k].resaved
      /\ \A k \in done \cup cut : Forward \/ changes'[k].experiment # "running" \/ changes'[k].torn
  <2>1. \A k \in done \cup cut : Used(k)  BY <1>2, <1>4, <1>7
  <2>0. PICK kind \in {"apply", "retry", "manual", "expired", "clear"} : kind = job.kind  BY <1>1
  <2>4. f = Recorded(done, cut, kind) /\ done \cap cut = {} /\ AutomationTyped  BY <1>7, <1>8, <2>0, AutomationParts
  <2>2. RecordedAs(f, done, cut, kind)  BY <2>1, <2>4, RecordedChanges
  <2>3. changes' = f /\ (Forward \/ job.kind \in {"manual", "expired", "clear"})  BY <1>1, <1>7, <1>8 DEF Forward
  <2> QED BY <1>0, <2>0, <2>2, <2>3 DEF RecordedAs
<1>10. AutomationTyped'  BY <1>5, <1>7, <1>9, AutomationParts DEF AutomationTyped
<1>11. MetaInv' /\ WrittenInv'  BY <1>5, <1>9, <1>10, AutomationParts, OwnersStay
<1>12. \A k \in Keys : Used(k)' => Used(k)  BY <1>9, <1>10, AutomationParts, DeedsStay
<1>13. StandsInv' /\ HoldInv' /\ OwnInv'
  <2>1. ASSUME NEW k \in Keys, Used(k)
        PROVE  (Stands(k)' => Stands(k)) /\ \A r \in Touched(k) \ changes'[k].resaved : r \notin changes[k].resaved
    <3>1. CASE k \notin done \cup cut  BY <1>9, <3>1 DEF Stands
    <3>2. CASE k \in done \cup cut  BY <1>2, <1>4, <1>6, <1>7, <1>9, <2>1, <3>2 DEF Stands
    <3> QED BY <3>1, <3>2
  <2>2. \A r \in Rules : Temporary(r)' => Temporary(r)  BY <1>5 DEF Temporary
  <2>3. \A r \in Rules : Unowned(r) => meta'[r] = NoMeta  BY <1>5 DEF Unowned
  <2> QED BY <1>5, <1>9, <1>10, <2>1, <2>2, <2>3, AutomationParts, StandingStays, HoldStays, OwnStays
<1>14. ExperimentFollowsChange'
  <2>1. ASSUME NEW k \in Keys, Used(k)', changes'[k].experiment = "running", ~changes'[k].torn
        PROVE  changes'[k].status \in {"active", "reverting"}
    <3>1. CASE k \notin done \cup cut  BY <1>9, <1>12, <2>1, <3>1, AutomationParts DEF ExperimentFollowsChange
    <3>2. CASE k \in done \cup cut  BY <1>6, <1>9, <2>1, <3>2
    <3> QED BY <3>1, <3>2
  <2> QED BY <2>1 DEF ExperimentFollowsChange
<1>15. job'.kind = "idle"  BY <1>5 DEF Idle
<1>16. JobInv'  BY <1>1, <1>5, <1>15 DEF JobInv, Forward, Backward
<1>17. MatchInv'
  <2>1. ~Published'  BY <1>15 DEF Published, Forward, Backward
  <2>2. ASSUME Resting', NEW r \in Rules \ shed' PROVE Match(r, {})'
    <3>1. ~raced /\ ~stale' /\ (Forward => done = ks)  BY <1>2, <1>5, <1>7, <2>2 DEF Resting
    <3>2. PICK p \in SUBSET Keys : p = Pending /\ (Forward => p = ks) /\ (Backward => p = {})  BY <1>2, <1>3 DEF Pending
    <3>3. r \in Rules /\ Match(r, p)  BY <1>1, <1>2, <1>5, <2>2, <3>1, <3>2, AutomationParts DEF MatchInv, Published
    <3>4. \A k \in meta[r].change : k \in Keys /\ Used(k)  BY <3>3, AutomationParts DEF MetaInv, MetaSound, MetaType
    <3>5. \A k \in meta[r].change : changes'[k].items = changes[k].items /\ changes'[k].lifecycle = changes[k].lifecycle
      BY <1>9, <1>10, <3>4, AutomationParts, DeedsStay
    <3>6. \A k \in meta[r].change : changes'[k].status = "active" <=>
            (changes[k].status = "active" \/ (k \in p /\ changes[k].status \in {"committed", "publish_failed"}))
      <4>1. ASSUME NEW k \in meta[r].change, k \in done \cup cut
            PROVE  changes'[k].status = "active" <=>
                     (changes[k].status = "active" \/ (k \in p /\ changes[k].status \in {"committed", "publish_failed"}))
        BY <1>2, <1>4, <1>6, <1>7, <1>9, <3>1, <3>2, <4>1
      <4>2. ASSUME NEW k \in meta[r].change, k \notin done \cup cut
            PROVE  changes'[k].status = "active" <=>
                     (changes[k].status = "active" \/ (k \in p /\ changes[k].status \in {"committed", "publish_failed"}))
        <5>1. k \in Keys /\ changes'[k] = changes[k]  BY <1>9, <3>4, <4>2
        <5>2. k \notin p  BY <1>2, <3>1, <3>2, <4>2
        <5> QED BY <5>1, <5>2
      <4> QED BY <4>1, <4>2
    <3>7. Overlay(r, {})' = Overlay(r, p)  BY <1>5, <3>5, <3>6 DEF Overlay
    <3>8. \A k \in Overlay(r, p) : changes'[k].items = changes[k].items  BY <3>5 DEF Overlay
    <3>9. Temporary(r)' <=> Temporary(r)  BY <1>5 DEF Temporary
    <3> QED BY <1>5, <3>3, <3>7, <3>8, <3>9 DEF Match
  <2> QED BY <2>1, <2>2 DEF MatchInv
<1>18. TempInv'
  <2>1. \A r \in Rules : ~Forgetting(r)' /\ ~Forgetting(r)  BY <1>1, <1>15 DEF Forgetting
  <2> QED BY <1>5, <1>15, <2>1, AutomationParts DEF TempInv
<1> QED BY <1>10, <1>11, <1>13, <1>14, <1>16, <1>17, <1>18 DEF AutomationInv

\* A save leaves what changes did alone and is noted with those that touched the rule.
LEMMA SavesAreNoted ==
  ASSUME AutomationTyped, NEW r \in Rules, changes' = Resaved(r)
  PROVE  /\ changes' \in ChangeTable /\ Rewritten(changes, changes')
         /\ \A k \in Keys : Used(k) => /\ changes'[k].status = changes[k].status /\ changes'[k].experiment = changes[k].experiment
                                       /\ changes'[k].torn = changes[k].torn /\ changes[k].resaved \subseteq changes'[k].resaved
                                       /\ r \in Touched(k) => r \in changes'[k].resaved
<1>1. changes \in ChangeTable  BY DEF AutomationTyped
<1>2. ASSUME NEW k \in Keys, Used(k), r \in Touched(k)
      PROVE  /\ changes'[k] \in ChangeType /\ changes'[k].items = changes[k].items /\ changes'[k].lifecycle = changes[k].lifecycle
             /\ changes'[k].status = changes[k].status /\ changes'[k].experiment = changes[k].experiment
             /\ changes'[k].torn = changes[k].torn /\ changes'[k].resaved = changes[k].resaved \cup {r}
  <2>1. PICK c \in ChangeType : c = changes[k]  BY <1>2, TouchedRules
  <2>2. PICK S \in SUBSET Rules : S = c.resaved \cup {r}  BY <2>1 DEF ChangeType
  <2>3. changes'[k] = [c EXCEPT !.resaved = S]  BY <1>2, <2>1, <2>2 DEF Resaved
  <2> QED BY <2>1, <2>2, <2>3 DEF ChangeType
<1>3. \A k \in Keys : ~(Used(k) /\ r \in Touched(k)) => changes'[k] = changes[k]  BY DEF Resaved
<1>4. changes' \in ChangeTable
  <2>1. \A k \in Keys : changes'[k] \in ChangeType \cup {Unused}  BY <1>1, <1>2, <1>3 DEF ChangeTable
  <2> QED BY <2>1 DEF Resaved, ChangeTable
<1>5. \A k \in Keys : Used(k) => changes[k] \in ChangeType  BY TouchedRules
<1>6. \A k \in Keys : changes'[k] \in ChangeType => changes'[k] # Unused  BY <1>4, MadeChanges
<1>7. Rewritten(changes, changes')
  <2>1. ASSUME NEW k \in Keys
        PROVE  /\ changes[k] # Unused <=> changes'[k] # Unused
               /\ changes[k] # Unused => changes'[k].items = changes[k].items /\ changes'[k].lifecycle = changes[k].lifecycle
    <3>1. CASE Used(k) /\ r \in Touched(k)  BY <1>2, <1>6, <2>1, <3>1 DEF Used
    <3>2. CASE ~(Used(k) /\ r \in Touched(k))  BY <1>3, <2>1, <3>2
    <3> QED BY <3>1, <3>2
  <2> QED BY <2>1 DEF Rewritten
<1> QED BY <1>2, <1>3, <1>4, <1>7

\* A save or a delete by the user: the table first, the managers still to come.
LEMMA SaveBegins ==
  ASSUME AutomationInv, job = Idle, up = "up", NEW r \in Rules, NEW v \in Nat,
         job' = [kind |-> "save", rule |-> r, v |-> v, copy |-> live],
         meta[r].owner # "agent", r \in temp => v = 0, rules' = [rules EXCEPT ![r] = v],
         changes' \in ChangeTable, Rewritten(changes, changes'),
         \A k \in Keys : Used(k) => changes'[k].status = changes[k].status,
         \A k \in Keys : Used(k) => changes'[k].experiment = changes[k].experiment /\ changes'[k].torn = changes[k].torn,
         \A k \in Keys : Used(k) => \A q \in changes[k].resaved : q \in changes'[k].resaved,
         v # 0 => \A k \in Keys : Used(k) /\ r \in Touched(k) => r \in changes'[k].resaved,
         UNCHANGED <<meta, live, temp, purge, ticket, up, stale, raced, shed>>
  PROVE  AutomationInv'
<1>1. rules' \in [Rules -> Nat] /\ rules'[r] = v /\ \A q \in Rules \ {r} : rules'[q] = rules[q]  BY AutomationParts
<1>2. job' \in Saves /\ job'.kind = "save" /\ job'.rule = r /\ job'.v = v /\ job'.copy = live  BY AutomationParts DEF Saves
<1>3. AutomationTyped'  BY <1>1, <1>2, AutomationParts DEF AutomationTyped
<1>4. /\ \A k \in Keys : Used(k)' <=> Used(k)
      /\ \A k \in Keys : Used(k) => changes'[k].items = changes[k].items /\ changes'[k].lifecycle = changes[k].lifecycle
      /\ \A q \in Rules, m \in MetaType : MetaSound(q, m) => MetaSound(q, m)'
      /\ \A k \in Keys : Used(k)' => \A q \in Touched(k)' : ItemSound(k, q)'
      /\ \A q \in Rules : TakenStale(q) => TakenStale(q)'
  BY <1>3, AutomationParts, DeedsStay
<1>5. MetaInv'
  <2>1. ASSUME NEW q \in Rules PROVE MetaSound(q, meta[q])'
    <3>1. PICK m \in MetaType : m = meta[q] /\ m = meta'[q]  BY AutomationParts
    <3>2. MetaSound(q, m)'  BY <1>4, <3>1, AutomationParts DEF MetaInv
    <3> QED BY <3>1, <3>2 DEF MetaSound
  <2> QED BY <1>4, <2>1 DEF MetaInv
<1>6. WrittenInv'
  <2>1. ASSUME NEW q \in Rules, meta[q].owner = "agent", NEW k \in meta[q].change PROVE Written(q, k)'
    <3>1. Written(q, k) /\ rules'[q] = rules[q]  BY <1>1, <2>1, AutomationParts DEF WrittenInv
    <3>2. k \in Keys /\ Used(k)  BY <2>1, AutomationParts DEF MetaInv, MetaSound, MetaType
    <3>3. changes'[k].items = changes[k].items /\ changes'[k].lifecycle = changes[k].lifecycle /\ (TakenStale(q) => TakenStale(q)')
      BY <1>4, <3>2
    <3> QED BY <3>1, <3>3 DEF Written
  <2> QED BY <2>1 DEF WrittenInv
<1>7. StandsInv'
  <2>1. ASSUME NEW k \in Keys, Used(k)
        PROVE  (Stands(k)' => Stands(k)) /\ \A q \in Touched(k) \ changes'[k].resaved : rules'[q] \in {rules[q], 0} /\ q \notin changes[k].resaved
    <3>1. Touched(k) \subseteq Rules  BY <2>1, AutomationParts, TouchedRules
    <3> QED BY <1>1, <2>1, <3>1 DEF Stands
  <2> QED BY <1>3, <2>1, AutomationParts, StandingStays
<1>13. \A q \in Rules : Temporary(q)' <=> Temporary(q)  BY DEF Temporary
<1>14. HoldInv' /\ OwnInv'
  <2>1. \A k \in Keys : Used(k) => (Stands(k)' => Stands(k))  BY DEF Stands
  <2>2. \A q \in Rules : Unowned(q) => meta'[q] = NoMeta  BY DEF Unowned
  <2> QED BY <1>3, <1>13, <2>1, <2>2, AutomationParts, HoldStays, OwnStays
<1>8. ExperimentFollowsChange'  BY <1>4, AutomationParts DEF ExperimentFollowsChange
<1>9. JobInv'  BY <1>1, <1>2 DEF JobInv, Forward, Backward
<1>10. job.kind = "idle"  BY DEF Idle
<1>11. MatchInv'
  <2>1. ~Published' /\ (Resting' => Resting)  BY <1>2, <1>10 DEF Published, Forward, Backward, Resting
  <2>2. ASSUME Resting', NEW q \in Rules \ shed, q # r PROVE Match(q, {})'
    <3>1. Match(q, {})  BY <1>10, <2>1, <2>2, AutomationParts DEF MatchInv
    <3>2. \A k \in meta[q].change : k \in Keys /\ Used(k)  BY <2>2, AutomationParts DEF MetaInv, MetaSound, MetaType
    <3>3. \A k \in meta[q].change : changes'[k].status = changes[k].status  BY <3>2
    <3>4. live'[q] = live[q] /\ meta'[q] = meta[q] /\ rules'[q] = rules[q]  BY <1>1, <2>2
    <3> QED BY <1>3, <1>13, <2>2, <3>1, <3>3, <3>4, AutomationParts, MatchStays
  <2> QED BY <1>2, <2>1, <2>2 DEF MatchInv
<1>12. TempInv'
  <2>1. \A q \in Rules : ~Forgetting(q)' /\ ~Forgetting(q)  BY <1>2, <1>10 DEF Forgetting
  <2> QED BY <1>2, <2>1, AutomationParts DEF TempInv
<1> QED BY <1>3, <1>5, <1>6, <1>7, <1>8, <1>9, <1>11, <1>12, <1>14 DEF AutomationInv

\* The user saves or deletes a rule that no agent owns.
LEMMA SaveSteps ==
  ASSUME AutomationInv, (\E r \in Rules, v \in Contents : UserSave(r, v)) \/ (\E r \in Rules : UserDelete(r))
  PROVE  AutomationInv'
<1>1. ASSUME NEW r \in Rules, NEW v \in Contents, UserSave(r, v) PROVE AutomationInv'
  <2>1. r \in Rules /\ v \in Nat  BY AutomationParts, AutomationAssumption
  <2>2. /\ up = "up" /\ job = Idle /\ meta[r].owner # "agent" /\ r \notin temp /\ rules' = [rules EXCEPT ![r] = v]
        /\ job' = [kind |-> "save", rule |-> r, v |-> v, copy |-> live] /\ changes' = Resaved(r)
        /\ UNCHANGED <<meta, live, temp, purge, ticket, up, stale, raced, shed>>
    BY <1>1 DEF UserSave, Free, Editable
  <2>3. /\ changes' \in ChangeTable /\ Rewritten(changes, changes')
        /\ \A k \in Keys : Used(k) => /\ changes'[k].status = changes[k].status /\ changes'[k].experiment = changes[k].experiment
                                      /\ changes'[k].torn = changes[k].torn /\ changes[k].resaved \subseteq changes'[k].resaved
                                      /\ r \in Touched(k) => r \in changes'[k].resaved
    BY <2>2, AutomationParts, SavesAreNoted
  <2>5. /\ \A k \in Keys : Used(k) => changes'[k].status = changes[k].status
        /\ \A k \in Keys : Used(k) => changes'[k].experiment = changes[k].experiment /\ changes'[k].torn = changes[k].torn
        /\ \A k \in Keys : Used(k) => \A q \in changes[k].resaved : q \in changes'[k].resaved
        /\ \A k \in Keys : Used(k) /\ r \in Touched(k) => r \in changes'[k].resaved
    BY <2>3
  <2>6. changes' \in ChangeTable /\ Rewritten(changes, changes')  BY <2>3
  <2> QED BY <2>1, <2>2, <2>5, <2>6, SaveBegins
<1>2. ASSUME NEW r \in Rules, UserDelete(r) PROVE AutomationInv'
  <2>1. /\ up = "up" /\ job = Idle /\ job' = [kind |-> "save", rule |-> r, v |-> 0, copy |-> live]
        /\ meta[r].owner # "agent" /\ rules' = [rules EXCEPT ![r] = 0]
        /\ UNCHANGED <<meta, changes, live, temp, purge, ticket, up, stale, raced, shed>>
    BY <1>2 DEF UserDelete, Free
  <2>4. /\ changes' \in ChangeTable /\ Rewritten(changes, changes')
        /\ \A k \in Keys : Used(k) => changes'[k].status = changes[k].status
        /\ \A k \in Keys : Used(k) => changes'[k].experiment = changes[k].experiment /\ changes'[k].torn = changes[k].torn
        /\ \A k \in Keys : Used(k) => \A q \in changes[k].resaved : q \in changes'[k].resaved
    BY <2>1, AutomationParts DEF Rewritten
  <2> QED BY <2>1, <2>4, SaveBegins
<1> QED BY <1>1, <1>2

\* Steps that only change the managers, the registry or the job.
LEMMA SaveLiveStep ==
  ASSUME AutomationInv, UserSaveLive
  PROVE  AutomationInv'
<1>1. /\ up = "up" /\ job.kind = "save" /\ live' = Stored(job.copy, job.rule, job.v)
      /\ raced' = (raced \/ live # job.copy \/ purge # {}) /\ shed' = shed \ {job.rule}
      /\ job' = IF job.rule \in temp THEN [kind |-> "forget", rule |-> job.rule] ELSE Idle
      /\ UNCHANGED <<rules, meta, changes, temp, purge, ticket, up, stale>>
  BY DEF UserSaveLive
<1>2. job \in Saves  BY <1>1, AutomationParts, JobKinds
<1>3. PICK r \in Rules, v \in Nat, copy \in Entries : r = job.rule /\ v = job.v /\ copy = job.copy  BY <1>2 DEF Saves
<1>4. PICK b \in BOOLEAN : b = (v # 0 /\ copy[r].lock)  OBVIOUS
<1>5. live' = [copy EXCEPT ![r] = [v |-> v, lock |-> b]]  BY <1>1, <1>3, <1>4 DEF Stored
<1>6. live' \in Entries /\ live'[r].v = v /\ \A q \in Rules \ {r} : live'[q] = copy[q]  BY <1>5 DEF Entries, EntryType
<1>7. /\ r \in temp => job' \in Forgets /\ job'.kind = "forget" /\ job'.rule = r
      /\ r \notin temp => job' = Idle /\ job'.kind = "idle"
  BY <1>1, <1>3, AutomationParts DEF Forgets, Idle
<1>8. AutomationTyped'  BY <1>1, <1>6, <1>7, AutomationParts DEF AutomationTyped
<1>14. \A q \in Rules : Temporary(q)' <=> Temporary(q)  BY <1>1 DEF Temporary
<1>9. MetaInv' /\ WrittenInv' /\ StandsInv' /\ HoldInv' /\ OwnInv' /\ ExperimentFollowsChange' /\ Rewritten(changes, changes')
  BY <1>1, <1>8, <1>14, DatabaseSame
<1>11. rules[r] = v /\ meta[r].owner # "agent"  BY <1>1, <1>3, AutomationParts DEF JobInv
<1>15. r \in temp => v = 0  BY <1>1, <1>3, AutomationParts DEF TempInv
<1>10. JobInv'  BY <1>1, <1>7, <1>11, <1>15 DEF JobInv, Forward, Backward
<1>12. MatchInv'
  <2>1. ~Published'  BY <1>7 DEF Published, Forward, Backward
  <2>2. ASSUME Resting', NEW q \in Rules \ shed', job'.kind \in {"save", "forget"} => q # r PROVE Match(q, {})'
    <3>1. Resting /\ live = copy /\ purge = {}  BY <1>1, <1>3, <2>2 DEF Resting
    <3>2. CASE q # r
      <4>1. q \in Rules \ shed /\ Match(q, {}) /\ live'[q] = live[q]
        BY <1>1, <1>3, <1>6, <2>2, <3>1, <3>2, AutomationParts DEF MatchInv
      <4> QED BY <1>1, <1>8, <1>14, <4>1, DatabaseSame
    <3>3. CASE q = r
      <4>1. \A k \in meta[r].change : changes[k].lifecycle = "persistent"  BY <1>11, <3>3, AutomationParts DEF MetaInv, MetaSound
      <4>2. Overlay(r, {})' = {}  BY <1>1, <4>1 DEF Overlay
      <4>3. r \notin temp  BY <1>7, <2>2, <3>3
      <4>4. ~Temporary(r)'  BY <1>14, <3>1, <4>3 DEF Temporary
      <4> QED BY <1>1, <1>6, <1>11, <3>3, <4>2, <4>4 DEF Match
    <3> QED BY <3>2, <3>3
  <2> QED BY <1>7, <2>1, <2>2 DEF MatchInv
<1>13. TempInv'
  <2>1. /\ (\A q \in temp : copy[q].v # 0) /\ (\A p \in purge : p.rule \notin temp /\ \A q \in temp : p.copy[q].v # 0)
    BY <1>1, <1>3, AutomationParts DEF TempInv, Forgetting
  <2>2. \A q \in temp : q # r => live'[q].v # 0  BY <1>6, <2>1, AutomationParts
  <2>3. \A q \in Rules : Forgetting(q)' <=> (r \in temp /\ q = r)  BY <1>7 DEF Forgetting
  <2>4. job'.kind = "forget" => live'[job'.rule].v = 0  BY <1>6, <1>7, <1>15
  <2>5. ~raced' => purge = {}  BY <1>1
  <2> QED BY <1>1, <1>7, <2>1, <2>2, <2>3, <2>4, <2>5, AutomationParts DEF TempInv
<1> QED BY <1>8, <1>9, <1>10, <1>12, <1>13 DEF AutomationInv

\* A deleted temporary rule leaves the registry.
LEMMA ForgetStep ==
  ASSUME AutomationInv, UserForget
  PROVE  AutomationInv'
<1>1. /\ up = "up" /\ job.kind = "forget" /\ purge = {} /\ temp' = temp \ {job.rule} /\ job' = Idle
      /\ UNCHANGED <<rules, meta, changes, live, purge, ticket, up, stale, raced, shed>>
  BY DEF UserForget
<1>2. PICK f \in Rules : f = job.rule  BY <1>1, AutomationParts, JobKinds DEF Forgets
<1>3. job'.kind = "idle"  BY <1>1 DEF Idle
<1>4. AutomationTyped'  BY <1>1, AutomationParts DEF AutomationTyped
<1>0. temp' = temp \ {f}  BY <1>1, <1>2
<1>5. MetaInv' /\ WrittenInv' /\ StandsInv' /\ HoldInv' /\ OwnInv' /\ ExperimentFollowsChange'
  <2>1. \A r \in Rules : Temporary(r)' => Temporary(r)  BY <1>0, <1>1 DEF Temporary
  <2> QED BY <1>1, <1>4, <2>1, DatabaseSame
<1>6. JobInv'  BY <1>1, <1>3 DEF JobInv, Forward, Backward
<1>7. MatchInv'
  <2>1. ~Published' /\ (Resting' => Resting)  BY <1>1, <1>3 DEF Published, Forward, Backward, Resting
  <2>2. ASSUME Resting', NEW r \in Rules \ shed, r # f PROVE Match(r, {})'
    <3>1. Match(r, {})  BY <1>1, <1>2, <2>1, <2>2, AutomationParts DEF MatchInv
    <3>2. Temporary(r)' <=> Temporary(r)  BY <1>0, <1>1, <2>2 DEF Temporary
    <3> QED BY <1>1, <1>4, <3>1, <3>2, DatabaseSame
  <2>3. ASSUME Resting' PROVE Match(f, {})'
    <3>1. rules[f] = 0 /\ live[f].v = 0 /\ meta[f].owner # "agent"
      BY <1>1, <1>2, <2>1, <2>3, AutomationParts DEF JobInv, TempInv, Resting
    <3>2. ~Temporary(f)'  BY <1>0, <1>1 DEF Temporary
    <3>3. \A k \in meta[f].change : changes[k].lifecycle = "persistent"  BY <3>1, AutomationParts DEF MetaInv, MetaSound
    <3>4. Overlay(f, {})' = {}  BY <1>1, <3>3 DEF Overlay
    <3> QED BY <1>1, <3>1, <3>2, <3>4 DEF Match
  <2> QED BY <1>1, <2>1, <2>2, <2>3 DEF MatchInv
<1>8. TempInv'
  <2>1. \A r \in Rules : ~Forgetting(r)' /\ (Forgetting(r) <=> r = f)  BY <1>1, <1>2, <1>3 DEF Forgetting
  <2> QED BY <1>0, <1>1, <1>3, <2>1, AutomationParts DEF TempInv
<1> QED BY <1>4, <1>5, <1>6, <1>7, <1>8 DEF AutomationInv

\* A temporary rule enters the registry and the managers.
LEMMA CreateStep ==
  ASSUME AutomationInv, NEW r \in Rules, TempCreate(r)
  PROVE  AutomationInv'
<1>1. /\ up = "up" /\ job = Idle /\ purge = {} /\ Fresh(r) /\ temp' = temp \cup {r}
      /\ live' = [live EXCEPT ![r] = [v |-> 1, lock |-> TRUE]]
      /\ UNCHANGED <<rules, meta, changes, job, purge, ticket, up, stale, raced, shed>>
  BY DEF TempCreate, Free
<1>2. live' \in Entries /\ live'[r].v = 1 /\ \A q \in Rules \ {r} : live'[q] = live[q]
  BY <1>1, AutomationParts DEF Entries, EntryType
<1>3. job.kind = "idle"  BY <1>1 DEF Idle
<1>4. AutomationTyped'  BY <1>1, <1>2, AutomationParts DEF AutomationTyped
<1>5. MetaInv' /\ WrittenInv' /\ StandsInv' /\ HoldInv' /\ ExperimentFollowsChange'  BY <1>1, <1>4, DatabaseSame
<1>0. /\ \A q \in Rules \ {r} : Temporary(q)' <=> Temporary(q)
      /\ Temporary(r)'
  BY <1>1 DEF Temporary
<1>9. OwnInv'
  <2>1. Unowned(r)'  BY <1>1 DEF Unowned, Fresh, Used, Touched
  <2>2. \A q \in Rules : Unowned(q) => Unowned(q)'  BY <1>1 DEF Unowned, Used, Touched
  <2> QED BY <1>0, <2>1, <2>2, AutomationParts DEF OwnInv
<1>6. JobInv'  BY <1>1, <1>3 DEF JobInv, Forward, Backward
<1>7. MatchInv'
  <2>1. ~Published' /\ (Resting' => Resting)  BY <1>1, <1>3 DEF Published, Forward, Backward, Resting
  <2>2. ASSUME Resting', NEW q \in Rules \ shed PROVE Match(q, {})'
    <3>1. CASE q # r
      <4>1. Match(q, {}) /\ live'[q] = live[q]  BY <1>2, <1>3, <2>1, <2>2, <3>1, AutomationParts DEF MatchInv
      <4> QED BY <1>0, <1>1, <1>4, <3>1, <4>1, DatabaseSame
    <3>2. CASE q = r
      <4>1. Overlay(r, {})' = {} /\ rules'[r] = 0  BY <1>1 DEF Overlay, Fresh, NoMeta
      <4> QED BY <1>0, <1>2, <3>2, <4>1 DEF Match
    <3> QED BY <3>1, <3>2
  <2> QED BY <1>1, <2>1, <2>2 DEF MatchInv
<1>8. TempInv'
  <2>1. \A q \in Rules : ~Forgetting(q)' /\ ~Forgetting(q)  BY <1>1, <1>3 DEF Forgetting
  <2>2. \A q \in Rules \ {r} : live'[q] = live[q]  BY <1>2, AutomationParts
  <2>3. \A q \in temp' : live'[q].v # 0  BY <1>1, <1>2, <2>1, <2>2, AutomationParts DEF TempInv
  <2> QED BY <1>1, <1>2, <1>3, <2>1, <2>2, <2>3, AutomationParts DEF TempInv
<1> QED BY <1>4, <1>5, <1>6, <1>7, <1>8, <1>9 DEF AutomationInv

\* The registry drops a rule and has read the managers.
LEMMA RemoveStep ==
  ASSUME AutomationInv, NEW r \in Rules, TempRemove(r)
  PROVE  AutomationInv'
<1>1. /\ up = "up" /\ purge = {} /\ r \in temp /\ purge' = {[rule |-> r, copy |-> live]} /\ temp' = temp \ {r}
      /\ UNCHANGED <<rules, meta, changes, live, job, ticket, up, stale, raced, shed>>
  BY DEF TempRemove
<1>2. PICK p \in PurgeType : p.rule = r /\ p.copy = live /\ purge' = {p}  BY <1>1, AutomationParts DEF PurgeType
<1>3. AutomationTyped'  BY <1>1, <1>2, AutomationParts DEF AutomationTyped
<1>0. \A q \in Rules : Temporary(q)' <=> Temporary(q)  BY <1>1, <1>2 DEF Temporary
<1>4. MetaInv' /\ WrittenInv' /\ StandsInv' /\ HoldInv' /\ OwnInv' /\ ExperimentFollowsChange'  BY <1>0, <1>1, <1>3, DatabaseSame
<1>5. JobInv'  BY <1>1, AutomationParts DEF JobInv, Forward, Backward, Used
<1>6. MatchInv'
  <2>1. PICK s : s = Pending  OBVIOUS
  <2>2. Pending' = s /\ Resting' = Resting /\ Published' = Published
    BY <1>1, <2>1 DEF Pending, Resting, Published, Forward, Backward
  <2>3. s \in SUBSET Keys  BY <2>1, AutomationParts, JobKinds DEF Pending
  <2>4. \A q \in Rules, t \in SUBSET Keys : Match(q, t) => Match(q, t)'  BY <1>0, <1>1, <1>3, DatabaseSame
  <2>5. Resting => \A q \in Rules \ shed : (job.kind \in {"save", "forget"} => q # job.rule) => Match(q, {})
    BY AutomationParts DEF MatchInv
  <2>6. Published => \A q \in Rules \ shed : Match(q, s)  BY <2>1, AutomationParts DEF MatchInv
  <2> QED BY <1>1, <2>2, <2>3, <2>4, <2>5, <2>6 DEF MatchInv
<1>7. TempInv'
  <2>1. \A q \in Rules : Forgetting(q)' = Forgetting(q)  BY <1>1 DEF Forgetting
  <2>3. \A q \in temp : Forgetting(q) \/ live[q].v # 0  BY AutomationParts DEF TempInv
  <2>4. job.kind = "save" => \A q \in temp : job.copy[q].v # 0  BY AutomationParts DEF TempInv
  <2> QED BY <1>1, <1>2, <2>1, <2>3, <2>4, AutomationParts DEF TempInv
<1> QED BY <1>3, <1>4, <1>5, <1>6, <1>7 DEF AutomationInv

\* The registry replaces the managers by its copy without the rule; a write in between counts as
\* a race.
LEMMA RemoveLiveStep ==
  ASSUME AutomationInv, TempRemoveLive
  PROVE  AutomationInv'
<1>1. PICK p \in purge : /\ live' = [p.copy EXCEPT ![p.rule] = Absent] /\ raced' = (raced \/ live # p.copy)
                         /\ shed' = IF rules[p.rule] # 0 THEN shed \cup {p.rule} ELSE shed
  BY DEF TempRemoveLive
<1>2. purge' = {} /\ UNCHANGED <<rules, meta, changes, temp, job, ticket, up, stale>>  BY DEF TempRemoveLive
<1>3. PICK r \in Rules, copy \in Entries : r = p.rule /\ copy = p.copy  BY <1>1, AutomationParts DEF AutomationTyped, PurgeType
<1>4. /\ live' \in Entries /\ live'[r].v = 0 /\ \A q \in Rules \ {r} : live'[q] = copy[q]
  <2>1. live' = [copy EXCEPT ![r] = Absent] /\ Absent \in EntryType /\ Absent.v = 0  BY <1>1, <1>3 DEF Absent, EntryType
  <2> QED BY <2>1, AutomationParts DEF Entries
<1>5. AutomationTyped'  BY <1>1, <1>2, <1>4, AutomationParts DEF AutomationTyped
<1>0. /\ \A x \in purge : x.rule = r
      /\ \A q \in Rules \ {r} : Temporary(q)' <=> Temporary(q)
      /\ Temporary(r) /\ ~Temporary(r)' /\ r \notin temp
  <2>1. \A x \in purge : x.rule = r  BY <1>1, <1>3, AutomationParts DEF AutomationTyped
  <2>2. r \notin temp  BY <1>1, <1>3, AutomationParts DEF TempInv
  <2> QED BY <1>1, <1>2, <1>3, <2>1, <2>2 DEF Temporary
<1>6. MetaInv' /\ WrittenInv' /\ StandsInv' /\ HoldInv' /\ OwnInv' /\ ExperimentFollowsChange'  BY <1>0, <1>2, <1>5, DatabaseSame
<1>7. up = "up"  BY <1>1, AutomationParts DEF JobInv, AutomationTyped
<1>8. JobInv'  BY <1>2, <1>7, AutomationParts DEF JobInv, Forward, Backward, Used
<1>9. ~raced' => ~raced /\ live = copy /\ \A q \in Rules \ {r} : live'[q] = live[q]  BY <1>1, <1>3, <1>4, AutomationParts
<1>12. shed \subseteq shed' /\ (rules[r] # 0 => r \in shed')  BY <1>1, <1>3
<1>10. MatchInv'
  <2>1. PICK s : s = Pending  OBVIOUS
  <2>2. Pending' = s /\ (Resting' => Resting /\ ~raced') /\ (Published' => Published /\ ~raced')
    BY <1>1, <1>2, <2>1 DEF Pending, Resting, Published, Forward, Backward
  <2>3. s \in SUBSET Keys  BY <2>1, AutomationParts, JobKinds DEF Pending
  <2>4. ~raced' => \A q \in Rules \ {r}, t \in SUBSET Keys : Match(q, t) => Match(q, t)'  BY <1>0, <1>2, <1>5, <1>9, DatabaseSame
  <2>7. r \notin shed' => \A t \in SUBSET Keys : Match(r, t)'
    <3>1. ASSUME r \notin shed', NEW t \in SUBSET Keys PROVE Match(r, t)'
      <4>1. rules'[r] = 0 /\ meta'[r] = NoMeta  BY <1>0, <1>2, <1>12, <3>1, AutomationParts DEF OwnInv, Unowned
      <4>2. Overlay(r, t)' = {}  BY <4>1 DEF Overlay, NoMeta
      <4> QED BY <1>0, <1>4, <4>1, <4>2 DEF Match
    <3> QED BY <3>1
  <2>5. Resting => \A q \in Rules \ shed : (job.kind \in {"save", "forget"} => q # job.rule) => Match(q, {})
    BY AutomationParts DEF MatchInv
  <2>6. Published => \A q \in Rules \ shed : Match(q, s)  BY <2>1, AutomationParts DEF MatchInv
  <2> QED BY <1>2, <1>12, <2>2, <2>3, <2>4, <2>5, <2>6, <2>7 DEF MatchInv
<1>11. TempInv'
  <2>1. \A q \in Rules : Forgetting(q)' = Forgetting(q)  BY <1>2 DEF Forgetting
  <2>2. \A q \in temp : Forgetting(q) \/ copy[q].v # 0  BY <1>1, <1>3, AutomationParts DEF TempInv
  <2>3. \A q \in temp : Forgetting(q) \/ live'[q].v # 0  BY <1>0, <1>4, <2>2, AutomationParts
  <2>4. job.kind = "save" => \A q \in temp : job.copy[q].v # 0  BY AutomationParts DEF TempInv
  <2>5. job.kind = "forget" /\ ~raced' => live'[job.rule].v = 0
    <3>1. ASSUME job.kind = "forget", ~raced' PROVE live'[job.rule].v = 0
      <4>1. job.rule \in Rules /\ live[job.rule].v = 0  BY <1>9, <3>1, AutomationParts, JobKinds DEF TempInv, Forgets
      <4> QED BY <1>4, <1>9, <3>1, <4>1
    <3> QED BY <3>1
  <2> QED BY <1>2, <2>1, <2>3, <2>4, <2>5, AutomationParts DEF TempInv
<1> QED BY <1>5, <1>6, <1>8, <1>10, <1>11 DEF AutomationInv

\* A crash leaves only the database.
LEMMA CrashStep ==
  ASSUME AutomationInv, AppCrash
  PROVE  AutomationInv'
<1>1. /\ up' = "down" /\ job' = Idle /\ purge' = {} /\ temp' = {} /\ ticket' = {} /\ live' = [r \in Rules |-> Absent]
      /\ stale' = TRUE /\ raced' = FALSE /\ UNCHANGED <<rules, meta, changes>>
  BY DEF AppCrash
<1>2. live' \in Entries  BY <1>1 DEF Absent, Entries, EntryType
<1>3. job'.kind = "idle"  BY <1>1 DEF Idle
<1>4. AutomationTyped'  BY <1>1, <1>2, AutomationParts DEF AutomationTyped
<1>5. MetaInv' /\ WrittenInv' /\ StandsInv' /\ HoldInv' /\ OwnInv' /\ ExperimentFollowsChange'
  <2>1. \A r \in Rules : ~Temporary(r)'  BY <1>1 DEF Temporary
  <2> QED BY <1>1, <1>4, <2>1, DatabaseSame
<1>6. JobInv' /\ MatchInv'  BY <1>1, <1>3 DEF JobInv, MatchInv, Resting, Published, Forward, Backward
<1>7. TempInv'  BY <1>1, <1>3 DEF TempInv, Forgetting
<1> QED BY <1>4, <1>5, <1>6, <1>7 DEF AutomationInv

\* The items of a plan that can be prepared: what they replace is what runs and who owns it.
LEMMA PreparedItems ==
  ASSUME AutomationInv, NEW lifecycle \in {"persistent", "ephemeral"}, NEW plan \in Plans, NEW content \in Nat,
         NEW user \in BOOLEAN, Preparable(lifecycle, plan, user),
         NEW items, items = Prepared(plan, content)
  PROVE  /\ items \in ItemSets /\ DOMAIN items \subseteq Rules
         /\ \A r \in DOMAIN items :
              /\ items[r] \in ItemType /\ items[r].metaBefore = meta[r] /\ items[r].before = live[r].v
              /\ \A j \in meta[r].change : changes[j].lifecycle # "ephemeral"
              /\ items[r].op = "create" => rules[r] = 0 /\ meta[r] = NoMeta /\ items[r].before = 0 /\ items[r].after = content
              /\ items[r].op = "create" => ~Temporary(r) /\ \A j \in Keys : Used(j) => r \notin Touched(j)
              /\ lifecycle = "ephemeral" => items[r].op = "create"
<1>1. DOMAIN plan \subseteq Rules /\ \A r \in DOMAIN plan : plan[r] \in {"create", "update", "delete"}  BY DEF Plans
<1>2. DOMAIN items = DOMAIN plan  BY DEF Prepared
<1>3. ASSUME NEW r \in DOMAIN plan
      PROVE  /\ items[r] \in ItemType /\ items[r].metaBefore = meta[r] /\ items[r].before = live[r].v /\ items[r].op = plan[r]
             /\ plan[r] = "create" => items[r].after = content
  <2>1. r \in Rules /\ live[r].v \in Nat /\ meta[r] \in MetaType  BY <1>1, <1>3, AutomationParts DEF Entries, EntryType
  <2>2. items[r] = IF plan[r] = "delete" THEN DeleteItem(r) ELSE UpsertItem(r, plan[r], content)  BY <1>3 DEF Prepared
  <2> QED BY <1>1, <1>3, <2>1, <2>2 DEF DeleteItem, UpsertItem, ItemType
<1>4. ASSUME NEW r \in DOMAIN plan
      PROVE  /\ \A j \in meta[r].change : changes[j].lifecycle # "ephemeral"
             /\ plan[r] = "create" => rules[r] = 0 /\ meta[r] = NoMeta /\ live[r].v = 0
             /\ plan[r] = "create" => ~Temporary(r) /\ \A j \in Keys : Used(j) => r \notin Touched(j)
             /\ lifecycle = "ephemeral" => plan[r] = "create"
  <2>2. (plan[r] = "create" => Fresh(r)) /\ (plan[r] # "create" => NotEphemeral(r))
    BY <1>1, <1>4 DEF Preparable, MayUpdate, MayDelete
  <2>3. lifecycle = "ephemeral" => plan[r] = "create"  BY <1>4 DEF Preparable, ValidPlan
  <2> QED BY <2>2, <2>3 DEF Fresh, NotEphemeral, NoMeta, Temporary
<1>5. items = [r \in DOMAIN items |-> items[r]]  BY DEF Prepared
<1>6. items \in ItemSets  BY <1>1, <1>2, <1>3, <1>5 DEF ItemSets
<1> QED BY <1>1, <1>2, <1>3, <1>4, <1>6

\* A new change leaves what the others did alone.
LEMMA NewChange ==
  ASSUME AutomationInv, NEW k \in Keys, ~Used(k), NEW c \in ChangeType, changes' = [changes EXCEPT ![k] = c]
  PROVE  /\ changes' \in ChangeTable /\ changes'[k] = c /\ Used(k)' /\ (\A j \in Keys \ {k} : changes'[j] = changes[j])
         /\ \A r \in Rules, m \in MetaType : MetaSound(r, m) => MetaSound(r, m)'
         /\ \A r \in Rules, m \in MetaType : MetaSound(r, m) => k \notin m.change
         /\ \A j \in Keys : Used(j) => (Used(j)' /\ Touched(j)' = Touched(j) /\ \A r \in Touched(j) : ItemSound(j, r)')
         /\ \A r \in Rules : TakenStale(r) => TakenStale(r)'
<1>1. changes' \in ChangeTable /\ changes'[k] = c /\ \A j \in Keys \ {k} : changes'[j] = changes[j]
  BY AutomationParts DEF ChangeTable
<1>2. Used(k)' /\ \A j \in Keys : Used(j) => Used(j)' /\ j # k /\ changes'[j] = changes[j] /\ Touched(j)' = Touched(j)
  <2>1. changes'[k] # Unused  BY <1>1, MadeChanges
  <2> QED BY <1>1, <2>1 DEF Used, Touched
<1>0. \A r \in Rules : ~Native(r) => ~Native(r)'  BY <1>2 DEF Native
<1>3. ASSUME NEW r \in Rules, NEW m \in MetaType, MetaSound(r, m) PROVE MetaSound(r, m)' /\ k \notin m.change
  BY <1>0, <1>2, <1>3 DEF MetaSound, MetaType
<1>4. ASSUME NEW j \in Keys, Used(j), NEW r \in Touched(j) PROVE ItemSound(j, r)'
  <2>1. PICK m \in MetaType : m = changes[j].items[r].metaBefore  BY <1>4, AutomationParts, TouchedRules
  <2>2. r \in Rules /\ m = changes'[j].items[r].metaBefore /\ changes'[j] = changes[j]
    BY <1>2, <1>4, <2>1, AutomationParts, TouchedRules
  <2>3. MetaSound(r, m) /\ (\A i \in m.change : changes[i].lifecycle = "persistent") /\ (changes[j].lifecycle = "ephemeral" => m.owner # "agent" /\ changes[j].items[r].op = "create")
        /\ (changes[j].items[r].op = "create" => changes[j].items[r].before = 0 /\ changes[j].items[r].after # 0)
    BY <1>4, <2>1, AutomationParts DEF MetaInv, ItemSound
  <2>4. \A i \in m.change : i \in Keys /\ changes'[i] = changes[i]  BY <1>2, <2>1, <2>3 DEF MetaSound, MetaType
  <2> QED BY <1>3, <2>2, <2>3, <2>4 DEF ItemSound
<1>5. ASSUME NEW r \in Rules, TakenStale(r) PROVE TakenStale(r)'
  <2>1. PICK i \in Keys : /\ Used(i) /\ r \in Touched(i) /\ changes[i].items[r].metaBefore.owner = "agent"
                          /\ \E j \in changes[i].items[r].metaBefore.change : changes[i].items[r].before # changes[j].items[r].after
    BY <1>5 DEF TakenStale
  <2>2. PICK j \in changes[i].items[r].metaBefore.change : changes[i].items[r].before # changes[j].items[r].after  BY <2>1
  <2>3. j \in Keys /\ Used(j)  BY <2>1, <2>2, AutomationParts, TouchedRules DEF MetaInv, ItemSound, MetaSound, MetaType
  <2>4. changes'[i] = changes[i] /\ changes'[j] = changes[j] /\ Used(i)' /\ r \in Touched(i)'  BY <1>2, <2>1, <2>3
  <2> QED BY <2>1, <2>2, <2>4 DEF TakenStale
<1> QED BY <1>1, <1>2, <1>3, <1>4, <1>5

\* The commit of a plan: the new change owns what it created or took over from a change.
LEMMA ApplyStep ==
  ASSUME AutomationInv, NEW k \in Keys, NEW user \in BOOLEAN, ApplyCommit(k, user)
  PROVE  AutomationInv'
<1>1. /\ up = "up" /\ job = Idle /\ ~Used(k) /\ job' = [kind |-> "apply", of |-> {k}, step |-> "committed", user |-> user]
      /\ ticket' = {} /\ UNCHANGED <<live, temp, purge, up, stale, raced>>
  BY DEF ApplyCommit, Free
<1>2. PICK t \in ticket : /\ Preparable(t.lifecycle, t.plan, user)
                          /\ LET items == Prepared(t.plan, t.content) IN
                             /\ rules' = TablesAfter(items, t.lifecycle) /\ meta' = MetaAfter(items, k)
                             /\ changes' = [changes EXCEPT ![k] = CommittedChange(t.lifecycle, items)]
  BY DEF ApplyCommit
<1>3. PICK l \in {"persistent", "ephemeral"}, plan \in Plans, content \in Contents : l = t.lifecycle /\ plan = t.plan /\ content = t.content
  BY <1>2, AutomationParts DEF AutomationTyped, TicketType
<1>4. PICK items : items = Prepared(plan, content)  OBVIOUS
<1>5. /\ rules' = TablesAfter(items, l) /\ meta' = MetaAfter(items, k) /\ Preparable(l, plan, user)
      /\ changes' = [changes EXCEPT ![k] = CommittedChange(l, items)]
  BY <1>2, <1>3, <1>4
<1>6. content \in Nat /\ content # 0  BY AutomationAssumption
<1>7. /\ items \in ItemSets /\ DOMAIN items \subseteq Rules
      /\ \A r \in DOMAIN items :
           /\ items[r] \in ItemType /\ items[r].metaBefore = meta[r] /\ items[r].before = live[r].v
           /\ \A j \in meta[r].change : changes[j].lifecycle # "ephemeral"
           /\ items[r].op = "create" => rules[r] = 0 /\ meta[r] = NoMeta /\ items[r].before = 0 /\ items[r].after = content
           /\ items[r].op = "create" => ~Temporary(r) /\ \A j \in Keys : Used(j) => r \notin Touched(j)
           /\ l = "ephemeral" => items[r].op = "create"
  BY <1>4, <1>5, <1>6, PreparedItems
<1>8. PICK h \in [Rules -> Nat] : h = ScopeHashAfter(items)
  <2>1. \A r \in Rules : (IF r \in DOMAIN items THEN items[r].after ELSE live[r].v) \in Nat
    BY <1>7, AutomationParts DEF ItemType, Entries, EntryType
  <2> QED BY <2>1 DEF ScopeHashAfter
<1>0. PICK c : c = [status |-> "committed", lifecycle |-> l, items |-> items, past |-> FALSE,
                    hash |-> h, experiment |-> "none", torn |-> FALSE, resaved |-> {}]
  OBVIOUS
<1>9. /\ c \in ChangeType /\ c = CommittedChange(l, items) /\ c.items = items /\ c.lifecycle = l /\ c.status = "committed"
      /\ c.experiment = "none"
  <2>1. c = CommittedChange(l, items)  BY <1>0, <1>8 DEF CommittedChange
  <2>2. c \in ChangeType  BY <1>0, <1>3, <1>7, <1>8 DEF ChangeType, ChangeStatus, Experiments
  <2> QED BY <1>0, <2>1, <2>2
<1>10. /\ changes' \in ChangeTable /\ changes'[k] = c /\ Used(k)' /\ (\A j \in Keys \ {k} : changes'[j] = changes[j])
       /\ \A r \in Rules, m \in MetaType : MetaSound(r, m) => MetaSound(r, m)'
       /\ \A r \in Rules, m \in MetaType : MetaSound(r, m) => k \notin m.change
       /\ \A j \in Keys : Used(j) => (Used(j)' /\ Touched(j)' = Touched(j) /\ \A r \in Touched(j) : ItemSound(j, r)')
       /\ \A r \in Rules : TakenStale(r) => TakenStale(r)'
  <2>1. changes' = [changes EXCEPT ![k] = c]  BY <1>5, <1>9
  <2> QED BY <1>1, <1>9, <2>1, NewChange
<1>11. Touched(k)' = DOMAIN items  BY <1>9, <1>10 DEF Touched
<1>12. \A r \in Rules : /\ meta[r] \in MetaType /\ MetaSound(r, meta[r]) /\ k \notin meta[r].change
                        /\ \A m \in MetaType : m = meta[r] => MetaSound(r, m)'
  BY <1>10, AutomationParts DEF MetaInv
<1>13. \A r \in Rules : /\ r \notin DOMAIN items => meta'[r] = meta[r]
                        /\ r \in DOMAIN items => \/ meta'[r] = NoMeta /\ items[r].op = "delete"
                                                 \/ /\ meta'[r] = [owner |-> "agent", change |-> {k}]
                                                    /\ items[r].op = "create" \/ meta[r].owner = "agent"
                                                 \/ meta'[r] = meta[r] /\ meta[r].owner # "agent" /\ items[r].op # "create"
                        /\ r \in DOMAIN items /\ items[r].op = "create" => meta'[r] = [owner |-> "agent", change |-> {k}]
  <2>1. \A r \in Rules : meta'[r] = IF r \notin DOMAIN items THEN meta[r]
                                    ELSE IF items[r].op = "delete" THEN NoMeta
                                    ELSE IF items[r].op = "create" \/ items[r].metaBefore.owner = "agent"
                                    THEN [owner |-> "agent", change |-> {k}] ELSE meta[r]
    BY <1>5 DEF MetaAfter
  <2> QED BY <1>7, <2>1
<1>14. NoMeta \in MetaType /\ [owner |-> "agent", change |-> {k}] \in MetaType  BY DEF NoMeta, MetaType
<1>15. meta' \in [Rules -> MetaType]
  <2>1. \A r \in Rules : meta'[r] \in MetaType  BY <1>12, <1>13, <1>14
  <2> QED BY <1>5, <2>1 DEF MetaAfter
<1>16. /\ rules' \in [Rules -> Nat] /\ \A r \in Rules : r \notin DOMAIN items => rules'[r] = rules[r]
       /\ l = "ephemeral" => rules' = rules
       /\ l # "ephemeral" => \A r \in DOMAIN items : rules'[r] = items[r].after
  <2>1. CASE l = "ephemeral"  BY <1>5, <2>1, AutomationParts DEF TablesAfter
  <2>2. CASE l # "ephemeral"
    <3>1. rules' = [r \in Rules |-> IF r \in DOMAIN items THEN items[r].after ELSE rules[r]]  BY <1>5, <2>2 DEF TablesAfter
    <3> QED BY <1>7, <2>2, <3>1, AutomationParts DEF ItemType
  <2> QED BY <2>1, <2>2
<1>17. job' \in Commits /\ job'.kind = "apply" /\ job'.of = {k} /\ job'.step = "committed"  BY <1>1 DEF Commits, JobSteps
<1>18. AutomationTyped'  BY <1>1, <1>10, <1>15, <1>16, <1>17, AutomationParts DEF AutomationTyped
<1>19. MetaInv'
  <2>1. ASSUME NEW r \in Rules PROVE MetaSound(r, meta[r])'
    <3>1. CASE meta'[r] = meta[r]  BY <1>12, <3>1 DEF MetaSound
    <3>2. CASE meta'[r] = NoMeta  BY <3>2 DEF MetaSound, NoMeta
    <3>3. CASE r \in DOMAIN items /\ meta'[r] = [owner |-> "agent", change |-> {k}]
      <4>1. CASE items[r].op = "create"
        <5>1. ~Native(r)'  BY <1>9, <1>10, <1>11, <3>3, <4>1 DEF Native
        <5> QED BY <1>10, <1>11, <3>3, <5>1 DEF MetaSound
      <4>2. CASE meta[r].owner = "agent"
        <5>1. ~Native(r)'  BY <1>12, <4>2 DEF MetaSound
        <5> QED BY <1>10, <1>11, <3>3, <5>1 DEF MetaSound
      <4> QED BY <1>13, <3>3, <4>1, <4>2 DEF NoMeta
    <3> QED BY <1>13, <3>1, <3>2, <3>3
  <2>2. ASSUME NEW r \in DOMAIN items PROVE ItemSound(k, r)'
    <3>1. PICK m \in MetaType : m = meta[r]  BY <1>7, <1>12, <2>2
    <3>2. r \in Rules /\ MetaSound(r, m)' /\ k \notin m.change /\ changes'[k].items[r].metaBefore = m /\ changes'[k].lifecycle = l
      BY <1>7, <1>9, <1>10, <1>12, <2>2, <3>1
    <3>3. MetaSound(r, m)  BY <1>7, <1>12, <2>2, <3>1
    <3>4. \A j \in m.change : changes'[j].lifecycle = "persistent"
      <4>1. ASSUME NEW j \in m.change PROVE changes'[j].lifecycle = "persistent"
        <5>1. j \in Keys /\ Used(j) /\ j # k  BY <3>1, <3>2, <3>3, <4>1 DEF MetaSound, MetaType
        <5>2. changes[j] \in ChangeType /\ changes[j].lifecycle # "ephemeral" /\ changes'[j] = changes[j]
          BY <1>7, <1>10, <2>2, <3>1, <4>1, <5>1, AutomationParts, TouchedRules
        <5> QED BY <5>2 DEF ChangeType
      <4> QED BY <4>1
    <3>5. l = "ephemeral" => m.owner # "agent" /\ changes'[k].items[r].op = "create"  BY <1>7, <1>9, <1>10, <2>2, <3>1 DEF NoMeta
    <3>6. changes'[k].items[r].op = "create" => changes'[k].items[r].before = 0 /\ changes'[k].items[r].after # 0
      BY <1>6, <1>7, <1>9, <1>10, <2>2
    <3> QED BY <3>2, <3>4, <3>5, <3>6 DEF ItemSound
  <2>3. ASSUME NEW j \in Keys, Used(j)', NEW r \in Touched(j)' PROVE ItemSound(j, r)'
    <3>1. CASE j = k  BY <1>11, <2>2, <2>3, <3>1
    <3>2. CASE j # k
      <4>1. Used(j)  BY <1>10, <2>3, <3>2 DEF Used
      <4> QED BY <1>10, <2>3, <4>1
    <3> QED BY <3>1, <3>2
  <2> QED BY <2>1, <2>3 DEF MetaInv
<1>20. WrittenInv'
  <2>1. ASSUME NEW r \in Rules, meta'[r].owner = "agent", NEW j \in meta'[r].change PROVE Written(r, j)'
    <3>1. CASE r \notin DOMAIN items
      <4>1. meta'[r] = meta[r] /\ Written(r, j) /\ rules'[r] = rules[r] /\ j \in Keys /\ j # k
        BY <1>12, <1>13, <1>16, <2>1, <3>1, AutomationParts DEF WrittenInv, MetaType
      <4>2. changes'[j] = changes[j] /\ (TakenStale(r) => TakenStale(r)')  BY <1>10, <4>1
      <4> QED BY <4>1, <4>2 DEF Written
    <3>2. CASE r \in DOMAIN items
      <4>1. j = k  BY <1>13, <2>1, <3>2 DEF NoMeta
      <4>2. changes'[k].lifecycle = l /\ changes'[k].items[r].after = items[r].after  BY <1>9, <1>10
      <4>3. l = "ephemeral" => rules'[r] = 0  BY <1>7, <1>16, <3>2
      <4>4. l # "ephemeral" => rules'[r] = items[r].after  BY <1>16, <3>2
      <4> QED BY <4>1, <4>2, <4>3, <4>4 DEF Written
    <3> QED BY <3>1, <3>2
  <2> QED BY <2>1 DEF WrittenInv
<1>21. StandsInv'
  <2>1. ASSUME NEW j \in Keys, Used(j)', NEW r \in Created(j)' PROVE Has(j, r)' \/ Gone(j, r)'
    <3>1. CASE j = k
      <4>1. r \in DOMAIN items /\ r \in Rules /\ items[r].op = "create"  BY <1>7, <1>9, <1>10, <1>11, <2>1, <3>1 DEF Created
      <4>2. meta'[r].change = {k}  BY <1>13, <4>1
      <4> QED BY <3>1, <4>2 DEF Has
    <3>2. CASE j # k
      <4>1. changes'[j] = changes[j] /\ Used(j) /\ r \in Created(j) /\ r \in Touched(j)
        BY <1>10, <2>1, <3>2 DEF Created, Used, Touched
      <4>2. r \in Rules /\ (Has(j, r) \/ Gone(j, r))  BY <4>1, AutomationParts, TouchedRules DEF StandsInv
      <4>3. CASE r \in DOMAIN items  BY <1>10, <1>11, <3>2, <4>3 DEF Has
      <4>4. CASE r \notin DOMAIN items  BY <1>10, <1>13, <1>16, <4>1, <4>2, <4>4 DEF Has, Gone, Stands
      <4> QED BY <4>3, <4>4
    <3> QED BY <3>1, <3>2
  <2> QED BY <2>1 DEF StandsInv
<1>24. HoldInv'
  <2>1. ASSUME NEW j \in Keys, Short(j)', NEW r \in Touched(j)' PROVE Holds(j, r)'
    <3>1. CASE j = k
      <4>1. r \in Rules /\ r \in DOMAIN items /\ items[r].op = "create"  BY <1>7, <1>9, <1>10, <1>11, <2>1, <3>1 DEF Short
      <4>2. meta'[r] = [owner |-> "agent", change |-> {k}]  BY <1>13, <4>1
      <4>3. \A i \in Keys \ {k} : Used(i)' => Used(i) /\ Touched(i)' = Touched(i)  BY <1>10 DEF Used, Touched
      <4>4. \A i \in Keys \ {k} : Used(i)' => r \notin Touched(i)'  BY <1>7, <4>1, <4>3
      <4> QED BY <3>1, <4>2, <4>4 DEF Holds
    <3>2. CASE j # k
      <4>1. changes'[j] = changes[j] /\ Short(j) /\ r \in Touched(j)  BY <1>10, <2>1, <3>2 DEF Short, Used, Stands, Touched
      <4>2. r \in Rules /\ Holds(j, r) /\ Used(j) /\ changes[j].lifecycle = "ephemeral"
        BY <4>1, AutomationParts, TouchedRules DEF HoldInv, Short
      <4>3. r \notin DOMAIN items  BY <1>7, <4>1, <4>2 DEF Holds
      <4>4. meta'[r] = meta[r] /\ r \notin Touched(k)'  BY <1>11, <1>13, <4>2, <4>3
      <4>5. \A i \in Keys \ {j} : Used(i)' => r \notin Touched(i)'  BY <1>10, <4>2, <4>4 DEF Holds, Used, Touched
      <4> QED BY <4>2, <4>4, <4>5 DEF Holds
    <3> QED BY <3>1, <3>2
  <2> QED BY <2>1 DEF HoldInv
<1>25. OwnInv'
  <2>1. ASSUME NEW r \in Rules, Temporary(r)' PROVE Unowned(r)'
    <3>1. Temporary(r) /\ Unowned(r) /\ meta[r] = NoMeta /\ meta[r].owner = "none"
      BY <1>1, <2>1, AutomationParts DEF Temporary, OwnInv, Unowned, NoMeta
    <3>2. r \in DOMAIN items => items[r].op # "create" /\ items[r].metaBefore = NoMeta  BY <1>7, <3>1
    <3>3. meta'[r] = NoMeta  BY <1>13, <3>1, <3>2
    <3>4. ASSUME NEW j \in Keys, Used(j)', r \in Touched(j)' PROVE changes'[j].items[r].metaBefore = NoMeta
      <4>1. CASE j = k  BY <1>9, <1>10, <1>11, <3>2, <3>4, <4>1
      <4>2. CASE j # k  BY <1>10, <3>1, <3>4, <4>2 DEF Unowned, Used, Touched
      <4> QED BY <4>1, <4>2
    <3> QED BY <3>3, <3>4 DEF Unowned
  <2> QED BY <2>1 DEF OwnInv
<1>22. JobInv'  BY <1>1, <1>9, <1>10, <1>17 DEF JobInv, Forward, Backward
<1>23. ExperimentFollowsChange'  BY <1>9, <1>10, AutomationParts DEF ExperimentFollowsChange, Used
<1> QED BY <1>1, <1>17, <1>18, <1>19, <1>20, <1>21, <1>22, <1>23, <1>24, <1>25, CommittedJob DEF AutomationInv

\* The commit of a rollback: its rules and their owners are put back.
LEMMA RollbackStep ==
  ASSUME AutomationInv, NEW k \in Keys, NEW reason \in {"manual", "expired"}, NEW user \in BOOLEAN,
         up = "up", job = Idle, Used(k), RollbackChange(k, reason, user)
  PROVE  AutomationInv'
<1>1. /\ rules' = RestoredRules(k) /\ meta' = RestoredMeta(k) /\ changes' = SetStatus(changes, {k}, "reverting")
      /\ job' = [kind |-> reason, of |-> {k}, step |-> "committed", user |-> user]
      /\ UNCHANGED <<live, temp, purge, ticket, up, stale, raced>>
  BY DEF RollbackChange
<1>2. PICK g : g = SetStatus(changes, {k}, "reverting")  OBVIOUS
<1>3. /\ g \in ChangeTable /\ Rewritten(changes, g) /\ (\A j \in Keys \ {k} : g[j] = changes[j])
      /\ g[k].status = "reverting" /\ g[k].resaved = changes[k].resaved
  <2>1. PICK ks \in SUBSET Keys, s \in ChangeStatus : ks = {k} /\ s = "reverting"  BY DEF ChangeStatus
  <2>2. (\A j \in ks : changes[j] # Unused) /\ changes \in ChangeTable  BY <2>1, AutomationParts DEF Used
  <2>3. /\ SetStatus(changes, ks, s) \in ChangeTable /\ Rewritten(changes, SetStatus(changes, ks, s))
        /\ \A j \in Keys \ ks : SetStatus(changes, ks, s)[j] = changes[j]
        /\ \A j \in ks : SetStatus(changes, ks, s)[j].status = s /\ SetStatus(changes, ks, s)[j].resaved = changes[j].resaved
    BY <2>2, StatusIsSet
  <2> QED BY <1>2, <2>1, <2>3
<1>4. changes' = g  BY <1>1, <1>2
<1>5. Touched(k) \subseteq Rules /\ \A r \in Touched(k) : /\ changes[k].items[r] \in ItemType /\ changes[k].items[r].metaBefore \in MetaType
                                                           /\ changes[k].items[r].before \in Nat
  BY AutomationParts, TouchedRules DEF ItemType
<1>6. /\ meta' \in [Rules -> MetaType] /\ (\A r \in Touched(k) : meta'[r] = changes[k].items[r].metaBefore)
      /\ \A r \in Rules \ Touched(k) : meta'[r] = meta[r]
  BY <1>1, <1>5, AutomationParts DEF RestoredMeta
<1>7. /\ rules' \in [Rules -> Nat] /\ (\A r \in Rules \ Touched(k) : rules'[r] = rules[r])
      /\ changes[k].lifecycle # "ephemeral" => \A r \in Touched(k) : rules'[r] = changes[k].items[r].before
  BY <1>1, <1>5, AutomationParts DEF RestoredRules
<1>8. job' \in Commits /\ job'.kind = reason /\ job'.of = {k} /\ job'.step = "committed"  BY <1>1 DEF Commits, JobSteps
<1>9. AutomationTyped'  BY <1>1, <1>3, <1>4, <1>6, <1>7, <1>8, AutomationParts DEF AutomationTyped
<1>10. /\ \A j \in Keys : Used(j)' <=> Used(j)
       /\ \A j \in Keys : Used(j) => changes'[j].items = changes[j].items /\ changes'[j].lifecycle = changes[j].lifecycle
       /\ \A r \in Rules, m \in MetaType : MetaSound(r, m) => MetaSound(r, m)'
       /\ \A j \in Keys : Used(j)' => \A r \in Touched(j)' : ItemSound(j, r)'
       /\ \A r \in Rules : TakenStale(r) => TakenStale(r)'
  BY <1>3, <1>4, <1>9, AutomationParts, DeedsStay
<1>11. \A r \in Touched(k) : ItemSound(k, r)  BY AutomationParts DEF MetaInv
<1>12. MetaInv'
  <2>1. ASSUME NEW r \in Rules PROVE MetaSound(r, meta[r])'
    <3>1. PICK m \in MetaType : m = meta'[r]  BY <1>6
    <3>2. MetaSound(r, m)
      <4>1. CASE r \in Touched(k)  BY <1>6, <1>11, <3>1, <4>1 DEF ItemSound
      <4>2. CASE r \notin Touched(k)  BY <1>6, <3>1, <4>2, AutomationParts DEF MetaInv
      <4> QED BY <4>1, <4>2
    <3>3. MetaSound(r, m)'  BY <1>10, <3>2
    <3> QED BY <3>1, <3>3 DEF MetaSound
  <2> QED BY <1>10, <2>1 DEF MetaInv
<1>13. WrittenInv'
  <2>1. ASSUME NEW r \in Rules, meta'[r].owner = "agent", NEW j \in meta'[r].change PROVE Written(r, j)'
    <3>1. CASE r \notin Touched(k)
      <4>1. meta'[r] = meta[r] /\ rules'[r] = rules[r] /\ Written(r, j)  BY <1>6, <1>7, <2>1, <3>1, AutomationParts DEF WrittenInv
      <4>2. j \in Keys /\ Used(j)  BY <2>1, <4>1, AutomationParts DEF MetaInv, MetaSound, MetaType
      <4>3. changes'[j].items = changes[j].items /\ changes'[j].lifecycle = changes[j].lifecycle /\ (TakenStale(r) => TakenStale(r)')
        BY <1>10, <4>2
      <4> QED BY <4>1, <4>3 DEF Written
    <3>2. CASE r \in Touched(k)
      <4>1. PICK m \in MetaType : m = changes[k].items[r].metaBefore /\ m = meta'[r]  BY <1>5, <1>6, <3>2
      <4>2. MetaSound(r, m) /\ changes[j].lifecycle = "persistent" /\ changes[k].lifecycle # "ephemeral"
        BY <1>11, <2>1, <3>2, <4>1 DEF ItemSound
      <4>3. j \in Keys /\ Used(j) /\ rules'[r] = changes[k].items[r].before
        BY <1>7, <2>1, <3>2, <4>1, <4>2 DEF MetaSound, MetaType
      <4>4. changes'[j].items = changes[j].items /\ changes'[j].lifecycle = changes[j].lifecycle /\ changes'[k].items = changes[k].items /\ Used(k)'
        BY <1>10, <4>3
      <4>5. CASE changes[k].items[r].before = changes[j].items[r].after  BY <4>2, <4>3, <4>4, <4>5 DEF Written
      <4>6. CASE changes[k].items[r].before # changes[j].items[r].after
        <5>1. r \in Touched(k)' /\ changes'[k].items[r].metaBefore = m /\ m.owner = "agent" /\ j \in m.change
              /\ changes'[k].items[r].before # changes'[j].items[r].after
          BY <2>1, <3>2, <4>1, <4>4, <4>6 DEF Touched
        <5>2. TakenStale(r)'  BY <4>4, <5>1 DEF TakenStale
        <5> QED BY <5>2 DEF Written
      <4> QED BY <4>5, <4>6
    <3> QED BY <3>1, <3>2
  <2> QED BY <2>1 DEF WrittenInv
<1>14. StandsInv'
  <2>1. ASSUME NEW j \in Keys, Used(j)', NEW r \in Created(j)' PROVE Has(j, r)' \/ Gone(j, r)'
    <3>1. Used(j) /\ r \in Touched(j) /\ r \in Created(j) /\ changes'[j].lifecycle = changes[j].lifecycle
      <4>1. changes'[j].resaved = changes[j].resaved  BY <1>3, <1>4
      <4> QED BY <1>10, <2>1, <4>1 DEF Created, Touched
    <3>2. r \in Rules /\ (Has(j, r) \/ Gone(j, r))  BY <3>1, AutomationParts, TouchedRules DEF StandsInv
    <3>3. \A i \in Keys : Used(i) /\ r \in Touched(i) => Used(i)' /\ r \in Touched(i)'  BY <1>10 DEF Touched
    <3>4. CASE j = k
      <4>1. ~Stands(k)'  BY <1>3, <1>4 DEF Stands
      <4>2. changes[k].lifecycle = "persistent" => rules'[r] = 0  BY <1>7, <1>11, <3>1, <3>4 DEF ItemSound, Created
      <4> QED BY <3>1, <3>4, <4>1, <4>2 DEF Gone
    <3>5. CASE j # k /\ r \in Touched(k)  BY <3>3, <3>5 DEF Has
    <3>6. CASE j # k /\ r \notin Touched(k)
      <4>1. changes'[j] = changes[j] /\ meta'[r] = meta[r] /\ rules'[r] = rules[r]  BY <1>3, <1>4, <1>6, <1>7, <3>2, <3>6
      <4> QED BY <3>2, <3>3, <4>1 DEF Has, Gone, Stands
    <3> QED BY <3>4, <3>5, <3>6
  <2> QED BY <2>1 DEF StandsInv
<1>17. HoldInv' /\ OwnInv'
  <2>1. ASSUME NEW j \in Keys, Used(j), changes[j].lifecycle = "ephemeral", Stands(j)'
        PROVE  Stands(j) /\ \A r \in Touched(j) : meta'[r] = meta[r]
    <3>1. j # k  BY <1>3, <1>4, <2>1 DEF Stands
    <3>2. Stands(j)  BY <1>3, <1>4, <2>1, <3>1 DEF Stands
    <3>3. \A r \in Touched(j) : Holds(j, r) /\ r \in Rules  BY <2>1, <3>2, AutomationParts, TouchedRules DEF HoldInv, Short
    <3>4. \A r \in Touched(j) : r \in Rules \ Touched(k)  BY <3>1, <3>3 DEF Holds
    <3> QED BY <1>6, <3>2, <3>4
  <2>2. \A r \in Rules : Temporary(r)' => Temporary(r)  BY <1>1 DEF Temporary
  <2>3. \A r \in Rules : Unowned(r) => meta'[r] = NoMeta  BY <1>6 DEF Unowned
  <2> QED BY <1>3, <1>4, <1>9, <2>1, <2>2, <2>3, AutomationParts, HoldStays, OwnStays
<1>15. JobInv'  BY <1>1, <1>3, <1>4, <1>8, <1>10 DEF JobInv, Forward, Backward
<1>16. ExperimentFollowsChange'  BY <1>3, <1>4, <1>10, AutomationParts DEF ExperimentFollowsChange
<1> QED BY <1>1, <1>8, <1>9, <1>12, <1>13, <1>14, <1>15, <1>16, <1>17, CommittedJob DEF AutomationInv

\* The commit of a clear: the agent's rules are gone, every change that touched one is over.
LEMMA ClearStep ==
  ASSUME AutomationInv, NEW lifecycles, ClearCommit(lifecycles)
  PROVE  AutomationInv'
<1>1. PICK gone \in SUBSET Rules : gone = Cleared(lifecycles)  BY DEF Cleared
<1>2. PICK ks \in SUBSET Keys : ks = ChangesOf(gone)  BY DEF ChangesOf
<1>3. /\ up = "up" /\ job = Idle
      /\ rules' = [r \in Rules |-> IF r \in gone THEN 0 ELSE rules[r]]
      /\ meta' = [r \in Rules |-> IF r \in gone THEN NoMeta ELSE meta[r]]
      /\ changes' = SetStatus(changes, ks, "reverting") /\ job' = [kind |-> "clear", of |-> ks, step |-> "committed", user |-> FALSE]
      /\ UNCHANGED <<live, temp, purge, ticket, up, stale, raced>>
  BY <1>1, <1>2 DEF ClearCommit, Free
<1>4. (\A k \in ks : Used(k)) /\ \A k \in Keys : Used(k) /\ (\E r \in gone : r \in Touched(k)) => k \in ks  BY <1>2 DEF ChangesOf
<1>5. PICK g : g = SetStatus(changes, ks, "reverting")  OBVIOUS
<1>6. /\ g \in ChangeTable /\ Rewritten(changes, g) /\ (\A j \in Keys \ ks : g[j] = changes[j])
      /\ \A j \in ks : g[j].status = "reverting" /\ g[j].resaved = changes[j].resaved
  <2>1. PICK s \in ChangeStatus : s = "reverting"  BY DEF ChangeStatus
  <2>2. (\A j \in ks : changes[j] # Unused) /\ changes \in ChangeTable  BY <1>4, AutomationParts DEF Used
  <2>3. /\ SetStatus(changes, ks, s) \in ChangeTable /\ Rewritten(changes, SetStatus(changes, ks, s))
        /\ \A j \in Keys \ ks : SetStatus(changes, ks, s)[j] = changes[j]
        /\ \A j \in ks : SetStatus(changes, ks, s)[j].status = s /\ SetStatus(changes, ks, s)[j].resaved = changes[j].resaved
    BY <2>2, StatusIsSet
  <2> QED BY <1>5, <2>1, <2>3
<1>7. changes' = g  BY <1>3, <1>5
<1>8. /\ rules' \in [Rules -> Nat] /\ meta' \in [Rules -> MetaType] /\ (\A r \in gone : meta'[r] = NoMeta)
      /\ \A r \in Rules \ gone : meta'[r] = meta[r] /\ rules'[r] = rules[r]
  BY <1>3, AutomationParts DEF NoMeta, MetaType
<1>9. job' \in Commits /\ job'.kind = "clear" /\ job'.of = ks /\ job'.step = "committed"  BY <1>3 DEF Commits, JobSteps
<1>10. AutomationTyped'  BY <1>3, <1>6, <1>7, <1>8, <1>9, AutomationParts DEF AutomationTyped
<1>11. /\ \A j \in Keys : Used(j)' <=> Used(j)
       /\ \A j \in Keys : Used(j) => changes'[j].items = changes[j].items /\ changes'[j].lifecycle = changes[j].lifecycle
       /\ \A r \in Rules, m \in MetaType : MetaSound(r, m) => MetaSound(r, m)'
       /\ \A j \in Keys : Used(j)' => \A r \in Touched(j)' : ItemSound(j, r)'
       /\ \A r \in Rules : TakenStale(r) => TakenStale(r)'
  BY <1>6, <1>7, <1>10, AutomationParts, DeedsStay
<1>12. MetaInv'
  <2>1. ASSUME NEW r \in Rules PROVE MetaSound(r, meta[r])'
    <3>1. CASE r \in gone  BY <1>8, <3>1 DEF MetaSound, NoMeta
    <3>2. CASE r \notin gone
      <4>1. PICK m \in MetaType : m = meta'[r] /\ m = meta[r]  BY <1>8, <3>2, AutomationParts
      <4>2. MetaSound(r, m)'  BY <1>11, <4>1, AutomationParts DEF MetaInv
      <4> QED BY <4>1, <4>2 DEF MetaSound
    <3> QED BY <3>1, <3>2
  <2> QED BY <1>11, <2>1 DEF MetaInv
<1>13. WrittenInv'
  <2>1. ASSUME NEW r \in Rules, meta'[r].owner = "agent", NEW j \in meta'[r].change PROVE Written(r, j)'
    <3>1. r \notin gone  BY <1>8, <2>1 DEF NoMeta
    <3>2. meta'[r] = meta[r] /\ rules'[r] = rules[r] /\ Written(r, j)  BY <1>8, <2>1, <3>1, AutomationParts DEF WrittenInv
    <3>3. j \in Keys /\ Used(j)  BY <2>1, <3>2, AutomationParts DEF MetaInv, MetaSound, MetaType
    <3>4. changes'[j].items = changes[j].items /\ changes'[j].lifecycle = changes[j].lifecycle /\ (TakenStale(r) => TakenStale(r)')
      BY <1>11, <3>3
    <3> QED BY <3>2, <3>4 DEF Written
  <2> QED BY <2>1 DEF WrittenInv
<1>14. StandsInv'
  <2>1. ASSUME NEW j \in Keys, Used(j)', NEW r \in Created(j)' PROVE Has(j, r)' \/ Gone(j, r)'
    <3>1. Used(j) /\ r \in Touched(j) /\ r \in Created(j) /\ changes'[j].lifecycle = changes[j].lifecycle
      <4>1. changes'[j].resaved = changes[j].resaved  BY <1>6, <1>7
      <4> QED BY <1>11, <2>1, <4>1 DEF Created, Touched
    <3>2. r \in Rules /\ (Has(j, r) \/ Gone(j, r))  BY <3>1, AutomationParts, TouchedRules DEF StandsInv
    <3>3. \A i \in Keys : Used(i) /\ r \in Touched(i) => Used(i)' /\ r \in Touched(i)'  BY <1>11 DEF Touched
    <3>4. Stands(j)' => j \notin ks /\ Stands(j)  BY <1>6, <1>7 DEF Stands
    <3>5. CASE r \in gone
      <4>1. j \in ks /\ rules'[r] = 0  BY <1>3, <1>4, <3>1, <3>2, <3>5
      <4> QED BY <3>4, <4>1 DEF Gone
    <3>6. CASE r \notin gone
      <4>1. meta'[r] = meta[r] /\ rules'[r] = rules[r]  BY <1>8, <3>2, <3>6
      <4> QED BY <3>1, <3>2, <3>3, <3>4, <4>1 DEF Has, Gone
    <3> QED BY <3>5, <3>6
  <2> QED BY <2>1 DEF StandsInv
<1>17. HoldInv' /\ OwnInv'
  <2>1. ASSUME NEW j \in Keys, Used(j), changes[j].lifecycle = "ephemeral", Stands(j)'
        PROVE  Stands(j) /\ \A r \in Touched(j) : meta'[r] = meta[r]
    <3>1. j \notin ks  BY <1>6, <1>7, <2>1 DEF Stands
    <3>2. Stands(j)  BY <1>6, <1>7, <2>1, <3>1 DEF Stands
    <3>3. \A r \in Touched(j) : r \in Rules \ gone  BY <1>4, <2>1, <3>1, AutomationParts, TouchedRules
    <3> QED BY <1>8, <3>2, <3>3
  <2>2. \A r \in Rules : Temporary(r)' => Temporary(r)  BY <1>3 DEF Temporary
  <2>3. \A r \in Rules : Unowned(r) => meta'[r] = NoMeta  BY <1>8 DEF Unowned
  <2> QED BY <1>6, <1>7, <1>10, <2>1, <2>2, <2>3, AutomationParts, HoldStays, OwnStays
<1>15. JobInv'  BY <1>3, <1>4, <1>6, <1>7, <1>9, <1>11 DEF JobInv, Forward, Backward
<1>16. ExperimentFollowsChange'  BY <1>6, <1>7, <1>11, AutomationParts DEF ExperimentFollowsChange
<1> QED BY <1>3, <1>9, <1>10, <1>12, <1>13, <1>14, <1>15, <1>16, <1>17, CommittedJob DEF AutomationInv

\* The changes ks get the status s and their experiments end with x.
FinishedAs(f, ks, s, x) == SetExperiment(SetStatus(f, ks, s), ks, x)

\* A status and the end of the experiment, recorded together.
LEMMA Finished ==
  ASSUME NEW f \in ChangeTable, NEW ks \in SUBSET Keys, NEW s \in ChangeStatus, NEW x \in Experiments \ {"none", "running"},
         \A k \in ks : f[k] # Unused
  PROVE  /\ FinishedAs(f, ks, s, x) \in ChangeTable /\ Rewritten(f, FinishedAs(f, ks, s, x))
         /\ \A k \in Keys \ ks : FinishedAs(f, ks, s, x)[k] = f[k]
         /\ \A k \in ks : /\ FinishedAs(f, ks, s, x)[k].status = s /\ FinishedAs(f, ks, s, x)[k].experiment # "running"
                         /\ FinishedAs(f, ks, s, x)[k].resaved = f[k].resaved
<1>0. PICK g : g = FinishedAs(f, ks, s, x)  OBVIOUS
<1>1. PICK h : h = SetStatus(f, ks, s)  OBVIOUS
<1>2. /\ SetStatus(f, ks, s) \in ChangeTable /\ Rewritten(f, SetStatus(f, ks, s))
      /\ \A k \in Keys \ ks : SetStatus(f, ks, s)[k] = f[k]
      /\ \A k \in ks : SetStatus(f, ks, s)[k].status = s /\ SetStatus(f, ks, s)[k].resaved = f[k].resaved
  BY StatusIsSet
<1>3. /\ h \in ChangeTable /\ Rewritten(f, h) /\ (\A k \in Keys \ ks : h[k] = f[k])
      /\ \A k \in ks : h[k].status = s /\ h[k].resaved = f[k].resaved
  BY <1>1, <1>2
<1>4. \A k \in ks : h[k] # Unused  BY <1>3 DEF Rewritten
<1>5. /\ SetExperiment(h, ks, x) \in ChangeTable /\ Rewritten(h, SetExperiment(h, ks, x))
      /\ \A k \in Keys \ ks : SetExperiment(h, ks, x)[k] = h[k]
      /\ \A k \in ks : SetExperiment(h, ks, x)[k].status = h[k].status
                       /\ SetExperiment(h, ks, x)[k].experiment # "running" /\ SetExperiment(h, ks, x)[k].resaved = h[k].resaved
  BY <1>3, <1>4, ExperimentIsSet
<1>6. g = SetExperiment(h, ks, x)  BY <1>0, <1>1 DEF FinishedAs
<1>7. Rewritten(f, g)  BY <1>3, <1>5, <1>6 DEF Rewritten
<1> QED BY <1>0, <1>3, <1>5, <1>6, <1>7

\* A promotion passes the rules of the change to the user.
LEMMA PromoteStep ==
  ASSUME AutomationInv, NEW k \in Keys, Promote(k)
  PROVE  AutomationInv'
<1>1. /\ up = "up" /\ job = Idle /\ Used(k) /\ changes[k].lifecycle = "persistent"
      /\ meta' = [r \in Rules |-> IF meta[r].change = {k} THEN [meta[r] EXCEPT !.owner = "user"] ELSE meta[r]]
      /\ changes' = SetExperiment(SetStatus(changes, {k}, "promoted"), {k}, "promoted")
      /\ UNCHANGED <<rules, live, temp, job, purge, ticket, up, stale, raced, shed>>
  BY DEF Promote, Free
<1>2. PICK g : g = FinishedAs(changes, {k}, "promoted", "promoted")  OBVIOUS
<1>3. /\ g \in ChangeTable /\ Rewritten(changes, g) /\ (\A j \in Keys \ {k} : g[j] = changes[j])
      /\ g[k].status = "promoted" /\ g[k].experiment # "running" /\ g[k].resaved = changes[k].resaved
  <2>1. /\ {k} \in SUBSET Keys /\ "promoted" \in ChangeStatus /\ "promoted" \in Experiments \ {"none", "running"}
        /\ (\A j \in {k} : changes[j] # Unused) /\ changes \in ChangeTable
    BY <1>1, AutomationParts DEF ChangeStatus, Experiments, Used
  <2>2. PICK ks \in SUBSET Keys, s \in ChangeStatus, x \in Experiments \ {"none", "running"} : ks = {k} /\ s = "promoted" /\ x = "promoted"
    BY <2>1
  <2>4. (\A j \in ks : changes[j] # Unused) /\ changes \in ChangeTable  BY <2>1, <2>2
  <2>3. /\ FinishedAs(changes, ks, s, x) \in ChangeTable /\ Rewritten(changes, FinishedAs(changes, ks, s, x))
        /\ \A j \in Keys \ ks : FinishedAs(changes, ks, s, x)[j] = changes[j]
        /\ \A j \in ks : /\ FinishedAs(changes, ks, s, x)[j].status = s /\ FinishedAs(changes, ks, s, x)[j].experiment # "running"
                       /\ FinishedAs(changes, ks, s, x)[j].resaved = changes[j].resaved
    BY <2>4, Finished
  <2> QED BY <1>2, <2>2, <2>3
<1>4. changes' = g  BY <1>1, <1>2 DEF FinishedAs
<1>5. /\ meta' \in [Rules -> MetaType] /\ \A r \in Rules : meta'[r].change = meta[r].change
      /\ \A r \in Rules : meta[r].change = {k} => meta'[r].owner = "user"
      /\ \A r \in Rules : meta[r].change # {k} => meta'[r] = meta[r]
  <2>1. \A r \in Rules : LET m == [meta[r] EXCEPT !.owner = "user"] IN m \in MetaType /\ m.owner = "user" /\ m.change = meta[r].change
    BY AutomationParts DEF MetaType
  <2> QED BY <1>1, <2>1, AutomationParts
<1>6. AutomationTyped'  BY <1>1, <1>3, <1>4, <1>5, AutomationParts DEF AutomationTyped
<1>7. /\ \A j \in Keys : Used(j)' <=> Used(j)
      /\ \A j \in Keys : Used(j) => changes'[j].items = changes[j].items /\ changes'[j].lifecycle = changes[j].lifecycle
      /\ \A r \in Rules, m \in MetaType : MetaSound(r, m) => MetaSound(r, m)'
      /\ \A j \in Keys : Used(j)' => \A r \in Touched(j)' : ItemSound(j, r)'
      /\ \A r \in Rules : TakenStale(r) => TakenStale(r)'
  BY <1>3, <1>4, <1>6, AutomationParts, DeedsStay
<1>8. MetaInv'
  <2>1. ASSUME NEW r \in Rules PROVE MetaSound(r, meta[r])'
    <3>1. PICK m \in MetaType : m = meta'[r]  BY <1>5
    <3>2. MetaSound(r, m)
      <4>1. MetaSound(r, meta[r])  BY AutomationParts DEF MetaInv
      <4>2. CASE meta[r].change = {k}  BY <1>1, <1>5, <3>1, <4>1, <4>2 DEF MetaSound
      <4>3. CASE meta[r].change # {k}  BY <1>5, <3>1, <4>1, <4>3
      <4> QED BY <4>2, <4>3
    <3>3. MetaSound(r, m)'  BY <1>7, <3>2
    <3> QED BY <3>1, <3>3 DEF MetaSound
  <2> QED BY <1>7, <2>1 DEF MetaInv
<1>9. WrittenInv'
  <2>1. ASSUME NEW r \in Rules, meta'[r].owner = "agent", NEW j \in meta'[r].change PROVE Written(r, j)'
    <3>1. meta'[r] = meta[r] /\ Written(r, j)  BY <1>5, <2>1, AutomationParts DEF WrittenInv
    <3>2. j \in Keys /\ Used(j)  BY <2>1, <3>1, AutomationParts DEF MetaInv, MetaSound, MetaType
    <3>3. changes'[j].items = changes[j].items /\ changes'[j].lifecycle = changes[j].lifecycle /\ (TakenStale(r) => TakenStale(r)')
      BY <1>7, <3>2
    <3> QED BY <1>1, <3>1, <3>3 DEF Written
  <2> QED BY <2>1 DEF WrittenInv
<1>10. StandsInv'
  <2>1. ASSUME NEW j \in Keys, Used(j)
        PROVE  (Stands(j)' => Stands(j)) /\ \A r \in Touched(j) \ changes'[j].resaved : rules'[r] \in {rules[r], 0} /\ r \notin changes[j].resaved
    BY <1>1, <1>3, <1>4 DEF Stands
  <2>2. Rewritten(changes, changes')  BY <1>3, <1>4
  <2> QED BY <1>5, <1>6, <2>1, <2>2, AutomationParts, StandingStays
<1>11. job.kind = "idle"  BY <1>1 DEF Idle
<1>12. JobInv'  BY <1>1, <1>11 DEF JobInv, Forward, Backward
<1>16. \A r \in Rules : Temporary(r)' <=> Temporary(r)  BY <1>1 DEF Temporary
<1>17. HoldInv' /\ OwnInv'
  <2>1. ASSUME NEW j \in Keys, Used(j), changes[j].lifecycle = "ephemeral", Stands(j)'
        PROVE  Stands(j) /\ \A r \in Touched(j) : meta[r].change = {j} => meta'[r] = meta[r]
    <3>1. j # k  BY <1>1, <2>1
    <3>2. \A r \in Touched(j) : r \in Rules  BY <2>1, AutomationParts, TouchedRules
    <3> QED BY <1>3, <1>4, <1>5, <2>1, <3>1, <3>2 DEF Stands
  <2>2. \A r \in Rules : Unowned(r) => meta'[r] = NoMeta  BY <1>5 DEF Unowned, NoMeta
  <2> QED BY <1>3, <1>4, <1>6, <1>16, <2>1, <2>2, AutomationParts, HoldStays, OwnStays
<1>13. MatchInv'
  <2>1. ~Published' /\ (Resting' => Resting)  BY <1>1, <1>11 DEF Published, Forward, Backward, Resting
  <2>2. ASSUME Resting', NEW r \in Rules \ shed' PROVE Match(r, {})'
    <3>1. Match(r, {}) /\ MetaSound(r, meta[r]) /\ r \in Rules  BY <1>1, <1>11, <2>1, <2>2, AutomationParts DEF MatchInv, MetaInv
    <3>2. CASE k \in meta[r].change
      <4>1. meta[r].change = {k} /\ meta'[r].change = {k} /\ meta'[r].owner = "user"  BY <1>5, <3>1, <3>2 DEF MetaSound
      <4>2. changes'[k].lifecycle = "persistent"  BY <1>1, <1>7
      <4>3. Overlay(r, {}) = {} /\ Overlay(r, {})' = {}  BY <1>1, <4>1, <4>2 DEF Overlay
      <4> QED BY <1>1, <1>16, <3>1, <4>1, <4>3 DEF Match
    <3>3. CASE k \notin meta[r].change
      <4>1. meta'[r] = meta[r] /\ \A j \in meta[r].change : j \in Keys \ {k}  BY <1>5, <3>3, AutomationParts DEF MetaType
      <4>2. \A j \in meta[r].change : changes'[j].status = changes[j].status  BY <1>3, <1>4, <4>1
      <4>3. live'[r] = live[r] /\ rules'[r] = rules[r] /\ Rewritten(changes, changes')  BY <1>1, <1>3, <1>4
      <4> QED BY <1>6, <1>16, <3>1, <4>1, <4>2, <4>3, AutomationParts, MatchStays
    <3> QED BY <3>2, <3>3
  <2> QED BY <2>1, <2>2 DEF MatchInv
<1>14. TempInv'  BY <1>1, AutomationParts DEF TempInv, Forgetting
<1>15. ExperimentFollowsChange'  BY <1>3, <1>4, <1>7, AutomationParts DEF ExperimentFollowsChange
<1> QED BY <1>6, <1>8, <1>9, <1>10, <1>12, <1>13, <1>14, <1>15, <1>17 DEF AutomationInv

\* While the engine starts it has no job and no temporary rule.
LEMMA StartingUp ==
  ASSUME AutomationInv, up # "up", UNCHANGED <<temp, job, purge, raced>>, up' \in {"down", "loaded"} => stale'
  PROVE  /\ JobInv' /\ TempInv' /\ ~Published' /\ ~raced /\ temp = {} /\ purge = {}
         /\ (\A r \in Rules : ~Temporary(r) /\ ~Temporary(r)') /\ (Resting' => ~stale') /\ (~stale => Resting) /\ job.kind = "idle"
<1>1. job = Idle /\ job.kind = "idle" /\ temp = {} /\ purge = {} /\ ~raced  BY AutomationParts DEF JobInv, Idle
<1>2. JobInv'  BY <1>1 DEF JobInv, Forward, Backward
<1>3. TempInv'  BY <1>1 DEF TempInv
<1>4. ~Published' /\ (Resting' => ~stale') /\ (~stale => Resting)  BY <1>1 DEF Published, Resting, Forward, Backward
<1> QED BY <1>1, <1>2, <1>3, <1>4 DEF Temporary

\* The managers are filled from the tables before anything is recovered.
LEMMA BootStep ==
  ASSUME AutomationInv, Boot
  PROVE  AutomationInv'
<1>1. /\ up = "down" /\ up' = "loaded" /\ live' = [r \in Rules |-> [v |-> rules[r], lock |-> FALSE]]
      /\ UNCHANGED <<rules, meta, changes, temp, job, purge, ticket, stale, raced>>
  BY DEF Boot
<1>2. stale /\ stale'  BY <1>1, AutomationParts DEF JobInv
<1>3. live' \in Entries
  <2>1. \A r \in Rules : [v |-> rules[r], lock |-> FALSE] \in EntryType  BY AutomationParts DEF EntryType
  <2> QED BY <1>1, <2>1 DEF Entries
<1>4. AutomationTyped'  BY <1>1, <1>3, AutomationParts DEF AutomationTyped
<1>5. /\ JobInv' /\ TempInv' /\ ~Published' /\ (Resting' => ~stale') /\ \A r \in Rules : ~Temporary(r)'  BY <1>1, <1>2, StartingUp
<1>6. MatchInv'  BY <1>2, <1>5 DEF MatchInv
<1> QED BY <1>1, <1>4, <1>5, <1>6, DatabaseSame DEF AutomationInv

\* At the start an ephemeral change that was under way is abandoned and owns nothing any more.
LEMMA AbandonStep ==
  ASSUME AutomationInv, NEW k \in Keys, AbandonEphemeral(k)
  PROVE  AutomationInv'
<1>2. /\ up = "loaded" /\ k \in Abandoned /\ meta' = MetaWithout({k})
      /\ changes' = SetExperiment(SetStatus(changes, {k}, "aborted"), {k}, "expired")
      /\ UNCHANGED <<rules, live, temp, job, purge, ticket, up, stale, raced>>
  BY DEF AbandonEphemeral
<1>3. /\ stale /\ stale' /\ JobInv' /\ TempInv' /\ ~Published' /\ (Resting' => ~stale')
      /\ \A r \in Rules : ~Temporary(r) /\ ~Temporary(r)'
  <2>1. stale  BY <1>2, AutomationParts DEF JobInv
  <2> QED BY <1>2, <2>1, StartingUp
<1>1. Used(k) /\ changes[k].lifecycle = "ephemeral"  BY <1>2 DEF Abandoned
<1>4. PICK g : g = FinishedAs(changes, {k}, "aborted", "expired")  OBVIOUS
<1>5. /\ g \in ChangeTable /\ Rewritten(changes, g) /\ (\A j \in Keys \ {k} : g[j] = changes[j])
      /\ g[k].status = "aborted" /\ g[k].experiment # "running" /\ g[k].resaved = changes[k].resaved
  <2>2. PICK ks \in SUBSET Keys, s \in ChangeStatus, x \in Experiments \ {"none", "running"} : ks = {k} /\ s = "aborted" /\ x = "expired"
    BY DEF ChangeStatus, Experiments
  <2>4. (\A j \in ks : changes[j] # Unused) /\ changes \in ChangeTable  BY <1>1, <2>2, AutomationParts DEF Used
  <2>3. /\ FinishedAs(changes, ks, s, x) \in ChangeTable /\ Rewritten(changes, FinishedAs(changes, ks, s, x))
        /\ \A j \in Keys \ ks : FinishedAs(changes, ks, s, x)[j] = changes[j]
        /\ \A j \in ks : /\ FinishedAs(changes, ks, s, x)[j].status = s /\ FinishedAs(changes, ks, s, x)[j].experiment # "running"
                       /\ FinishedAs(changes, ks, s, x)[j].resaved = changes[j].resaved
    BY <2>4, Finished
  <2> QED BY <1>4, <2>2, <2>3
<1>6. changes' = g  BY <1>2, <1>4 DEF FinishedAs
<1>7. /\ meta' \in [Rules -> MetaType]
      /\ \A r \in Rules : meta'[r] = meta[r] \/ (meta'[r] = NoMeta /\ meta[r].change = {k})
  BY <1>2, AutomationParts DEF MetaWithout, NoMeta, MetaType
<1>8. AutomationTyped'  BY <1>2, <1>5, <1>6, <1>7, AutomationParts DEF AutomationTyped
<1>9. /\ \A j \in Keys : Used(j)' <=> Used(j)
      /\ \A j \in Keys : Used(j) => changes'[j].items = changes[j].items /\ changes'[j].lifecycle = changes[j].lifecycle
      /\ \A r \in Rules, m \in MetaType : MetaSound(r, m) => MetaSound(r, m)'
      /\ \A j \in Keys : Used(j)' => \A r \in Touched(j)' : ItemSound(j, r)'
      /\ \A r \in Rules : TakenStale(r) => TakenStale(r)'
  BY <1>5, <1>6, <1>8, AutomationParts, DeedsStay
<1>10. MetaInv'
  <2>1. ASSUME NEW r \in Rules PROVE MetaSound(r, meta[r])'
    <3>1. CASE meta'[r] = NoMeta  BY <3>1 DEF MetaSound, NoMeta
    <3>2. CASE meta'[r] = meta[r]
      <4>1. PICK m \in MetaType : m = meta'[r] /\ m = meta[r]  BY <3>2, AutomationParts
      <4>2. MetaSound(r, m)'  BY <1>9, <4>1, AutomationParts DEF MetaInv
      <4> QED BY <4>1, <4>2 DEF MetaSound
    <3> QED BY <1>7, <3>1, <3>2
  <2> QED BY <1>9, <2>1 DEF MetaInv
<1>11. WrittenInv'
  <2>1. ASSUME NEW r \in Rules, meta'[r].owner = "agent", NEW j \in meta'[r].change PROVE Written(r, j)'
    <3>1. meta'[r] = meta[r] /\ Written(r, j)  BY <1>7, <2>1, AutomationParts DEF WrittenInv, NoMeta
    <3>2. j \in Keys /\ Used(j)  BY <2>1, <3>1, AutomationParts DEF MetaInv, MetaSound, MetaType
    <3>3. changes'[j].items = changes[j].items /\ changes'[j].lifecycle = changes[j].lifecycle /\ (TakenStale(r) => TakenStale(r)')
      BY <1>9, <3>2
    <3> QED BY <1>2, <3>1, <3>3 DEF Written
  <2> QED BY <2>1 DEF WrittenInv
<1>12. StandsInv'
  <2>1. ASSUME NEW j \in Keys, Used(j)', NEW r \in Created(j)' PROVE Has(j, r)' \/ Gone(j, r)'
    <3>1. Used(j) /\ r \in Touched(j) /\ r \in Created(j) /\ changes'[j].lifecycle = changes[j].lifecycle
      <4>1. changes'[j].resaved = changes[j].resaved  BY <1>5, <1>6
      <4> QED BY <1>9, <2>1, <4>1 DEF Created, Touched
    <3>2. r \in Rules /\ (Has(j, r) \/ Gone(j, r))  BY <3>1, AutomationParts, TouchedRules DEF StandsInv
    <3>3. \A i \in Keys : Used(i) /\ r \in Touched(i) => Used(i)' /\ r \in Touched(i)'  BY <1>9 DEF Touched
    <3>4. Stands(j)' => j # k /\ Stands(j)  BY <1>5, <1>6 DEF Stands
    <3>5. j # k /\ meta[r].change = {j} => meta'[r] = meta[r]  BY <1>7, <3>2
    <3>6. j = k => Gone(j, r)'  BY <1>1, <3>1, <3>4 DEF Gone
    <3> QED BY <1>2, <3>1, <3>2, <3>3, <3>4, <3>5, <3>6 DEF Has, Gone
  <2> QED BY <2>1 DEF StandsInv
<1>13. HoldInv'
  <2>1. ASSUME NEW j \in Keys, Stands(j)' PROVE Stands(j) /\ \A r \in Touched(j) : r \in Rules /\ meta[r].change = {j} => meta'[r] = meta[r]
    <3>1. j # k  BY <1>5, <1>6, <2>1 DEF Stands
    <3> QED BY <1>5, <1>6, <1>7, <2>1, <3>1 DEF Stands
  <2>2. \A j \in Keys : Used(j) => \A r \in Touched(j) : r \in Rules  BY AutomationParts, TouchedRules
  <2> QED BY <1>5, <1>6, <1>8, <2>1, <2>2, AutomationParts, HoldStays
<1>14. OwnInv' /\ MatchInv'  BY <1>3 DEF OwnInv, MatchInv
<1>15. ExperimentFollowsChange'  BY <1>5, <1>6, <1>9, AutomationParts DEF ExperimentFollowsChange
<1> QED BY <1>3, <1>8, <1>10, <1>11, <1>12, <1>13, <1>14, <1>15 DEF AutomationInv

\* The managers are published while the engine starts, or are left as they are.
LEMMA StartPublishes ==
  ASSUME AutomationInv, up # "up", up' \in {"recovered", "failed", "up"},
         UNCHANGED <<rules, meta, changes, temp, job, purge, ticket, raced>>, stale' \in BOOLEAN,
         \/ live' = WithTemporary(FromDatabase(changes, rules, meta, {}))
         \/ live' = live /\ (stale' \/ (stale' = stale /\ shed' = shed))
  PROVE  AutomationInv'
<1>1. /\ JobInv' /\ TempInv' /\ ~Published' /\ temp = {} /\ purge = {} /\ job.kind = "idle"
      /\ (\A r \in Rules : ~Temporary(r) /\ ~Temporary(r)') /\ (Resting' => ~stale') /\ (~stale => Resting)
  BY StartingUp
<1>2. CASE live' = WithTemporary(FromDatabase(changes, rules, meta, {}))
  <2>1. PICK e : e = WithTemporary(FromDatabase(changes, rules, meta, {}))  OBVIOUS
  <2>0. PICK p \in SUBSET Keys : p = {}  OBVIOUS
  <2>6. e = WithTemporary(FromDatabase(changes, rules, meta, p)) /\ \A r \in temp : live[r].v # 0  BY <1>1, <2>0, <2>1
  <2>2. /\ e \in Entries
        /\ \A r \in Rules : /\ \A k \in Overlay(r, p) : e[r].v = changes[k].items[r].after
                            /\ Overlay(r, p) = {} /\ rules[r] # 0 => e[r].v = rules[r]
                            /\ Overlay(r, p) = {} /\ rules[r] = 0 => (e[r].v # 0 <=> r \in temp)
                            /\ (Overlay(r, p) # {} \/ rules[r] # 0) /\ meta[r].owner = "agent" => e[r].lock
    BY <2>6, AutomationParts, PublicationMatches
  <2>3. AutomationTyped'  BY <1>2, <2>1, <2>2, AutomationParts DEF AutomationTyped
  <2>4. ASSUME NEW r \in Rules PROVE Match(r, {})'
    <3>1. Overlay(r, {})' = Overlay(r, p)  BY <2>0 DEF Overlay
    <3> QED BY <1>1, <1>2, <2>1, <2>2, <3>1 DEF Match
  <2>5. MatchInv'  BY <1>1, <2>4 DEF MatchInv
  <2> QED BY <1>1, <2>3, <2>5, DatabaseSame DEF AutomationInv
<1>3. CASE live' = live /\ (stale' \/ (stale' = stale /\ shed' = shed))
  <2>1. AutomationTyped'  BY <1>3, AutomationParts DEF AutomationTyped
  <2>2. ASSUME Resting', NEW r \in Rules \ shed' PROVE Match(r, {})'
    <3>1. ~stale /\ shed' = shed  BY <1>1, <1>3, <2>2
    <3>2. Match(r, {})  BY <1>1, <2>2, <3>1, AutomationParts DEF MatchInv
    <3> QED BY <1>1, <1>3, <2>1, <2>2, <3>2, DatabaseSame
  <2>3. MatchInv'  BY <1>1, <2>2 DEF MatchInv
  <2> QED BY <1>1, <2>1, <2>3, DatabaseSame DEF AutomationInv
<1> QED BY <1>2, <1>3

\* Recovery, and the publication after one that failed.
LEMMA StartSteps ==
  ASSUME AutomationInv, RecoverPublish \/ RecoverDone \/ Republish
  PROVE  AutomationInv'
<1>1. /\ up # "up" /\ up' \in {"recovered", "failed", "up"}
      /\ UNCHANGED <<rules, meta, changes, temp, job, purge, ticket, raced, shed>>
  BY DEF RecoverPublish, RecoverDone, Republish
<1>2. stale \in BOOLEAN  BY AutomationParts DEF AutomationTyped
<1>3. \/ live' = WithTemporary(FromDatabase(changes, rules, meta, {})) /\ stale' = FALSE
      \/ live' = live /\ stale' = stale
      \/ live' = live /\ stale' = TRUE
  BY DEF RecoverPublish, RecoverDone, Republish
<1> QED BY <1>1, <1>2, <1>3, StartPublishes

\* A torn record: the status is set and the experiment is not.
TornAs(f, k) == [f EXCEPT ![k].torn = TRUE]
LEMMA TornChange ==
  ASSUME NEW f \in ChangeTable, NEW k \in Keys, f[k] # Unused, NEW g, g = TornAs(f, k)
  PROVE  /\ g \in ChangeTable /\ Rewritten(f, g) /\ (\A j \in Keys \ {k} : g[j] = f[j])
         /\ g[k].status = f[k].status /\ g[k].resaved = f[k].resaved /\ g[k].torn
<1>1. f[k] \in ChangeType  BY MadeChanges
<1>2. PICK c : c = [f[k] EXCEPT !.torn = TRUE]  OBVIOUS
<1>3. c \in ChangeType /\ c.status = f[k].status /\ c.resaved = f[k].resaved /\ c.torn /\ c.items = f[k].items /\ c.lifecycle = f[k].lifecycle
  BY <1>1, <1>2 DEF ChangeType
<1>4. g = [f EXCEPT ![k] = c]  BY <1>2 DEF TornAs
<1>5. g \in ChangeTable /\ g[k] = c /\ \A j \in Keys \ {k} : g[j] = f[j]  BY <1>3, <1>4 DEF ChangeTable
<1>6. g[k] # Unused  BY <1>3, <1>5, MadeChanges
<1> QED BY <1>3, <1>5, <1>6 DEF Rewritten

\* What the record of a recovery makes of the change k.
RecoveredAs(f, k) ==
  /\ f \in ChangeTable /\ Rewritten(changes, f) /\ (\A j \in Keys \ {k} : f[j] = changes[j])
  /\ \/ f[k] = changes[k]
     \/ /\ Persisted(k) = "after" /\ f[k].status = "active" /\ f[k].resaved = changes[k].resaved
        /\ f[k].experiment = changes[k].experiment /\ f[k].torn = changes[k].torn
     \/ f[k].status = "reverted" /\ f[k].resaved = changes[k].resaved /\ (f[k].experiment # "running" \/ f[k].torn)

\* Recovery finishes a change the way the tables say, its record may be torn.
LEMMA RecoveredChange ==
  ASSUME AutomationInv, NEW k \in Keys, RecoverRecord(k)
  PROVE  RecoveredAs(changes', k)
<1>1. Used(k) /\ changes[k] # Unused /\ changes \in ChangeTable  BY AutomationParts DEF RecoverRecord, Unfinished, Used
<1>2. PICK ks \in SUBSET Keys, a \in ChangeStatus, b \in ChangeStatus, x \in Experiments \ {"none", "running"} :
        ks = {k} /\ a = "active" /\ b = "reverted" /\ x = "completed"
  BY DEF ChangeStatus, Experiments
<1>3. \A j \in ks : changes[j] # Unused  BY <1>1, <1>2
<1>4. CASE changes' = changes  BY <1>1, <1>4 DEF RecoveredAs, Rewritten
<1>5. CASE Persisted(k) = "after" /\ changes' = SetStatus(changes, ks, a)
  <2>1. /\ SetStatus(changes, ks, a) \in ChangeTable /\ Rewritten(changes, SetStatus(changes, ks, a))
        /\ \A j \in Keys \ ks : SetStatus(changes, ks, a)[j] = changes[j]
        /\ \A j \in ks : SetStatus(changes, ks, a)[j] \in ChangeType /\ SetStatus(changes, ks, a)[j].status = a
                         /\ SetStatus(changes, ks, a)[j].experiment = changes[j].experiment /\ SetStatus(changes, ks, a)[j].torn = changes[j].torn
                         /\ SetStatus(changes, ks, a)[j].resaved = changes[j].resaved
    BY <1>1, <1>3, StatusIsSet
  <2> QED BY <1>2, <1>5, <2>1 DEF RecoveredAs
<1>6. CASE changes' = FinishedAs(changes, ks, b, x)
  <2>1. /\ FinishedAs(changes, ks, b, x) \in ChangeTable /\ Rewritten(changes, FinishedAs(changes, ks, b, x))
        /\ \A j \in Keys \ ks : FinishedAs(changes, ks, b, x)[j] = changes[j]
        /\ \A j \in ks : /\ FinishedAs(changes, ks, b, x)[j].status = b /\ FinishedAs(changes, ks, b, x)[j].experiment # "running"
                         /\ FinishedAs(changes, ks, b, x)[j].resaved = changes[j].resaved
    BY <1>1, <1>3, Finished
  <2> QED BY <1>2, <1>6, <2>1 DEF RecoveredAs
<1>7. CASE changes' = [SetStatus(changes, ks, b) EXCEPT ![k].torn = TRUE]
  <2>1. /\ SetStatus(changes, ks, b) \in ChangeTable /\ Rewritten(changes, SetStatus(changes, ks, b))
        /\ \A j \in Keys \ ks : SetStatus(changes, ks, b)[j] = changes[j]
        /\ \A j \in ks : SetStatus(changes, ks, b)[j] \in ChangeType /\ SetStatus(changes, ks, b)[j].status = b
                         /\ SetStatus(changes, ks, b)[j].resaved = changes[j].resaved
    BY <1>1, <1>3, StatusIsSet
  <2>2. PICK h : h = SetStatus(changes, ks, b)  OBVIOUS
  <2>3. /\ h \in ChangeTable /\ Rewritten(changes, h) /\ (\A j \in Keys \ {k} : h[j] = changes[j])
        /\ h[k].status = "reverted" /\ h[k].resaved = changes[k].resaved /\ h[k] # Unused
    BY <1>1, <1>2, <2>1, <2>2 DEF Rewritten
  <2>4. changes' = TornAs(h, k)  BY <1>7, <2>2 DEF TornAs
  <2>5. PICK g : g = TornAs(h, k)  OBVIOUS
  <2>6. /\ g \in ChangeTable /\ Rewritten(h, g) /\ (\A j \in Keys \ {k} : g[j] = h[j])
        /\ g[k].status = h[k].status /\ g[k].resaved = h[k].resaved /\ g[k].torn
    BY <2>3, <2>5, TornChange
  <2>7. Rewritten(changes, g)  BY <2>3, <2>6 DEF Rewritten
  <2> QED BY <2>3, <2>4, <2>5, <2>6, <2>7 DEF RecoveredAs
<1>8. CASE Persisted(k) = "after"  BY <1>2, <1>4, <1>5, <1>8 DEF RecoverRecord
<1>9. CASE Persisted(k) # "after"  BY <1>2, <1>4, <1>6, <1>7, <1>9 DEF RecoverRecord, FinishedAs
<1> QED BY <1>8, <1>9

\* A change that recovery finishes stays matched: only ephemeral changes overlay the tables.
LEMMA RecoverRecordStep ==
  ASSUME AutomationInv, NEW k \in Keys, RecoverRecord(k)
  PROVE  AutomationInv'
<1>1. /\ up = "recovered" /\ up' \in {"recovered", "failed"} /\ Used(k) /\ changes[k].lifecycle = "persistent"
      /\ UNCHANGED <<rules, meta, live, temp, job, purge, ticket, stale, raced, shed>>
  BY DEF RecoverRecord, Unfinished
<1>2. /\ JobInv' /\ TempInv' /\ ~Published' /\ job.kind = "idle" /\ (Resting' => ~stale') /\ (~stale => Resting)
      /\ \A r \in Rules : ~Temporary(r) /\ ~Temporary(r)'
  BY <1>1, StartingUp
<1>3. RecoveredAs(changes', k)  BY RecoveredChange
<1>4. changes' \in ChangeTable /\ Rewritten(changes, changes') /\ \A j \in Keys \ {k} : changes'[j] = changes[j]
  BY <1>3 DEF RecoveredAs
<1>5. \/ changes'[k] = changes[k]
      \/ /\ Persisted(k) = "after" /\ changes'[k].status = "active" /\ changes'[k].resaved = changes[k].resaved
         /\ changes'[k].experiment = changes[k].experiment /\ changes'[k].torn = changes[k].torn
      \/ /\ changes'[k].status = "reverted" /\ changes'[k].resaved = changes[k].resaved
         /\ changes'[k].experiment # "running" \/ changes'[k].torn
  BY <1>3 DEF RecoveredAs
<1>6. AutomationTyped'  BY <1>1, <1>4, AutomationParts DEF AutomationTyped
<1>7. /\ \A j \in Keys : Used(j)' <=> Used(j)
      /\ \A j \in Keys : Used(j) => changes'[j].items = changes[j].items /\ changes'[j].lifecycle = changes[j].lifecycle
  BY <1>4, <1>6, AutomationParts, DeedsStay
<1>8. MetaInv' /\ WrittenInv'  BY <1>1, <1>4, <1>6, AutomationParts, OwnersStay
<1>9. StandsInv'
  <2>1. ASSUME NEW j \in Keys, Used(j)', NEW r \in Created(j)' PROVE Has(j, r)' \/ Gone(j, r)'
    <3>1. Used(j) /\ r \in Touched(j) /\ r \in Created(j) /\ changes'[j].lifecycle = changes[j].lifecycle
      <4>1. changes'[j].resaved = changes[j].resaved  BY <1>4, <1>5
      <4> QED BY <1>7, <2>1, <4>1 DEF Created, Touched
    <3>2. r \in Rules /\ (Has(j, r) \/ Gone(j, r))  BY <3>1, AutomationParts, TouchedRules DEF StandsInv
    <3>3. \A i \in Keys : Used(i) /\ r \in Touched(i) => Used(i)' /\ r \in Touched(i)'  BY <1>7 DEF Touched
    <3>4. CASE Has(j, r)  BY <1>1, <3>3, <3>4 DEF Has
    <3>5. CASE Gone(j, r) /\ Stands(j)'
      <4>1. j = k /\ Persisted(k) = "after"  BY <1>4, <1>5, <3>5 DEF Gone, Stands
      <4>2. rules[r] = changes[k].items[r].after  BY <3>1, <4>1 DEF Persisted
      <4>3. changes[k].items[r].after # 0  BY <3>1, <4>1, AutomationParts DEF MetaInv, ItemSound, Created
      <4> QED BY <1>1, <3>5, <4>1, <4>2, <4>3 DEF Gone
    <3>6. CASE Gone(j, r) /\ ~Stands(j)'  BY <1>1, <3>1, <3>6 DEF Gone
    <3> QED BY <3>2, <3>4, <3>5, <3>6
  <2> QED BY <2>1 DEF StandsInv
<1>10. HoldInv' /\ OwnInv'
  <2>1. \A j \in Keys : Used(j) /\ changes[j].lifecycle = "ephemeral" /\ Stands(j)' => Stands(j)  BY <1>1, <1>4 DEF Stands
  <2>2. HoldInv'  BY <1>1, <1>4, <1>6, <2>1, AutomationParts, HoldStays
  <2> QED BY <1>2, <2>2 DEF OwnInv
<1>11. MatchInv'
  <2>1. ASSUME Resting', NEW r \in Rules \ shed' PROVE Match(r, {})'
    <3>1. r \in Rules \ shed /\ Match(r, {})  BY <1>1, <1>2, <2>1, AutomationParts DEF MatchInv
    <3>2. \A j \in meta[r].change : j \in Keys /\ Used(j)  BY <3>1, AutomationParts DEF MetaInv, MetaSound, MetaType
    <3>3. \A j \in meta[r].change : /\ changes'[j].items = changes[j].items /\ changes'[j].lifecycle = changes[j].lifecycle
                                    /\ changes[j].lifecycle = "ephemeral" => changes'[j].status = changes[j].status
      BY <1>1, <1>4, <1>7, <3>2
    <3>4. Overlay(r, {})' = Overlay(r, {}) /\ \A j \in Overlay(r, {}) : j \in meta[r].change  BY <1>1, <3>3 DEF Overlay
    <3> QED BY <1>1, <1>2, <3>1, <3>3, <3>4 DEF Match
  <2> QED BY <1>1, <1>2, <2>1 DEF MatchInv
<1>12. ExperimentFollowsChange'  BY <1>4, <1>5, <1>7, AutomationParts DEF ExperimentFollowsChange
<1> QED BY <1>2, <1>6, <1>8, <1>9, <1>10, <1>11, <1>12 DEF AutomationInv

\* The engine starts with the user's rules and no change.
LEMMA AutomationStarts ==
  ASSUME AutomationInit
  PROVE  AutomationInv
<1>1. /\ rules = [r \in Rules |-> IF r \in UserRules THEN 1 ELSE 0] /\ meta = [r \in Rules |-> NoMeta] /\ changes = [k \in Keys |-> Unused]
      /\ live = [r \in Rules |-> [v |-> rules[r], lock |-> FALSE]]
      /\ temp = {} /\ job = Idle /\ purge = {} /\ ticket = {} /\ up = "up" /\ stale = FALSE /\ raced = FALSE
  BY DEF AutomationInit
<1>2. /\ rules \in [Rules -> Nat] /\ meta \in [Rules -> MetaType] /\ changes \in ChangeTable
      /\ \A r \in Rules : meta[r].owner = "none" /\ meta[r].change = {}
  BY <1>1 DEF NoMeta, MetaType, ChangeTable
<1>3. live \in Entries /\ \A r \in Rules : live[r].v = rules[r]
  <2>1. \A r \in Rules : [v |-> rules[r], lock |-> FALSE] \in EntryType /\ [v |-> rules[r], lock |-> FALSE].v = rules[r]
    BY <1>2 DEF EntryType
  <2> QED BY <1>1, <2>1 DEF Entries
<1>4. job.kind = "idle"  BY <1>1 DEF Idle
<1>5. AutomationTyped  BY <1>1, <1>2, <1>3 DEF AutomationTyped
<1>6. (\A k \in Keys : ~Used(k)) /\ \A r \in Rules : ~Temporary(r)  BY <1>1 DEF Used, Temporary
<1>7. MetaInv /\ WrittenInv /\ StandsInv /\ HoldInv /\ OwnInv /\ ExperimentFollowsChange
  BY <1>2, <1>6 DEF MetaInv, MetaSound, WrittenInv, StandsInv, HoldInv, Short, OwnInv, ExperimentFollowsChange
<1>8. JobInv  BY <1>1, <1>4 DEF JobInv, Forward, Backward
<1>9. MatchInv
  <2>1. \A r \in Rules : Match(r, {})  BY <1>2, <1>3, <1>6 DEF Match, Overlay
  <2> QED BY <1>4, <2>1 DEF MatchInv, Published, Forward, Backward
<1>10. TempInv  BY <1>1, <1>4 DEF TempInv
<1> QED BY <1>5, <1>7, <1>8, <1>9, <1>10 DEF AutomationInv

\* Every step of the engine keeps the invariant.
LEMMA AutomationSteps ==
  ASSUME AutomationInv, AutomationNext
  PROVE  AutomationInv'
<1>1. ASSUME NEW k \in Keys, NEW user \in BOOLEAN, RollbackCommit(k, user) PROVE AutomationInv'
  <2>1. up = "up" /\ job = Idle /\ Used(k) /\ RollbackChange(k, "manual", user)  BY <1>1 DEF RollbackCommit, Free
  <2> QED BY <2>1, RollbackStep
<1>2. ASSUME NEW k \in Keys, CleanupExpired(k) PROVE AutomationInv'
  <2>1. up = "up" /\ job = Idle /\ Used(k) /\ RollbackChange(k, "expired", FALSE)  BY <1>2 DEF CleanupExpired, Free
  <2> QED BY <2>1, RollbackStep
<1>3. CASE \E lifecycle \in {"persistent", "ephemeral"}, plan \in Plans, content \in Contents, user \in BOOLEAN :
             Validate(lifecycle, plan, content, user)
  BY <1>3, PlanSteps
<1>4. CASE \E k \in Keys :
             \/ \E user \in BOOLEAN : ApplyCommit(k, user) \/ RollbackCommit(k, user)
             \/ CleanupExpired(k) \/ ApplyRetry(k) \/ Promote(k) \/ Lapse(k) \/ VerifyStart(k) \/ VerifyRecord(k)
  <2>1. PICK k \in Keys :
             \/ \E user \in BOOLEAN : ApplyCommit(k, user) \/ RollbackCommit(k, user)
             \/ CleanupExpired(k) \/ ApplyRetry(k) \/ Promote(k) \/ Lapse(k) \/ VerifyStart(k) \/ VerifyRecord(k)
    BY <1>4
  <2>2. CASE VerifyStart(k)  BY <2>2, PlanSteps
  <2>3. CASE \E user \in BOOLEAN : ApplyCommit(k, user) \/ RollbackCommit(k, user)  BY <1>1, <2>3, ApplyStep
  <2> QED BY <1>2, <2>1, <2>2, <2>3, RetryStep, PromoteStep, LapseStep, VerifyRecordStep
<1>5. CASE ApplyRefused  BY <1>5, PlanSteps
<1>6. CASE \E l \in {{"persistent"}, {"ephemeral"}, {"persistent", "ephemeral"}} : ClearCommit(l)  BY <1>6, ClearStep
<1>7. CASE (\E r \in Rules, v \in Contents : UserSave(r, v)) \/ (\E r \in Rules : UserDelete(r))  BY <1>7, SaveSteps
<1>8. CASE \E r \in Rules : TempCreate(r) \/ TempRemove(r)  BY <1>8, CreateStep, RemoveStep
<1>9. CASE Publish \/ Record \/ UserSaveLive \/ UserForget \/ TempRemoveLive
  BY <1>9, PublishStep, RecordStep, SaveLiveStep, ForgetStep, RemoveLiveStep
<1>10. CASE AppCrash \/ Boot \/ RecoverPublish \/ RecoverDone \/ Republish \/ (\E k \in Keys : AbandonEphemeral(k) \/ RecoverRecord(k))
  BY <1>10, CrashStep, BootStep, StartSteps, AbandonStep, RecoverRecordStep
<1> QED BY <1>3, <1>4, <1>5, <1>6, <1>7, <1>8, <1>9, <1>10 DEF AutomationNext

\* What the engine keeps about rules, their owners, its changes, its job and the managers, for any
\* set of rules and keys, any contents of rules and any number of faults, crashes and saves;
\* plans may name any rule, the temporary ones included.
THEOREM AutomationInvariant == AutomationSpec => []AutomationInv
<1>1. AutomationInv /\ UNCHANGED automationVars => AutomationInv'
  <2>1. ASSUME AutomationInv, UNCHANGED automationVars PROVE AutomationInv'
    <3>1. UNCHANGED <<rules, meta, changes, live, temp, job, purge, ticket, up, stale, raced, shed>>  BY <2>1 DEF automationVars
    <3>2. ticket' \subseteq TicketType  BY <2>1, <3>1, AutomationParts DEF AutomationTyped
    <3> QED BY <2>1, <3>1, <3>2, SameRecords
  <2> QED BY <2>1
<1> QED BY <1>1, AutomationStarts, AutomationSteps, PTL DEF AutomationSpec

\* Rules, changes and experiments agree (automation.rs), for any number of rules, changes,
\* disturbances and crashes; but for the rules the registry took from the managers although
\* a plan had given them a row.
THEOREM AutomationAlwaysAgrees == AutomationSpec => []AutomationAgrees
<1>1. ASSUME AutomationInv PROVE AutomationAgrees
  <2>1. ASSUME up = "up", job = Idle, purge = {}, ~stale, ~raced, NEW r \in Rules \ shed
        PROVE  /\ IF InDatabase(r) # 0 THEN live[r].v = InDatabase(r) ELSE live[r].v # 0 <=> r \in temp
               /\ InDatabase(r) # 0 /\ meta[r].owner = "agent" => live[r].lock
    <3>1. r \in Rules /\ Match(r, {})  BY <1>1, <2>1, AutomationParts DEF MatchInv, Resting, Idle
    <3>2. Overlay(r, {}) = ActiveOwner(r)  BY DEF Overlay, ActiveOwner
    <3>5. Temporary(r) <=> r \in temp  BY <2>1 DEF Temporary
    <3>3. CASE ActiveOwner(r) = {}
      <4>1. InDatabase(r) = rules[r]  BY <3>3 DEF InDatabase
      <4> QED BY <3>1, <3>2, <3>3, <3>5, <4>1 DEF Match
    <3>4. CASE ActiveOwner(r) # {}
      <4>1. \A k \in ActiveOwner(r) : changes[k].items[r].after = live[r].v  BY <3>1, <3>2 DEF Match
      <4>2. {changes[k].items[r].after : k \in ActiveOwner(r)} = {live[r].v}  BY <3>4, <4>1
      <4>3. (CHOOSE v \in {live[r].v} : TRUE) = live[r].v  OBVIOUS
      <4>4. InDatabase(r) = live[r].v  BY <3>4, <4>2, <4>3 DEF InDatabase
      <4>5. InDatabase(r) # 0
        <5>1. PICK k \in ActiveOwner(r) : TRUE  BY <3>4
        <5>2. k \in Keys /\ Used(k) /\ r \in Touched(k) /\ changes[k].lifecycle = "ephemeral"
          BY <1>1, <3>1, <5>1, AutomationParts DEF MetaInv, MetaSound, MetaType, ActiveOwner
        <5>3. changes[k].items[r].after # 0  BY <1>1, <5>2, AutomationParts DEF MetaInv, ItemSound
        <5> QED BY <4>1, <4>4, <5>1, <5>3
      <4> QED BY <3>1, <3>2, <3>4, <4>4, <4>5 DEF Match
    <3> QED BY <3>3, <3>4
  <2>3. RuntimeMatchesDatabase  BY <2>1 DEF RuntimeMatchesDatabase
  <2>4. ASSUME NEW r \in Rules, meta[r].owner = "agent", NEW k \in meta[r].change
        PROVE  /\ Used(k) /\ r \in Touched(k)
               /\ rules[r] = (IF changes[k].lifecycle = "ephemeral" THEN 0 ELSE changes[k].items[r].after) \/ TakenStale(r)
    BY <1>1, <2>4, AutomationParts DEF MetaInv, MetaSound, WrittenInv, Written
  <2>5. ASSUME NEW k \in Keys, Used(k), changes[k].status = "active", NEW r \in Touched(k) \ changes[k].resaved,
               changes[k].items[r].op = "create"
        PROVE  meta[r].change = {k} \/ \E j \in Keys \ {k} : Used(j) /\ r \in Touched(j)
    BY <1>1, <2>5, AutomationParts DEF StandsInv, Created, Gone, Stands, Has
  <2>6. OwnedRuleIsTheChanges  BY <2>4, <2>5 DEF OwnedRuleIsTheChanges
  <2> QED BY <1>1, <2>3, <2>6, AutomationParts DEF AutomationAgrees
<1> QED BY <1>1, AutomationInvariant, PTL

-----------------------------------------------------------------------------
(* Automation: what plans, rollbacks, expiries and clears may do to the    *)
(* user's rules.                                                           *)

\* What a step does to one rule.
KeptIn(r) ==
  job' # job /\ job'.kind \in {"apply", "manual", "expired", "clear"} /\ ~job'.user /\ rules[r] # 0 /\
  (rules'[r] # rules[r] \/ meta'[r].owner # meta[r].owner) =>
    /\ ~Native(r)
    /\ meta[r].owner # "agent" =>
         job'.kind = "manual" /\ \E k \in job'.of : r \in Touched(k) /\ changes[k].items[r].after = live[r].v

\* What an agent owns some change created.
LEMMA AgentsAreCreated ==
  ASSUME AutomationInv, NEW r \in Rules, meta[r].owner = "agent"
  PROVE  ~Native(r)
BY AutomationParts DEF MetaInv, MetaSound

\* A plan is prepared again right before its commit: what it creates is new, and what it
\* updates or deletes is the agent's unless manageUserAutomation is given.
LEMMA ApplyKeeps ==
  ASSUME AutomationInv, NEW k \in Keys, NEW user \in BOOLEAN, ApplyCommit(k, user), NEW r \in Rules
  PROVE  KeptIn(r)
<1>1. PICK t \in ticket :
        /\ Preparable(t.lifecycle, t.plan, user)
        /\ rules' = TablesAfter(Prepared(t.plan, t.content), t.lifecycle) /\ meta' = MetaAfter(Prepared(t.plan, t.content), k)
  BY DEF ApplyCommit
<1>2. job'.user = user  BY DEF ApplyCommit
<1>3. PICK plan : plan = t.plan  OBVIOUS
<1>4. PICK items : items = Prepared(plan, t.content)  OBVIOUS
<1>5. DOMAIN items = DOMAIN plan  BY <1>4 DEF Prepared
<1>6. ASSUME r \in DOMAIN plan, rules[r] # 0 PROVE meta[r].owner = "agent" \/ user
  <2>1. (CASE plan[r] = "create" -> Fresh(r) [] plan[r] = "update" -> MayUpdate(r, user) [] OTHER -> MayDelete(r, user))
    BY <1>1, <1>3, <1>6 DEF Preparable
  <2> QED BY <1>6, <2>1 DEF Fresh, MayUpdate, MayDelete
<1>7. rules'[r] # rules[r] => r \in DOMAIN plan  BY <1>1, <1>3, <1>4, <1>5 DEF TablesAfter
<1>8. meta'[r] # meta[r] => r \in DOMAIN plan  BY <1>1, <1>3, <1>4, <1>5 DEF MetaAfter
<1> QED BY <1>2, <1>6, <1>7, <1>8, AgentsAreCreated DEF KeptIn

\* A rollback without manageUserAutomation is of a change whose items created their rules or
\* took over an agent's, and the rules run as it left them.
LEMMA RollbackKeeps ==
  ASSUME AutomationInv, NEW k \in Keys, NEW user \in BOOLEAN, RollbackCommit(k, user), NEW r \in Rules
  PROVE  KeptIn(r)
<1>1. /\ Used(k) /\ (NeedsUser(k) => user) /\ Unchanged(k) /\ rules' = RestoredRules(k) /\ meta' = RestoredMeta(k)
      /\ job'.kind = "manual" /\ job'.of = {k} /\ job'.user = user
  BY DEF RollbackCommit, RollbackChange
<1>2. rules'[r] # rules[r] \/ meta'[r] # meta[r] => r \in Touched(k)  BY <1>1 DEF RestoredRules, RestoredMeta
<1>3. ASSUME r \in Touched(k), ~user PROVE ~Native(r) /\ changes[k].items[r].after = live[r].v
  <2>1. changes[k].items[r].op = "create" \/ changes[k].items[r].metaBefore.owner = "agent"  BY <1>1, <1>3 DEF NeedsUser
  <2>2. CASE changes[k].items[r].op = "create"  BY <1>1, <1>3, <2>2 DEF Native, Unchanged
  <2>3. CASE changes[k].items[r].metaBefore.owner = "agent"
    <3>1. MetaSound(r, changes[k].items[r].metaBefore)  BY <1>1, <1>3, AutomationParts DEF MetaInv, ItemSound
    <3> QED BY <1>1, <1>3, <2>3, <3>1 DEF MetaSound, Unchanged
  <2> QED BY <2>1, <2>2, <2>3
<1> QED BY <1>1, <1>2, <1>3 DEF KeptIn

\* An ephemeral change whose time is over never wrote a table, and still holds its rules.
LEMMA ExpiryKeeps ==
  ASSUME AutomationInv, NEW k \in Keys, CleanupExpired(k), NEW r \in Rules
  PROVE  KeptIn(r)
<1>1. /\ Used(k) /\ Overdue(k) /\ rules' = RestoredRules(k) /\ meta' = RestoredMeta(k)  BY DEF CleanupExpired, RollbackChange
<1>2. Short(k)  BY <1>1 DEF Short, Overdue, Stands
<1>3. rules'[r] = rules[r] /\ (meta'[r] # meta[r] => r \in Touched(k))  BY <1>1 DEF RestoredRules, RestoredMeta, Overdue
<1>4. r \in Touched(k) => meta[r].owner = "agent"  BY <1>2, AutomationParts DEF HoldInv, Holds
<1> QED BY <1>3, <1>4, AgentsAreCreated DEF KeptIn

\* A clear touches what the agent owns only.
LEMMA ClearTakesAgents ==
  ASSUME AutomationInv, NEW l, ClearCommit(l), NEW r \in Rules
  PROVE  KeptIn(r)
<1>1. /\ rules' = [s \in Rules |-> IF s \in Cleared(l) THEN 0 ELSE rules[s]]
      /\ meta' = [s \in Rules |-> IF s \in Cleared(l) THEN NoMeta ELSE meta[s]]
  BY DEF ClearCommit
<1>2. r \in Cleared(l) => meta[r].owner = "agent"  BY DEF Cleared
<1>3. r \notin Cleared(l) => rules'[r] = rules[r] /\ meta'[r] = meta[r]  BY <1>1
<1> QED BY <1>2, <1>3, AgentsAreCreated DEF KeptIn

\* The other steps leave the tables alone or are the user's.
LEMMA OthersKeep ==
  ASSUME AutomationInv, AutomationNext, NEW r \in Rules,
         ~\E k \in Keys, user \in BOOLEAN : ApplyCommit(k, user) \/ RollbackCommit(k, user),
         ~\E k \in Keys : CleanupExpired(k),
         ~\E l \in {{"persistent"}, {"ephemeral"}, {"persistent", "ephemeral"}} : ClearCommit(l)
  PROVE  KeptIn(r)
<1>1. ASSUME UNCHANGED <<rules, meta>> PROVE KeptIn(r)  BY <1>1 DEF KeptIn
<1>2. ASSUME job' = job \/ job'.kind \notin {"apply", "manual", "expired", "clear"} PROVE KeptIn(r)  BY <1>2 DEF KeptIn
<1>3. ASSUME NEW lifecycle, NEW plan, NEW content, NEW user, Validate(lifecycle, plan, content, user) PROVE KeptIn(r)
  BY <1>1, <1>3 DEF Validate
<1>4. ASSUME NEW k \in Keys, ApplyRetry(k) \/ Lapse(k) \/ VerifyStart(k) \/ VerifyRecord(k) \/ RecoverRecord(k) PROVE KeptIn(r)
  BY <1>1, <1>4 DEF ApplyRetry, Lapse, VerifyStart, VerifyRecord, RecoverRecord
<1>5. ASSUME NEW k \in Keys, Promote(k) \/ AbandonEphemeral(k) PROVE KeptIn(r)  BY <1>2, <1>5 DEF Promote, AbandonEphemeral
<1>6. CASE ApplyRefused \/ Publish \/ Record \/ UserSaveLive \/ UserForget \/ TempRemoveLive
  BY <1>1, <1>6 DEF ApplyRefused, Publish, Record, UserSaveLive, UserForget, TempRemoveLive
<1>7. ASSUME NEW s, NEW v, UserSave(s, v) PROVE KeptIn(r)  BY <1>2, <1>7 DEF UserSave
<1>8. ASSUME NEW s, UserDelete(s) PROVE KeptIn(r)  BY <1>2, <1>8 DEF UserDelete
<1>9. ASSUME NEW s, TempCreate(s) \/ TempRemove(s) PROVE KeptIn(r)  BY <1>1, <1>9 DEF TempCreate, TempRemove
<1>10. CASE AppCrash \/ Boot \/ RecoverPublish \/ RecoverDone \/ Republish
  BY <1>1, <1>10 DEF AppCrash, Boot, RecoverPublish, RecoverDone, Republish
<1> QED BY <1>3, <1>4, <1>5, <1>6, <1>7, <1>8, <1>9, <1>10 DEF AutomationNext

\* An apply, rollback, expiry or clear without manageUserAutomation leaves the user's own
\* rules as they are, whatever plans, rollbacks, promotions, clears and recoveries came
\* before (prepare_automation_plan, commit_prepared_change, change_requires_user_automation,
\* cleanup_expired_automation, clear_agent_automation); a rule a change created and the user
\* has now is touched only by the rollback of a change that wrote the content it has.
THEOREM UserRulesAlwaysKept == AutomationSpec => UserRulesKept
<1>1. ASSUME AutomationInv, [AutomationNext]_automationVars PROVE [\A r \in Rules : KeptIn(r)]_automationVars
  <2>1. CASE UNCHANGED automationVars  BY <2>1
  <2>2. CASE AutomationNext  BY <1>1, <2>2, ApplyKeeps, RollbackKeeps, ExpiryKeeps, ClearTakesAgents, OthersKeep
  <2> QED BY <1>1, <2>1, <2>2
<1> QED BY <1>1, AutomationInvariant, PTL DEF AutomationSpec, UserRulesKept, KeptIn

-----------------------------------------------------------------------------
(* The checks of a plan (PlanChecks).                                      *)

\* One check of a list: whether it passed and the code it answers with when it did not.
CheckCodes == {"INVALID_ARGUMENT", "FEATURE_NOT_AVAILABLE", "PATH_NOT_APPROVED"}
CheckList == Seq(BOOLEAN \X CheckCodes)

\* A list whose failing checks all name an error answers OK only when none failed.
LEMMA NoneFailed ==
  ASSUME NEW checks, NEW n \in Nat, DOMAIN checks = 1..n, \A i \in 1..n : ~checks[i][1] => checks[i][2] # "OK",
         FirstError(checks) = "OK"
  PROVE  \A i \in 1..n : checks[i][1]
<1> DEFINE failed == {i \in DOMAIN checks : ~checks[i][1]}
<1>2. CASE failed = {}  BY <1>2
<1>3. CASE failed # {}
  <2>1. failed \subseteq Nat  OBVIOUS
  <2>2. \E x \in failed : \A y \in failed : x <= y
    <3>1. PICK x \in failed : \A y \in failed : ~(<<y, x>> \in OpToRel(<, Nat))  BY <1>3, <2>1, WFMin, NatLessThanWellFounded
    <3>2. \A y \in failed : ~(y < x)  BY <2>1, <3>1 DEF OpToRel
    <3> HIDE DEF failed
    <3> QED  BY <2>1, <3>2
  <2>3. Min(failed) \in failed  BY <2>2 DEF Min
  <2>4. checks[Min(failed)][2] # "OK"  BY <2>3
  <2>5. FirstError(checks) = checks[Min(failed)][2]  BY <1>3 DEF FirstError
  <2> QED  BY <2>4, <2>5
<1> QED  BY <1>2, <1>3

\* A list of checks answers OK only when every one of them passed.
LEMMA AllChecksPassed ==
  ASSUME NEW checks \in CheckList, FirstError(checks) = "OK"
  PROVE  \A i \in 1..Len(checks) : checks[i][1]
<1>1. /\ DOMAIN checks = 1..Len(checks) /\ Len(checks) \in Nat
      /\ \A i \in 1..Len(checks) : checks[i] \in BOOLEAN \X CheckCodes
  BY DEF CheckList
<1>2. \A i \in 1..Len(checks) : checks[i][2] # "OK"  BY <1>1 DEF CheckCodes
<1> QED  BY <1>1, <1>2, NoneFailed

\* So for a list of three checks.
LEMMA ThreeChecks ==
  ASSUME NEW b1 \in BOOLEAN, NEW b2 \in BOOLEAN, NEW b3 \in BOOLEAN,
         NEW c1 \in CheckCodes, NEW c2 \in CheckCodes, NEW c3 \in CheckCodes,
         FirstError(<< <<b1, c1>>, <<b2, c2>>, <<b3, c3>> >>) = "OK"
  PROVE  b1 /\ b2 /\ b3
<1>1. PICK s : s = << <<b1, c1>>, <<b2, c2>>, <<b3, c3>> >>  OBVIOUS
<1>2. s \in CheckList /\ Len(s) = 3 /\ s[1] = <<b1, c1>> /\ s[2] = <<b2, c2>> /\ s[3] = <<b3, c3>>  BY <1>1 DEF CheckList
<1>3. \A i \in 1..Len(s) : s[i][1]  BY <1>1, <1>2, AllChecksPassed
<1>4. 1 \in 1..3 /\ 2 \in 1..3 /\ 3 \in 1..3  OBVIOUS
<1>5. s[1][1] /\ s[2][1] /\ s[3][1]  BY <1>2, <1>3, <1>4
<1> QED  BY <1>2, <1>5

\* The same for four checks.
LEMMA FourChecks ==
  ASSUME NEW b1 \in BOOLEAN, NEW b2 \in BOOLEAN, NEW b3 \in BOOLEAN, NEW b4 \in BOOLEAN,
         NEW c1 \in CheckCodes, NEW c2 \in CheckCodes, NEW c3 \in CheckCodes, NEW c4 \in CheckCodes,
         FirstError(<< <<b1, c1>>, <<b2, c2>>, <<b3, c3>>, <<b4, c4>> >>) = "OK"
  PROVE  b1 /\ b2 /\ b3 /\ b4
<1>1. PICK s : s = << <<b1, c1>>, <<b2, c2>>, <<b3, c3>>, <<b4, c4>> >>  OBVIOUS
<1>2. s \in CheckList /\ Len(s) = 4 /\ s[1] = <<b1, c1>> /\ s[2] = <<b2, c2>> /\ s[3] = <<b3, c3>> /\ s[4] = <<b4, c4>>
  BY <1>1 DEF CheckList
<1>3. \A i \in 1..Len(s) : s[i][1]  BY <1>1, <1>2, AllChecksPassed
<1>4. 1 \in 1..4 /\ 2 \in 1..4 /\ 3 \in 1..4 /\ 4 \in 1..4  OBVIOUS
<1>5. s[1][1] /\ s[2][1] /\ s[3][1] /\ s[4][1]  BY <1>2, <1>3, <1>4
<1> QED  BY <1>2, <1>5

\* Two lists of checks put together are a list of checks.
LEMMA JoinedChecks ==
  ASSUME NEW s \in CheckList, NEW t \in CheckList
  PROVE  \E u \in CheckList : u = s \o t
<1>1. PICK S : S = BOOLEAN \X CheckCodes  OBVIOUS
<1>2. s \in Seq(S) /\ t \in Seq(S)  BY <1>1 DEF CheckList
<1>3. s \o t \in Seq(S)  BY <1>2
<1> QED  BY <1>1, <1>3 DEF CheckList

\* When the whole passes, both of its parts do.
LEMMA BothListsPassed ==
  ASSUME NEW s \in CheckList, NEW t \in CheckList, \A i \in 1..Len(s \o t) : (s \o t)[i][1]
  PROVE  (\A i \in 1..Len(s) : s[i][1]) /\ (\A i \in 1..Len(t) : t[i][1])
<1>1. /\ Len(s) \in Nat /\ Len(t) \in Nat /\ Len(s \o t) = Len(s) + Len(t)
      /\ \A i \in 1..Len(s) : (s \o t)[i] = s[i]
      /\ \A i \in 1..Len(t) : (s \o t)[i + Len(s)] = t[i]
  BY DEF CheckList
<1>2. ASSUME NEW i \in 1..Len(s) PROVE s[i][1]
  <2>1. i \in 1..Len(s \o t) /\ (s \o t)[i] = s[i]  BY <1>1
  <2>2. (s \o t)[i][1]  BY <2>1
  <2> QED  BY <2>1, <2>2
<1>3. ASSUME NEW i \in 1..Len(t) PROVE t[i][1]
  <2>1. i + Len(s) \in 1..Len(s \o t) /\ (s \o t)[i + Len(s)] = t[i]  BY <1>1
  <2>2. (s \o t)[i + Len(s)][1]  BY <2>1
  <2> QED  BY <2>1, <2>2
<1> QED  BY <1>2, <1>3

\* What a plan that passes was checked for.
LEMMA PlanChecked ==
  ASSUME NEW p, validate_plan_shape(p) = "OK"
  PROVE  /\ \A i, j \in DOMAIN p.upserts : p.upserts[i].id # "none" /\ p.upserts[i].id = p.upserts[j].id => i = j
         /\ \A i, j \in DOMAIN p.deletes : p.deletes[i] = p.deletes[j] => i = j
         /\ \A i \in DOMAIN p.deletes, j \in DOMAIN p.upserts : p.deletes[i] # p.upserts[j].id
         /\ p.lifecycle = "ephemeral" => p.deletes = << >> /\ (\A i \in DOMAIN p.upserts : p.upserts[i] = NewRule) /\ p.ttl \in 60..3600
<1>h1. PICK h1 \in BOOLEAN : h1 <=> (p.scope \in {"workspace", "global"})  OBVIOUS
<1>h2. PICK h2 \in BOOLEAN : h2 <=> (p.scope = "workspace" => p.workspaceId)  OBVIOUS
<1>h3. PICK h3 \in BOOLEAN : h3 <=> (p.lifecycle \in {"persistent", "ephemeral"})  OBVIOUS
<1>g1. PICK lo, hi : lo = 60 /\ hi = 3600  OBVIOUS
<1>g2. PICK lifetimes : lifetimes = lo..hi  OBVIOUS
<1>g3. PICK g4 \in BOOLEAN : g4 <=> p.ttl \in lifetimes  OBVIOUS
<1>g4. g4 <=> (p.ttl \in 60..3600)  BY <1>g1, <1>g2, <1>g3
<1>h0. PICK h4 \in BOOLEAN : h4 <=> (p.lifecycle = "ephemeral" => g4)  OBVIOUS
<1>h4. h4 <=> (p.lifecycle = "ephemeral" => p.ttl \in 60..3600)  BY <1>g4, <1>h0
<1>h5. PICK h5 \in BOOLEAN : h5 <=> (p.key \in 16..128)  OBVIOUS
<1>h6. PICK h6 \in BOOLEAN : h6 <=> (ItemCount(p) \in 1..MaxItems)  OBVIOUS
<1>r1. PICK r1 \in BOOLEAN : r1 <=> (\A i, j \in DOMAIN p.upserts : p.upserts[i].id # "none" /\ p.upserts[i].id = p.upserts[j].id => i = j)  OBVIOUS
<1>r2. PICK r2 \in BOOLEAN : r2 <=> (\A i, j \in DOMAIN p.deletes : p.deletes[i] = p.deletes[j] => i = j)  OBVIOUS
<1>r3. PICK r3 \in BOOLEAN : r3 <=> (\A i \in DOMAIN p.deletes, j \in DOMAIN p.upserts : p.deletes[i] # p.upserts[j].id)  OBVIOUS
<1>f1. PICK f1 \in BOOLEAN : f1 <=> (p.feature = "none")  OBVIOUS
<1>f2. PICK f2 \in BOOLEAN : f2 <=> (p.scope # "global")  OBVIOUS
<1>u1. PICK u1 \in BOOLEAN : u1 <=> (p.lifecycle = "ephemeral" => p.deletes = << >> /\ \A i \in DOMAIN p.upserts : p.upserts[i] = NewRule)  OBVIOUS
<1>u2. PICK u2 \in BOOLEAN : u2 <=> (p.bytes = "fits")  OBVIOUS
<1>u3. PICK u3 \in BOOLEAN : u3 <=> (\A i \in DOMAIN p.upserts : p.upserts[i].id # "none" => p.upserts[i].version)  OBVIOUS
<1>3. PICK H : H = << <<h1, "INVALID_ARGUMENT">>, <<h2, "INVALID_ARGUMENT">>, <<h3, "INVALID_ARGUMENT">>,
                      <<h4, "INVALID_ARGUMENT">>, <<h5, "INVALID_ARGUMENT">>, <<h6, "INVALID_ARGUMENT">> >>
  OBVIOUS
<1>4. PICK R : R = << <<r1, "INVALID_ARGUMENT">>, <<r2, "INVALID_ARGUMENT">>, <<r3, "INVALID_ARGUMENT">> >>  OBVIOUS
<1>5. PICK F : F = << <<f1, "FEATURE_NOT_AVAILABLE">>, <<f2, "FEATURE_NOT_AVAILABLE">> >>  OBVIOUS
<1>6. PICK U : U = << <<u1, "INVALID_ARGUMENT">>, <<u2, "INVALID_ARGUMENT">>, <<u3, "INVALID_ARGUMENT">> >>  OBVIOUS
<1>7. H = PlanHeaderChecks(p)  BY <1>h1, <1>h2, <1>h3, <1>h4, <1>h5, <1>h6, <1>3 DEF PlanHeaderChecks
<1>8. R = RepeatChecks(p)  BY <1>r1, <1>r2, <1>r3, <1>4 DEF RepeatChecks
<1>9. F = FeatureChecks(p)  BY <1>f1, <1>f2, <1>5 DEF FeatureChecks
<1>10. U = UpdateChecks(p)  BY <1>u1, <1>u2, <1>u3, <1>6 DEF UpdateChecks
<1>11. FirstError(H \o R \o F \o U) = "OK"  BY <1>7, <1>8, <1>9, <1>10 DEF validate_plan_shape
<1>12. "INVALID_ARGUMENT" \in CheckCodes /\ "FEATURE_NOT_AVAILABLE" \in CheckCodes  BY DEF CheckCodes
<1>13. H \in CheckList /\ Len(H) = 6 /\ H[1][1] = h1 /\ H[2][1] = h2 /\ H[4][1] = h4 /\ H[6][1] = h6  BY <1>3, <1>12 DEF CheckList
<1>14. R \in CheckList /\ Len(R) = 3 /\ R[1][1] = r1 /\ R[2][1] = r2 /\ R[3][1] = r3  BY <1>4, <1>12 DEF CheckList
<1>15. F \in CheckList /\ Len(F) = 2 /\ F[2][1] = f2  BY <1>5, <1>12 DEF CheckList
<1>16. U \in CheckList /\ Len(U) = 3 /\ U[1][1] = u1 /\ U[3][1] = u3  BY <1>6, <1>12 DEF CheckList
<1>17. PICK HR \in CheckList : HR = H \o R  BY <1>13, <1>14, JoinedChecks
<1>18. PICK HRF \in CheckList : HRF = HR \o F  BY <1>15, <1>17, JoinedChecks
<1>19. PICK all \in CheckList : all = HRF \o U  BY <1>16, <1>18, JoinedChecks
<1>20. \A i \in 1..Len(all) : all[i][1]  BY <1>11, <1>17, <1>18, <1>19, AllChecksPassed
<1>21. (\A i \in 1..Len(HRF) : HRF[i][1]) /\ (\A i \in 1..Len(U) : U[i][1])  BY <1>16, <1>19, <1>20, BothListsPassed
<1>22. (\A i \in 1..Len(HR) : HR[i][1]) /\ (\A i \in 1..Len(F) : F[i][1])  BY <1>15, <1>18, <1>21, BothListsPassed
<1>23. (\A i \in 1..Len(H) : H[i][1]) /\ (\A i \in 1..Len(R) : R[i][1])  BY <1>13, <1>14, <1>17, <1>22, BothListsPassed
<1>24. h4 /\ r1 /\ r2 /\ r3 /\ u1
  <2>1. 4 \in 1..6 /\ 1 \in 1..3 /\ 2 \in 1..3 /\ 3 \in 1..3  OBVIOUS
  <2>2. H[4][1]  BY <1>13, <1>23, <2>1
  <2>3. R[1][1] /\ R[2][1] /\ R[3][1]  BY <1>14, <1>23, <2>1
  <2>4. U[1][1]  BY <1>16, <1>21, <2>1
  <2> QED  BY <1>13, <1>14, <1>16, <2>2, <2>3, <2>4
<1> QED  BY <1>h4, <1>r1, <1>r2, <1>r3, <1>u1, <1>24

\* No two items of a plan that passes name the same rule.
LEMMA ItemsApart ==
  ASSUME NEW p, validate_plan_shape(p) = "OK", NEW x \in Items(p), NEW y \in Items(p), x # y
  PROVE  x[3] # y[3]
<1>1. /\ \A i, j \in DOMAIN p.upserts : p.upserts[i].id # "none" /\ p.upserts[i].id = p.upserts[j].id => i = j
      /\ \A i, j \in DOMAIN p.deletes : p.deletes[i] = p.deletes[j] => i = j
      /\ \A i \in DOMAIN p.deletes, j \in DOMAIN p.upserts : p.deletes[i] # p.upserts[j].id
  BY PlanChecked
<1> DEFINE W(i) == <<"write", i, p.upserts[i].id>>
           D(i) == <<"delete", i, p.deletes[i]>>
<1>2. ASSUME NEW z \in Items(p)
      PROVE  \/ \E i \in DOMAIN p.upserts : p.upserts[i].id # "none" /\ z = W(i)
             \/ \E i \in DOMAIN p.deletes : z = D(i)
  BY <1>2 DEF Items
<1>3. \A i : W(i)[3] = p.upserts[i].id /\ D(i)[3] = p.deletes[i]  OBVIOUS
<1> HIDE DEF W, D
<1>4. CASE \E i \in DOMAIN p.upserts : p.upserts[i].id # "none" /\ x = W(i)  BY <1>1, <1>2, <1>3, <1>4
<1>5. CASE \E i \in DOMAIN p.deletes : x = D(i)  BY <1>1, <1>2, <1>3, <1>5
<1> QED  BY <1>2, <1>4, <1>5

\* A pattern that passes names one host in full, one an agent may plan for.
LEMMA ExactHost ==
  ASSUME NEW p \in Patterns, exact_pattern_host(p) = "OK"
  PROVE  /\ p.host \in Hosts /\ p.host # NoHost /\ ~HasWildcard(p.host)
         /\ p.host[1] \notin {"*", "part*"} /\ p.host # <<"*">>
<1>a. PICK b1 \in BOOLEAN : b1 <=> (p.host # NoHost)  OBVIOUS
<1>b. PICK b2 \in BOOLEAN : b2 <=> (p.scheme \in {"none", "https", "wss"})  OBVIOUS
<1>c. PICK b3 \in BOOLEAN : b3 <=> ~HasWildcard(p.host)  OBVIOUS
<1>2. "INVALID_ARGUMENT" \in CheckCodes  BY DEF CheckCodes
<1>3. FirstError(<< <<b1, "INVALID_ARGUMENT">>, <<b2, "INVALID_ARGUMENT">>, <<b3, "INVALID_ARGUMENT">> >>) = "OK"
  BY <1>a, <1>b, <1>c DEF exact_pattern_host
<1>1. b1 /\ b2 /\ b3  BY <1>2, <1>3, ThreeChecks
<1>4. p.host # NoHost /\ ~HasWildcard(p.host)  BY <1>a, <1>c, <1>1
<1>5. \A h \in Hosts : h \in Seq(Labels) /\ 1 \in DOMAIN h
  <2> SUFFICES ASSUME NEW h \in Hosts PROVE h \in Seq(Labels) /\ 1 \in DOMAIN h  OBVIOUS
  <2>1. PICK n \in 1..MaxLabels : h \in [1..n -> Labels]  BY DEF Hosts
  <2>2. n \in Nat /\ 1 \in 1..n  BY <2>1, PlanAssumption
  <2> QED  BY <2>1, <2>2
<1>6. p.host \in Hosts
  <2>1. p.host \in {NoHost, <<"*">>} \cup Hosts \cup {<<"*">> \o h : h \in Hosts} \cup {<<"part*">> \o h : h \in Hosts}
    BY DEF Patterns
  <2>2. ASSUME p.host = <<"*">> PROVE FALSE
    <3>1. 1 \in DOMAIN p.host /\ p.host[1] = "*"  BY <2>2
    <3> QED  BY <1>4, <3>1 DEF HasWildcard
  <2>3. ASSUME NEW h \in Hosts, NEW w \in {"*", "part*"}, p.host = <<w>> \o h PROVE FALSE
    <3>1. h \in Seq(Labels)  BY <1>5
    <3>2. 1 \in DOMAIN (<<w>> \o h) /\ (<<w>> \o h)[1] = w  BY <3>1
    <3> QED  BY <1>4, <2>3, <3>2 DEF HasWildcard
  <2> QED  BY <1>4, <2>1, <2>2, <2>3
<1>7. 1 \in DOMAIN p.host  BY <1>5, <1>6
<1>8. p.host[1] \notin {"*", "part*"}  BY <1>4, <1>7 DEF HasWildcard
<1>9. p.host # <<"*">>  BY <1>8
<1> QED  BY <1>4, <1>6, <1>8, <1>9

\* A running rule that such a rule meets is in its scope, but for the exceptions.
LEMMA ScopeCovers ==
  ASSUME NEW p \in Patterns, NEW q \in Patterns, exact_pattern_host(p) = "OK", NEW owner, NEW same \in BOOLEAN, NEW u,
         owner = "agent" => exact_pattern_host(q) = "OK", owner \in {"agent", "user"},
         Reaches(p, "agent", u), Reaches(q, owner, u)
  PROVE  \/ InScope(p, q, same) \/ ~same
         \/ owner = "user" /\ pattern_host(q) # u.host /\ ~IsUnder(u.host, pattern_host(q))
<1>1. p.host # NoHost /\ p.host[1] \notin {"*", "part*"} /\ p.host # <<"*">>  BY ExactHost
<1>2. pattern_host(p) \in {NoHost, p.host}  BY DEF pattern_host
<1>3. u.host = p.host  BY DEF Reaches, HostLockMatches
<1>4. CASE pattern_host(p) = NoHost  BY <1>4 DEF InScope
<1>5. CASE pattern_host(p) = p.host /\ owner = "agent"
  <2>1. q.host = p.host  BY <1>3, <1>5 DEF Reaches, HostLockMatches
  <2>2. pattern_host(q) \in {NoHost, q.host}  BY DEF pattern_host
  <2> QED  BY <1>5, <2>1, <2>2 DEF InScope, host_conflicts
<1>6. CASE pattern_host(p) = p.host /\ owner = "user"  BY <1>3, <1>6 DEF InScope, host_conflicts
<1> QED  BY <1>2, <1>4, <1>5, <1>6

\* What is asked is one of the five questions, each with its fields.
AssertionAsked ==
  /\ asked.subject \in Subjects /\ asked.operator \in Operators
  /\ asked.value \in {{}} \cup {{v} : v \in Values} /\ asked.expected \in {{}} \cup {{v} : v \in Simple}
  /\ asked.there \in {"name", "NAME"} /\ asked.path \in {"name", "NAME"}

\* A question has the fields of its kind.
PlanInv ==
  /\ asked.kind \in {"nothing", "plan", "scope", "rewrite", "map", "assertion"}
  /\ asked.kind = "scope" =>
       /\ asked.planned \in Patterns /\ asked.running \in Patterns /\ asked.owner \in {"agent", "user"} /\ asked.same \in BOOLEAN
       /\ exact_pattern_host(asked.planned) = "OK" /\ (asked.owner = "agent" => exact_pattern_host(asked.running) = "OK")
  /\ asked.kind = "rewrite" => asked.named \in BOOLEAN /\ asked.pattern \in Patterns /\ asked.redirect \subseteq Redirects
  /\ asked.kind = "map" => asked \in MapResources
  /\ asked.kind = "assertion" => AssertionAsked

\* A question is asked once, and has the fields of its kind.
LEMMA PlanStep ==
  ASSUME PlanInv, [PlanNext]_asked
  PROVE  PlanInv'
<1>1. CASE UNCHANGED asked  BY <1>1 DEF PlanInv, AssertionAsked
<1>2. CASE AskPlan
  <2>0. PICK f, g \in DOMAIN Deviations : \E x \in Deviations[f] \cup {SoundPlan[f]}, y \in Deviations[g] :
          asked' = [SoundPlan EXCEPT ![f] = x, ![g] = y]
    BY <1>2 DEF AskPlan
  <2>1. PICK x, y : asked' = [SoundPlan EXCEPT ![f] = x, ![g] = y]  BY <2>0
  <2>2. f # "kind" /\ g # "kind"  BY DEF Deviations
  <2>3. asked'.kind = SoundPlan.kind  BY <2>1, <2>2 DEF SoundPlan
  <2>4. asked'.kind = "plan"  BY <2>3 DEF SoundPlan
  <2> QED  BY <2>4 DEF PlanInv
<1>3. CASE AskScope
  <2>1. PICK p, q \in Patterns, owner \in {"agent", "user"}, same \in BOOLEAN :
          /\ exact_pattern_host(p) = "OK" /\ (owner = "agent" => exact_pattern_host(q) = "OK")
          /\ asked' = [kind |-> "scope", planned |-> p, running |-> q, owner |-> owner, same |-> same]
    BY <1>3 DEF AskScope
  <2>2. asked'.kind = "scope" /\ asked'.planned = p /\ asked'.running = q /\ asked'.owner = owner /\ asked'.same = same  BY <2>1
  <2> QED  BY <2>1, <2>2 DEF PlanInv
<1>4. CASE AskRewrite
  <2>1. PICK p \in Patterns, r \in {{}} \cup {{t} : t \in Redirects}, n \in {0, 1, 100, 101} :
          (n # 1 => r = {}) /\ asked' = [kind |-> "rewrite", named |-> TRUE, pattern |-> p, actions |-> n, redirect |-> r]
    BY <1>4 DEF AskRewrite
  <2>2. PICK b \in BOOLEAN : b = TRUE  OBVIOUS
  <2>3. asked' = [kind |-> "rewrite", named |-> b, pattern |-> p, actions |-> n, redirect |-> r]  BY <2>1, <2>2
  <2>4. asked'.kind = "rewrite" /\ asked'.named = b /\ asked'.pattern = p /\ asked'.redirect = r  BY <2>3
  <2> QED  BY <2>4 DEF PlanInv
<1>5. CASE AskMap
  <2>1. asked' \in MapResources /\ asked'.kind = "map"  BY <1>5 DEF AskMap, MapResources
  <2> QED  BY <2>1 DEF PlanInv
<1>6. CASE AskAssertion
  <2>1. PICK subject \in Subjects, operator \in Operators, value \in {{}} \cup {{v} : v \in Values},
             expected \in {{}} \cup {{v} : v \in Simple}, there, path \in {"name", "NAME"}, id \in {0, 128, 129} :
          /\ (id # 128 \/ subject = "other") => there = path /\ value = {}
          /\ asked' = [kind |-> "assertion", id |-> id, subject |-> subject, operator |-> operator, value |-> value,
                       expected |-> expected, there |-> there, path |-> path]
    BY <1>6 DEF AskAssertion
  <2>2. /\ asked'.kind = "assertion" /\ asked'.subject = subject /\ asked'.operator = operator /\ asked'.value = value
        /\ asked'.expected = expected /\ asked'.there = there /\ asked'.path = path
    BY <2>1
  <2>3. AssertionAsked'  BY <2>2 DEF AssertionAsked
  <2> QED  BY <2>2, <2>3 DEF PlanInv
<1> QED  BY <1>1, <1>2, <1>3, <1>4, <1>5, <1>6 DEF PlanNext

\* A redirect that passes leads to the host of the rule's pattern.
LEMMA RedirectStays ==
  ASSUME NEW host, NEW d \in Redirects, validate_rewrite_redirect_target(host, d) = "OK"
  PROVE  d.host = host
<1>1. FirstError(<< <<d.url, "INVALID_ARGUMENT">>, <<d.scheme \in {"http", "https"}, "INVALID_ARGUMENT">>,
                    <<d.host # NoHost, "INVALID_ARGUMENT">>, <<d.host = host, "FEATURE_NOT_AVAILABLE">> >>) = "OK"
  BY DEF validate_rewrite_redirect_target
<1>2. PICK b1 \in BOOLEAN : b1 <=> d.url  BY DEF Redirects
<1>3. PICK b2 \in BOOLEAN : b2 <=> d.scheme \in {"http", "https"}  OBVIOUS
<1>4. PICK b3 \in BOOLEAN : b3 <=> d.host # NoHost  OBVIOUS
<1>5. PICK b4 \in BOOLEAN : b4 <=> d.host = host  OBVIOUS
<1>6. d.url \in BOOLEAN  BY DEF Redirects
<1>7. FirstError(<< <<b1, "INVALID_ARGUMENT">>, <<b2, "INVALID_ARGUMENT">>, <<b3, "INVALID_ARGUMENT">>,
                    <<b4, "FEATURE_NOT_AVAILABLE">> >>) = "OK"
  BY <1>1, <1>2, <1>3, <1>4, <1>5, <1>6
<1>8. "INVALID_ARGUMENT" \in CheckCodes /\ "FEATURE_NOT_AVAILABLE" \in CheckCodes  BY DEF CheckCodes
<1>9. b4  BY <1>7, <1>8, FourChecks
<1> QED  BY <1>5, <1>9

\* A rewrite rule that passes acts on the one host of its pattern, and redirects to no other.
LEMMA RewriteStays ==
  ASSUME NEW r, r.named \in BOOLEAN, r.pattern \in Patterns, r.redirect \subseteq Redirects, build_rewrite_rule(r) = "OK"
  PROVE  \E h \in Hosts : /\ \A u \in Requests : Reaches(r.pattern, "agent", u) => u.host = h
                          /\ \A t \in r.redirect : t.host = h
<1>1. PICK p \in Patterns : p = r.pattern  OBVIOUS
<1>3. PICK c1 : c1 = exact_pattern_host(p)  OBVIOUS
<1>4. PICK c2 : c2 = RedirectError(p.host, r.redirect)  OBVIOUS
<1>5. PICK a \in BOOLEAN : a <=> (r.actions \in 1..100)  OBVIOUS
<1>6. build_rewrite_rule(r) = FirstError(<< <<r.named, "INVALID_ARGUMENT">>, <<c1 = "OK", c1>>, <<a, "INVALID_ARGUMENT">>, <<c2 = "OK", c2>> >>)
  BY <1>1, <1>3, <1>4, <1>5 DEF build_rewrite_rule
<1>7. c1 = "OK" /\ c2 = "OK"
  <2> DEFINE checks == << <<r.named, "INVALID_ARGUMENT">>, <<c1 = "OK", c1>>, <<a, "INVALID_ARGUMENT">>, <<c2 = "OK", c2>> >>
  <2>a. DOMAIN checks = 1..4  OBVIOUS
  <2>b. checks[1] = <<r.named, "INVALID_ARGUMENT">> /\ checks[3] = <<a, "INVALID_ARGUMENT">>  OBVIOUS
  <2>c. checks[2] = <<c1 = "OK", c1>> /\ checks[4] = <<c2 = "OK", c2>>  OBVIOUS
  <2>d. checks[1][2] = "INVALID_ARGUMENT" /\ checks[3][2] = "INVALID_ARGUMENT"  BY <2>b
  <2>e. checks[2][2] = c1 /\ checks[4][2] = c2  BY <2>c
  <2>f. (checks[2][1] <=> c1 = "OK") /\ (checks[4][1] <=> c2 = "OK")  BY <2>c
  <2>1. /\ DOMAIN checks = 1..4 /\ checks[1][2] = "INVALID_ARGUMENT" /\ checks[3][2] = "INVALID_ARGUMENT"
        /\ checks[2][2] = c1 /\ checks[4][2] = c2 /\ (checks[2][1] <=> c1 = "OK") /\ (checks[4][1] <=> c2 = "OK")
    BY <2>a, <2>d, <2>e, <2>f
  <2>2. \A i \in 1..4 : ~checks[i][1] => checks[i][2] # "OK"
    <3> SUFFICES ASSUME NEW i \in 1..4, ~checks[i][1] PROVE checks[i][2] # "OK"  OBVIOUS
    <3>1. i = 1 \/ i = 2 \/ i = 3 \/ i = 4  OBVIOUS
    <3> HIDE DEF checks
    <3> QED  BY <2>1, <3>1
  <2>3. FirstError(checks) = "OK"  BY <1>6
  <2> HIDE DEF checks
  <2>4. \A i \in 1..4 : checks[i][1]  BY <2>1, <2>2, <2>3, NoneFailed
  <2> QED  BY <2>1, <2>4
<1>8. ASSUME NEW t \in r.redirect PROVE t.host = p.host
  <2>1. {validate_rewrite_redirect_target(p.host, x) : x \in r.redirect} \ {"OK"} = {}
    <3> DEFINE errors == {validate_rewrite_redirect_target(p.host, x) : x \in r.redirect} \ {"OK"}
    <3>1. errors # {} => (CHOOSE e \in errors : TRUE) # "OK"  OBVIOUS
    <3>2. (IF errors = {} THEN "OK" ELSE CHOOSE e \in errors : TRUE) = "OK"  BY <1>4, <1>7 DEF RedirectError
    <3> HIDE DEF errors
    <3>3. errors = {}  BY <3>1, <3>2
    <3> QED  BY <3>3 DEF errors
  <2>2. validate_rewrite_redirect_target(p.host, t) = "OK"  BY <2>1
  <2> QED  BY <2>2, RedirectStays
<1>9. p.host \in Hosts  BY <1>3, <1>7, ExactHost
<1>10. \A u : Reaches(p, "agent", u) => u.host = p.host  BY DEF Reaches, HostLockMatches
<1> QED  BY <1>1, <1>8, <1>9, <1>10

\* A file named by a path is inside an approved root, resolves and is regular.
LEMMA PathApproved ==
  ASSUME NEW p \in Paths, NEW approved \in BOOLEAN, resolve_approved_path(p, approved) = "OK"
  PROVE  approved /\ p.real = "inside" /\ p.file /\ p.resolves
<1>1. p.dots \in BOOLEAN /\ p.resolves \in BOOLEAN /\ p.file \in BOOLEAN  BY DEF Paths
<1>2. PICK b1 \in BOOLEAN : b1 <=> ~p.dots  OBVIOUS
<1>3. PICK b2 \in BOOLEAN : b2 = p.resolves  BY <1>1
<1>4. PICK b3 \in BOOLEAN : b3 = p.file  BY <1>1
<1>5. PICK b4 \in BOOLEAN : b4 <=> (approved /\ p.real = "inside")  OBVIOUS
<1>6. FirstError(<< <<b1, "PATH_NOT_APPROVED">>, <<b2, "PATH_NOT_APPROVED">>, <<b3, "PATH_NOT_APPROVED">>,
                    <<b4, "PATH_NOT_APPROVED">> >>) = "OK"
  BY <1>1, <1>2, <1>3, <1>4, <1>5 DEF resolve_approved_path
<1>7. "PATH_NOT_APPROVED" \in CheckCodes  BY DEF CheckCodes
<1>8. b1 /\ b2 /\ b3 /\ b4  BY <1>6, <1>7, FourChecks
<1> QED  BY <1>1, <1>3, <1>4, <1>5, <1>8

\* An asset that passes has a plain file name.
LEMMA AssetPlain ==
  ASSUME NEW a, a.ref \in BOOLEAN, a.base64 \in BOOLEAN, validate_asset(a) = "OK"
  PROVE  a.name = "plain"
<1>1. PICK b \in BOOLEAN : b <=> a.name = "plain"  OBVIOUS
<1>2. PICK r \in BOOLEAN : r = a.ref  OBVIOUS
<1>3. PICK e \in BOOLEAN : e = a.base64  OBVIOUS
<1>4. FirstError(<< <<r, "INVALID_ARGUMENT">>, <<b, "INVALID_ARGUMENT">>, <<e, "INVALID_ARGUMENT">> >>) = "OK"
  BY <1>1, <1>2, <1>3 DEF validate_asset
<1>5. "INVALID_ARGUMENT" \in CheckCodes  BY DEF CheckCodes
<1>6. b  BY <1>4, <1>5, ThreeChecks
<1> QED  BY <1>1, <1>6

\* What a Map Local rule that passes was checked for.
LEMMA MapChecked ==
  ASSUME NEW m, build_map_rule(m) = "OK"
  PROVE  (m.asset # "none" => validate_asset(m.upload) = "OK") /\ resolve_map_target(m)[1] = "OK"
<1>1. PICK c1 : c1 = resolve_map_target(m)[1]  OBVIOUS
<1>2. PICK c2 : c2 = exact_pattern_host(m.pattern)  OBVIOUS
<1>3. PICK b1 \in BOOLEAN : b1 <=> (m.asset # "none" => validate_asset(m.upload) = "OK")  OBVIOUS
<1>4. PICK b3 \in BOOLEAN : b3 <=> m.mode = "local"  OBVIOUS
<1>5. PICK b5 \in BOOLEAN : b5 <=> (m.asset # "none" \/ m.readable)  OBVIOUS
<1> DEFINE checks == << <<b1, "INVALID_ARGUMENT">>, <<c1 = "OK", c1>>, <<b3, "FEATURE_NOT_AVAILABLE">>, <<c2 = "OK", c2>>,
                        <<b5, "INVALID_ARGUMENT">> >>
<1>6. FirstError(checks) = "OK"  BY <1>1, <1>2, <1>3, <1>4, <1>5 DEF build_map_rule
<1>a. DOMAIN checks = 1..5  OBVIOUS
<1>b. checks[1] = <<b1, "INVALID_ARGUMENT">> /\ checks[3] = <<b3, "FEATURE_NOT_AVAILABLE">> /\ checks[5] = <<b5, "INVALID_ARGUMENT">>
  OBVIOUS
<1>c. checks[2] = <<c1 = "OK", c1>> /\ checks[4] = <<c2 = "OK", c2>>  OBVIOUS
<1>d. /\ checks[1][2] = "INVALID_ARGUMENT" /\ checks[3][2] = "FEATURE_NOT_AVAILABLE" /\ checks[5][2] = "INVALID_ARGUMENT"
      /\ checks[1][1] = b1
  BY <1>b
<1>e. checks[2][2] = c1 /\ checks[4][2] = c2  BY <1>c
<1>f. (checks[2][1] <=> c1 = "OK") /\ (checks[4][1] <=> c2 = "OK")  BY <1>c
<1>7. \A i \in 1..5 : ~checks[i][1] => checks[i][2] # "OK"
  <2> SUFFICES ASSUME NEW i \in 1..5, ~checks[i][1] PROVE checks[i][2] # "OK"  OBVIOUS
  <2>1. i = 1 \/ i = 2 \/ i = 3 \/ i = 4 \/ i = 5  OBVIOUS
  <2> HIDE DEF checks
  <2> QED  BY <1>d, <1>e, <1>f, <2>1
<1> HIDE DEF checks
<1>8. \A i \in 1..5 : checks[i][1]  BY <1>6, <1>7, <1>a, NoneFailed
<1>9. checks[1][1] /\ checks[2][1]  BY <1>8
<1>10. b1  BY <1>9, <1>d
<1>11. c1 = "OK"  BY <1>9, <1>f
<1> QED  BY <1>1, <1>3, <1>10, <1>11

\* A Map Local rule that passes answers with the plan's asset, its own target, or an approved file.
LEMMA MapStays ==
  ASSUME NEW m \in MapResources, build_map_rule(m) = "OK"
  PROVE  \/ resolve_map_target(m)[2] = "asset" /\ m.asset = "known" /\ m.upload.name = "plain"
         \/ resolve_map_target(m)[2] = "existing" /\ m.existing
         \/ resolve_map_target(m)[2] = "inside" /\ m.approved /\ \E p \in m.path : p.real = "inside" /\ p.file /\ p.resolves
<1>1. (m.asset # "none" => validate_asset(m.upload) = "OK") /\ resolve_map_target(m)[1] = "OK"  BY MapChecked
<1>2. m.upload.ref \in BOOLEAN /\ m.upload.base64 \in BOOLEAN  BY DEF MapResources
<1>3. m.approved \in BOOLEAN /\ m.path \in {{}} \cup {{p} : p \in Paths}  BY DEF MapResources
<1>4. CASE m.asset # "none"
  <2>1. m.upload.name = "plain"  BY <1>1, <1>2, <1>4, AssetPlain
  <2>2. m.path = {} /\ m.asset = "known" /\ resolve_map_target(m)[2] = "asset"  BY <1>1, <1>4 DEF resolve_map_target
  <2> QED  BY <2>1, <2>2
<1>5. CASE m.asset = "none" /\ m.path # {}
  <2>1. PICK p \in Paths : m.path = {p}  BY <1>3, <1>5
  <2>2. (CHOOSE q \in m.path : TRUE) = p  BY <2>1
  <2>3. resolve_map_target(m) = <<resolve_approved_path(p, m.approved), p.real>>  BY <1>5, <2>2 DEF resolve_map_target
  <2>4. PICK c, real : c = resolve_approved_path(p, m.approved) /\ real = p.real  OBVIOUS
  <2>5. resolve_map_target(m)[1] = c /\ resolve_map_target(m)[2] = real  BY <2>3, <2>4
  <2>6. m.approved /\ p.real = "inside" /\ p.file /\ p.resolves  BY <1>1, <1>3, <2>4, <2>5, PathApproved
  <2> QED  BY <2>1, <2>4, <2>5, <2>6
<1>6. CASE m.asset = "none" /\ m.path = {}  BY <1>1, <1>6 DEF resolve_map_target
<1> QED  BY <1>4, <1>5, <1>6

\* What an assertion compares holds at most one number.
LEMMA NumbersOfValues ==
  ASSUME NEW v \in Values
  PROVE  v.number = {} \/ \E n \in Int : v.number = {n}
<1>1. \A n \in Int : Number(n).number = {n}  BY DEF Number
<1>2. \A t, n : Text(t, n).number = n  BY DEF Text
<1>3. \A S : ListOf(S).number = {}  BY DEF ListOf
<1>4. CASE v \in Simple
  <2>1. \/ v = Number(1) \/ v = Number(2) \/ v = Text("1", {1}) \/ v = Text("1.0", {1}) \/ v = Text("x", {})  BY <1>4 DEF Simple
  <2> QED  BY <1>1, <1>2, <2>1
<1>5. CASE \E S : v = ListOf(S)  BY <1>3, <1>5
<1> QED  BY <1>4, <1>5 DEF Values

\* Equal values pass every comparison.
LEMMA EqualValuesCompare ==
  ASSUME NEW a \in Values, NEW b \in Values, values_equal(a, b), numeric(a, b)
  PROVE  evaluate_assertion("gte", {a}, {b}) /\ evaluate_assertion("lte", {a}, {b})
<1>1. PICK n \in Int : a.number = {n}  BY NumbersOfValues DEF numeric
<1>2. b.number = {n}  BY <1>1 DEF values_equal
<1>3. numeric_compare(a, b, {"equal", "greater"}) /\ numeric_compare(a, b, {"equal", "less"})
  BY <1>1, <1>2 DEF numeric_compare, numeric
<1>4. evaluate_assertion("gte", {a}, {b})  BY <1>3 DEF evaluate_assertion
<1>5. evaluate_assertion("lte", {a}, {b})  BY <1>3 DEF evaluate_assertion
<1> QED  BY <1>3, <1>4, <1>5

\* What an assertion that was asked answers.
LEMMA AssertionsRead ==
  ASSUME AssertionAsked
  PROVE  /\ asked.subject \in {"requestHeader", "responseHeader"} /\ asked.operator \in {"exists", "notExists"} =>
              (evaluate_assertions(asked) <=> ((asked.value # {}) <=> (asked.operator = "exists")))
         /\ evaluate_assertions(asked) => asked.value # {} \/ asked.operator = "notExists" \/ asked.subject = "queryParam"
         /\ \A a \in asked.value, b \in asked.expected :
              values_equal(a, b) /\ numeric(a, b) =>
                evaluate_assertion("gte", {a}, {b}) /\ evaluate_assertion("lte", {a}, {b})
<1>1. ASSUME asked.subject # "queryParam"
      PROVE  evaluate_assertions(asked) = evaluate_assertion(asked.operator, asked.value, asked.expected)
  <2>1. Filed(asked.subject, asked.there) = "name" /\ Lower(asked.path) = "name"  BY <1>1 DEF AssertionAsked, Filed, Lower
  <2> QED  BY <2>1 DEF evaluate_assertions
<1>2. ASSUME asked.subject \in {"requestHeader", "responseHeader"}, asked.operator \in {"exists", "notExists"}
      PROVE  evaluate_assertions(asked) <=> ((asked.value # {}) <=> (asked.operator = "exists"))
  <2>1. evaluate_assertions(asked) = evaluate_assertion(asked.operator, asked.value, asked.expected)  BY <1>1, <1>2
  <2>2. CASE asked.operator = "exists"
    <3>1. evaluate_assertion(asked.operator, asked.value, asked.expected) <=> asked.value # {}  BY <2>2 DEF evaluate_assertion
    <3> QED  BY <2>1, <2>2, <3>1
  <2>3. CASE asked.operator = "notExists"
    <3>1. evaluate_assertion(asked.operator, asked.value, asked.expected) <=> asked.value = {}  BY <2>3 DEF evaluate_assertion
    <3> QED  BY <2>1, <2>3, <3>1
  <2> QED  BY <1>2, <2>2, <2>3
<1>3. ASSUME evaluate_assertions(asked), asked.operator # "notExists", asked.subject # "queryParam"
      PROVE  asked.value # {}
  <2>1. evaluate_assertion(asked.operator, asked.value, asked.expected)  BY <1>1, <1>3
  <2>2. CASE asked.operator = "exists"  BY <2>1, <2>2 DEF evaluate_assertion
  <2>3. CASE asked.operator # "exists"
    <3>1. \E a \in asked.value : TRUE  BY <1>3, <2>1, <2>3 DEF evaluate_assertion
    <3> QED  BY <3>1
  <2> QED  BY <2>2, <2>3
<1>4. \A a \in asked.value, b \in asked.expected :
        values_equal(a, b) /\ numeric(a, b) =>
          evaluate_assertion("gte", {a}, {b}) /\ evaluate_assertion("lte", {a}, {b})
  <2> SUFFICES ASSUME NEW a \in asked.value, NEW b \in asked.expected, values_equal(a, b), numeric(a, b)
               PROVE  evaluate_assertion("gte", {a}, {b}) /\ evaluate_assertion("lte", {a}, {b})
    OBVIOUS
  <2>1. a \in Values /\ b \in Simple  BY DEF AssertionAsked
  <2>2. b \in Values  BY <2>1 DEF Values
  <2>3. PICK x \in Values, y \in Values : x = a /\ y = b  BY <2>1, <2>2
  <2>4. values_equal(x, y) /\ numeric(x, y)  BY <2>3
  <2>5. evaluate_assertion("gte", {x}, {y}) /\ evaluate_assertion("lte", {x}, {y})  BY <2>4, EqualValuesCompare
  <2> QED  BY <2>3, <2>5
<1> QED  BY <1>2, <1>3, <1>4

\* Every question of a kind that was asked gets an answer within bounds.
LEMMA AcceptedStays ==
  ASSUME PlanInv
  PROVE  AcceptedStaysInBounds
<1>0. PICK q : q = asked  OBVIOUS
<1>1. ASSUME q.kind = "plan", validate_plan_shape(q) = "OK"
      PROVE  /\ \A x, y \in Items(q) : x # y => x[3] # y[3]
             /\ q.lifecycle = "ephemeral" => Items(q) = {} /\ q.ttl \in 60..3600
  <2>1. \A x, y \in Items(q) : x # y => x[3] # y[3]  BY <1>1, ItemsApart
  <2>2. ASSUME q.lifecycle = "ephemeral" PROVE Items(q) = {} /\ q.ttl \in 60..3600
    <3>1. q.deletes = << >> /\ (\A i \in DOMAIN q.upserts : q.upserts[i] = NewRule) /\ q.ttl \in 60..3600
      BY <1>1, <2>2, PlanChecked
    <3>2. NewRule.id = "none"  BY DEF NewRule
    <3>3. DOMAIN q.deletes = {}  BY <3>1
    <3>4. Items(q) = {}  BY <3>1, <3>2, <3>3 DEF Items
    <3> QED  BY <3>1, <3>4
  <2> QED  BY <2>1, <2>2
<1>2. ASSUME q.kind = "rewrite", build_rewrite_rule(q) = "OK"
      PROVE  \E h \in Hosts : /\ \A u \in Requests : Reaches(q.pattern, "agent", u) => u.host = h
                              /\ \A t \in q.redirect : t.host = h
  BY <1>0, <1>2, RewriteStays DEF PlanInv
<1>3. ASSUME q.kind = "map", build_map_rule(q) = "OK"
      PROVE  \/ resolve_map_target(q)[2] = "asset" /\ q.asset = "known" /\ q.upload.name = "plain"
             \/ resolve_map_target(q)[2] = "existing" /\ q.existing
             \/ resolve_map_target(q)[2] = "inside" /\ q.approved /\ \E p \in q.path : p.real = "inside" /\ p.file /\ p.resolves
  <2>1. q \in MapResources  BY <1>0, <1>3 DEF PlanInv
  <2> QED  BY <1>3, <2>1, MapStays
<1>4. ASSUME q.kind = "scope", NEW u \in Requests, Reaches(q.planned, "agent", u), Reaches(q.running, q.owner, u)
      PROVE  \/ InScope(q.planned, q.running, q.same) \/ ~q.same
             \/ q.owner = "user" /\ pattern_host(q.running) # u.host /\ ~IsUnder(u.host, pattern_host(q.running))
  <2>1. PICK p \in Patterns, r \in Patterns, o \in {"agent", "user"}, b \in BOOLEAN :
          p = q.planned /\ r = q.running /\ o = q.owner /\ b = q.same
    BY <1>0, <1>4 DEF PlanInv
  <2>2. exact_pattern_host(p) = "OK" /\ (o = "agent" => exact_pattern_host(r) = "OK")  BY <1>0, <1>4, <2>1 DEF PlanInv
  <2>3. Reaches(p, "agent", u) /\ Reaches(r, o, u)  BY <1>4, <2>1
  <2>4. \/ InScope(p, r, b) \/ ~b
        \/ o = "user" /\ pattern_host(r) # u.host /\ ~IsUnder(u.host, pattern_host(r))
    BY <2>2, <2>3, ScopeCovers
  <2> QED  BY <2>1, <2>4
<1> QED  BY <1>0, <1>1, <1>2, <1>3, <1>4 DEF AcceptedStaysInBounds

\* What an agent's plan, its resources and its assertions are checked for is what
\* ChecksAreSound says, for hosts of any number of labels and
\* whatever text a pattern finds in a URL: PlanInv says that a question has
\* the fields of its kind, and the lemmas above take each list of checks apart.
THEOREM AcceptedPlansAreSound == PlanSpec => []ChecksAreSound
<1>1. PlanInit => PlanInv  BY DEF PlanInit, PlanInv
<1>2. PlanInv /\ [PlanNext]_asked => PlanInv'  BY PlanStep
<1>3. PlanInv => ChecksAreSound
  <2>1. PlanInv => AcceptedStaysInBounds  BY AcceptedStays
  <2>2. PlanInv => AssertionsReadTheExchange  BY AssertionsRead DEF PlanInv, AssertionsReadTheExchange
  <2> QED  BY <2>1, <2>2 DEF ChecksAreSound
<1> QED  BY <1>1, <1>2, <1>3, PTL DEF PlanSpec

-----------------------------------------------------------------------------
(* The verification of a change (Verification).                            *)

\* The statuses, sessions and records of a verification.
CheckStatuses == {"passed", "rule_failed", "assertion_failed", "upstream_failed", "shadowed", "insufficient_evidence", "not_matched"}
CheckModes == {"offline", "external", "proxy"}
SessionKinds == {"plain", "early", "crossHost", "replay", "evaluated", "partial"}
CheckSessions == [like : BOOLEAN, own : BOOLEAN, trace : Traces, upstream : BOOLEAN, kind : SessionKinds]
Evidences == [s : CheckSessions, place : Nat, mark : Nat]
Links == SUBSET Evidences
Places == SUBSET Nat
Stances == {"none", "active"}
CheckRecords ==
  [mode : CheckModes, todo : Nat, targets : BOOLEAN, sent : BOOLEAN, before : Places, mark : Nat, used : Seq(Links),
   statuses : Seq(CheckStatuses), overall : CheckStatuses \cup {"none"}, stood : Stances]

\* A replay bypassed the rules, so no rule left its trace on it; only an offline
\* evaluation is partial.
Replayed(q) == \A i \in 1..Len(q) : q[i].kind # "partial" /\ (q[i].kind = "replay" => q[i].trace = "none")

\* A session that shows a target rule at work, for the mode of the verification.
Shows(mode, e) ==
  /\ TargetMatched(e.s.trace) /\ ~e.s.upstream /\ e.s.kind \notin {"replay", "partial"}
  /\ mode = "external" => e.s.kind # "early"
  /\ mode = "offline" => e.s.trace # "failed"
  /\ mode = "proxy" => e.s.like /\ e.place > e.mark /\ e.s.kind # "crossHost"

\* Every request that passed has its evidence beside it; a request that is out knows every
\* session that was there; the result is drawn when all are done, of a change that stands.
Evident(c) ==
  /\ c.sent => \A n \in Nat : n > 0 /\ n <= c.mark => n \in c.before
  /\ c.overall # "none" => c.stood = "active"
  /\ c \in CheckRecords /\ Len(c.used) = Len(c.statuses)
  /\ c.sent => c.todo > 0
  /\ c.todo > 0 \/ Len(c.statuses) > 0
  /\ c.overall # "none" => c.todo = 0
  /\ \A i \in 1..Len(c.statuses) : c.statuses[i] = "passed" => c.targets /\ \E e \in c.used[i] : Shows(c.mode, e)
  /\ c.overall = "passed" => c.targets /\ \A i \in 1..Len(c.statuses) : c.statuses[i] = "passed"

\* The queue is the end of all reservations; what left it is a window old, and reservations
\* are in the order of the clock.
Ordered(q, now) == \A i \in 1..Len(q) : q[i] <= now /\ \A j \in 1..Len(q) : i < j => q[i] <= q[j]
Queued(q, all, now) ==
  \E k \in 0..Len(all) : q = SubSeq(all, k + 1, Len(all)) /\ \A i \in 1..k : now - all[i] >= Window
Limited(all) == \A i \in 1..Len(all) : i + RateLimit <= Len(all) => all[i + RateLimit] - all[i] >= Window

VerificationInv ==
  /\ vclock \in Nat /\ times \in Seq(Nat) /\ reserved \in Seq(Nat)
  /\ captured \in Seq(CheckSessions) /\ Replayed(captured)
  /\ check = NoCheck \/ Evident(check)
  /\ Ordered(reserved, vclock) /\ Queued(times, reserved, vclock) /\ Limited(reserved)

\* The queue drops its oldest reservations, exactly while they are a window old.
LEMMA PoppedAt ==
  ASSUME times \in Seq(Nat), NEW now \in Nat
  PROVE  \E k \in 0..Len(times) :
           Recent(now) = SubSeq(times, k + 1, Len(times)) /\ \A j \in 1..k : now - times[j] >= Window
<1> DEFINE Young(k) == k < Len(times) => now - times[k + 1] < Window
           E == {k \in 0..Len(times) : Young(k)}
<1>0. Len(times) \in Nat /\ Window \in Nat  BY VerificationAssumption
<1>1. \E k \in 0..Len(times) : PoppedFirst(now, Window, k)
  <2>1. E \subseteq Nat /\ Len(times) \in E  BY <1>0
  <2>2. PICK k \in E : \A m \in E : ~(<<m, k>> \in OpToRel(<, Nat))  BY <2>1, WFMin, NatLessThanWellFounded
  <2>3. \A m \in E : ~(m < k)  BY <2>1, <2>2 DEF OpToRel
  <2>4. ASSUME NEW j \in 1..k PROVE now - times[j] >= Window
    <3>0. k \in 0..Len(times)  BY <2>2
    <3>1. j - 1 \in 0..Len(times) /\ j - 1 < k /\ j - 1 < Len(times) /\ (j - 1) + 1 = j  BY <1>0, <3>0
    <3>2. ~Young(j - 1)  BY <2>3, <3>1
    <3>3. times[j] \in Nat  BY <1>0, <3>0, <3>1
    <3> QED  BY <1>0, <3>1, <3>2, <3>3
  <2> QED  BY <2>2, <2>4 DEF PoppedFirst
<1>2. PoppedFirst(now, Window, CHOOSE k \in 0..Len(times) : PoppedFirst(now, Window, k))
      /\ (CHOOSE k \in 0..Len(times) : PoppedFirst(now, Window, k)) \in 0..Len(times)
  BY <1>1
<1>3. PICK k : k = CHOOSE i \in 0..Len(times) : PoppedFirst(now, Window, i)  OBVIOUS
<1>4. k \in 0..Len(times) /\ PoppedFirst(now, Window, k)  BY <1>2, <1>3
<1>5. Recent(now) = SubSeq(times, k + 1, Len(times))  BY <1>3 DEF Recent, Popped
<1> QED  BY <1>4, <1>5 DEF PoppedFirst

\* The end of a list after its first k elements.
LEMMA EndOf ==
  ASSUME NEW S, NEW s \in Seq(S), NEW k \in 0..Len(s)
  PROVE  /\ SubSeq(s, k + 1, Len(s)) \in Seq(S) /\ Len(SubSeq(s, k + 1, Len(s))) = Len(s) - k
         /\ \A i \in 1..(Len(s) - k) : SubSeq(s, k + 1, Len(s))[i] = s[k + i]
<1>1. PICK n : n = Len(s)  OBVIOUS
<1>2. n \in Nat /\ k \in 0..n /\ k + 1 \in Int /\ n \in Int /\ \A i \in (k + 1)..n : s[i] \in S  BY <1>1
<1>3. PICK u : u = SubSeq(s, k + 1, n)  OBVIOUS
<1>4. u \in Seq(S) /\ Len(u) = (IF k + 1 <= n THEN n - (k + 1) + 1 ELSE 0)
      /\ \A i \in 1..(n - (k + 1) + 1) : u[i] = s[(k + 1) + i - 1]
  BY <1>2, <1>3, SubSeqProperties
<1>5. Len(u) = n - k  BY <1>2, <1>4
<1>6. \A i \in 1..(n - k) : u[i] = s[k + i]
  <2> SUFFICES ASSUME NEW i \in 1..(n - k) PROVE u[i] = s[k + i]  OBVIOUS
  <2>1. i \in 1..(n - (k + 1) + 1) /\ (k + 1) + i - 1 = k + i  BY <1>2
  <2> QED  BY <1>4, <2>1
<1> QED  BY <1>1, <1>3, <1>4, <1>5, <1>6

\* Slots taken while the queue has room keep the reservations of every minute within the limit.
LEMMA SlotsKeep ==
  ASSUME NEW all \in Seq(Nat), NEW q, NEW now \in Nat, Ordered(all, now), Limited(all),
         NEW K \in 0..Len(all), q = SubSeq(all, K + 1, Len(all)), \A i \in 1..K : now - all[i] >= Window,
         NEW slots \in Seq(Nat), \A i \in 1..Len(slots) : slots[i] = now,
         Len(slots) > 0 => Len(q) + Len(slots) <= RateLimit
  PROVE  /\ all \o slots \in Seq(Nat) /\ q \o slots \in Seq(Nat)
         /\ Ordered(all \o slots, now) /\ Queued(q \o slots, all \o slots, now) /\ Limited(all \o slots)
<1>0. Window \in Nat /\ RateLimit \in Nat  BY VerificationAssumption
<1>1. PICK L, m : L = Len(all) /\ m = Len(slots)  OBVIOUS
<1>2. L \in Nat /\ m \in Nat /\ K \in 0..L  BY <1>1
<1>3. PICK new \in Seq(Nat) : new = all \o slots  BY ConcatProperties
<1>4. Len(new) = L + m /\ (\A i \in 1..L : new[i] = all[i]) /\ \A i \in 1..m : new[L + i] = now  BY <1>1, <1>3
<1>5. \A i \in 1..(L + m) : i > L => new[i] = now
  <2> SUFFICES ASSUME NEW i \in 1..(L + m), i > L PROVE new[i] = now  OBVIOUS
  <2>1. i - L \in 1..m /\ L + (i - L) = i  BY <1>2
  <2> QED  BY <1>4, <2>1
<1>6. \A i \in 1..L : all[i] \in Nat /\ all[i] <= now  BY <1>1 DEF Ordered
<1>7. \A i, j \in 1..L : i < j => all[i] <= all[j]  BY <1>1 DEF Ordered
<1>8. Ordered(new, now)
  <2>1. \A i \in 1..(L + m) : new[i] <= now
    <3> SUFFICES ASSUME NEW i \in 1..(L + m) PROVE new[i] <= now  OBVIOUS
    <3>1. CASE i <= L  BY <1>2, <1>4, <1>6, <3>1
    <3>2. CASE i > L  BY <1>5, <3>2
    <3> QED  BY <1>2, <3>1, <3>2
  <2>2. ASSUME NEW i \in 1..(L + m), NEW j \in 1..(L + m), i < j PROVE new[i] <= new[j]
    <3>1. CASE j > L  BY <1>5, <2>1, <3>1
    <3>2. CASE j <= L  BY <1>2, <1>4, <1>7, <2>2, <3>2
    <3> QED  BY <1>2, <3>1, <3>2
  <2> QED  BY <1>4, <2>1, <2>2 DEF Ordered
<1>9. PICK d \in Nat, e \in Nat : d = L - K /\ e = d + m  BY <1>2
<1>10. q \in Seq(Nat) /\ Len(q) = d /\ \A i \in 1..d : q[i] = all[K + i]
  <2>1. q \in Seq(Nat) /\ Len(q) = Len(all) - K /\ \A i \in 1..(Len(all) - K) : q[i] = all[K + i]  BY EndOf
  <2>2. Len(all) - K = d  BY <1>1, <1>9
  <2> QED  BY <2>1, <2>2
<1>11. PICK rest \in Seq(Nat) : rest = q \o slots  BY <1>10, ConcatProperties
<1>14. Len(rest) = e /\ \A i \in 1..e : rest[i] = IF i <= d THEN q[i] ELSE slots[i - d]
  <2>1. Len(rest) = Len(q) + Len(slots)
        /\ \A i \in 1..(Len(q) + Len(slots)) : rest[i] = IF i <= Len(q) THEN q[i] ELSE slots[i - Len(q)]
    BY <1>10, <1>11, ConcatProperties
  <2>2. Len(q) = d /\ Len(q) + Len(slots) = e  BY <1>1, <1>9, <1>10
  <2> QED  BY <2>1, <2>2
<1>15. rest = SubSeq(new, K + 1, Len(new))
  <2>1. PICK tail : tail = SubSeq(new, K + 1, Len(new))  OBVIOUS
  <2>2. tail \in Seq(Nat) /\ Len(tail) = e /\ \A i \in 1..e : tail[i] = new[K + i]
    <3>1. K \in 0..Len(new) /\ Len(new) - K = e  BY <1>2, <1>4, <1>9
    <3>2. tail \in Seq(Nat) /\ Len(tail) = Len(new) - K /\ \A i \in 1..(Len(new) - K) : tail[i] = new[K + i]  BY <2>1, <3>1, EndOf
    <3> QED  BY <3>1, <3>2
  <2>4. ASSUME NEW i \in 1..e PROVE rest[i] = tail[i]
    <3>1. tail[i] = new[K + i] /\ K + i \in 1..(L + m)  BY <1>2, <1>9, <2>2
    <3>2. CASE i <= d
      <4>1. K + i \in 1..L /\ i \in 1..d  BY <1>2, <1>9, <3>2
      <4>2. rest[i] = q[i]  BY <1>14, <3>2
      <4> QED  BY <1>4, <1>10, <3>1, <4>1, <4>2
    <3>3. CASE i > d
      <4>1. K + i > L /\ i - d \in 1..m /\ ~(i <= d)  BY <1>2, <1>9, <3>3
      <4>2. rest[i] = slots[i - d]  BY <1>14, <4>1
      <4>3. slots[i - d] = now  BY <1>1, <4>1
      <4> QED  BY <1>5, <3>1, <4>1, <4>2, <4>3
    <3> QED  BY <1>9, <3>2, <3>3
  <2>6. rest = tail  BY <1>14, <2>2, <2>4, SeqEqual
  <2> QED  BY <2>1, <2>6
<1>12. Queued(rest, new, now)
  <2>1. \A i \in 1..K : now - new[i] >= Window
    <3> SUFFICES ASSUME NEW i \in 1..K PROVE now - new[i] >= Window  OBVIOUS
    <3>1. i \in 1..L  BY <1>2
    <3> QED  BY <1>4, <3>1
  <2>2. K \in 0..Len(new)  BY <1>2, <1>4
  <2> QED  BY <1>15, <2>1, <2>2 DEF Queued
<1>13. Limited(new)
  <2> SUFFICES ASSUME NEW i \in 1..Len(new), i + RateLimit <= Len(new) PROVE new[i + RateLimit] - new[i] >= Window  BY DEF Limited
  <2>1. CASE i + RateLimit <= L
    <3>1. i \in 1..L /\ i + RateLimit \in 1..L  BY <1>0, <1>2, <2>1
    <3> QED  BY <1>1, <1>4, <2>1, <3>1 DEF Limited
  <2>2. CASE i + RateLimit > L
    <3>1. i + RateLimit \in 1..(L + m) /\ m > 0  BY <1>0, <1>2, <1>4, <2>2
    <3>2. L - K + m <= RateLimit  BY <1>1, <1>9, <1>10, <3>1
    <3>3. i \in 1..K /\ i \in 1..L  BY <1>0, <1>2, <1>4, <3>2
    <3>4. new[i + RateLimit] = now /\ new[i] = all[i]  BY <1>4, <1>5, <2>2, <3>1, <3>3
    <3> QED  BY <3>3, <3>4
  <2> QED  BY <1>0, <1>2, <2>1, <2>2
<1> QED  BY <1>3, <1>8, <1>11, <1>12, <1>13

\* The queue of a refused or an accepted call keeps the reservations as they must be.
LEMMA ReserveKeeps ==
  ASSUME VerificationInv, NEW n \in Nat, NEW targets, BeginProxy(n, targets)
  PROVE  /\ times' \in Seq(Nat) /\ reserved' \in Seq(Nat)
         /\ Ordered(reserved', vclock) /\ Queued(times', reserved', vclock) /\ Limited(reserved')
<1>0. PICK q, all, now : q = times /\ all = reserved /\ now = vclock  OBVIOUS
<1>1. q \in Seq(Nat) /\ all \in Seq(Nat) /\ now \in Nat /\ Ordered(all, now) /\ Queued(q, all, now) /\ Limited(all)
  BY <1>0 DEF VerificationInv
<1>2. PICK k \in 0..Len(all) : q = SubSeq(all, k + 1, Len(all)) /\ \A i \in 1..k : now - all[i] >= Window  BY <1>1 DEF Queued
<1>3. PICK j \in 0..Len(q) : Recent(now) = SubSeq(q, j + 1, Len(q)) /\ \A i \in 1..j : now - q[i] >= Window
  BY <1>0, <1>1, PoppedAt
<1>4. PICK L \in Nat : L = Len(all)  BY <1>1
<1>5. PICK d \in Nat : d = L - k
  <2>1. k \in 0..L  BY <1>2, <1>4
  <2>2. L - k \in Nat  BY <1>4, <2>1
  <2> QED  BY <2>2
<1>6. Len(q) = d /\ \A i \in 1..d : q[i] = all[k + i]
  <2>1. Len(q) = Len(all) - k /\ \A i \in 1..(Len(all) - k) : q[i] = all[k + i]  BY <1>1, <1>2, EndOf
  <2> QED  BY <1>4, <1>5, <2>1
<1>7. PICK K : K = k + j  OBVIOUS
<1>8. K \in 0..Len(all) /\ k \in Nat /\ j \in 0..d  BY <1>4, <1>5, <1>6, <1>7
<1>9. PICK young : young = Recent(now)  OBVIOUS
<1>10. young = SubSeq(all, K + 1, Len(all))
  <2>1. PICK u : u = SubSeq(all, K + 1, Len(all))  OBVIOUS
  <2>2. u \in Seq(Nat) /\ Len(u) = Len(all) - K /\ \A i \in 1..(Len(all) - K) : u[i] = all[K + i]  BY <1>1, <1>8, <2>1, EndOf
  <2>3. young \in Seq(Nat) /\ Len(young) = Len(q) - j /\ \A i \in 1..(Len(q) - j) : young[i] = q[j + i]  BY <1>1, <1>3, <1>9, EndOf
  <2>4. PICK e \in Nat : e = d - j  BY <1>8
  <2>5. Len(all) - K = e /\ Len(q) - j = e  BY <1>4, <1>5, <1>6, <1>7, <1>8, <2>4
  <2>6. Len(u) = e /\ Len(young) = e /\ (\A i \in 1..e : u[i] = all[K + i]) /\ \A i \in 1..e : young[i] = q[j + i]
    BY <2>2, <2>3, <2>5
  <2>7. ASSUME NEW i \in 1..e PROVE young[i] = u[i]
    <3>1. j + i \in 1..d /\ k + (j + i) = K + i  BY <1>7, <1>8, <2>4
    <3>2. q[j + i] = all[k + (j + i)]  BY <1>6, <3>1
    <3> QED  BY <2>6, <3>1, <3>2
  <2>8. young = u  BY <2>2, <2>3, <2>6, <2>7, SeqEqual
  <2> QED  BY <2>1, <2>8
<1>11. ASSUME NEW i \in 1..K PROVE now - all[i] >= Window
  <2>1. CASE i <= k  BY <1>2, <1>8, <2>1
  <2>2. CASE i > k
    <3>1. i - k \in 1..j /\ i - k \in 1..d /\ k + (i - k) = i  BY <1>7, <1>8, <2>2
    <3>2. now - q[i - k] >= Window /\ q[i - k] = all[k + (i - k)]  BY <1>3, <1>6, <3>1
    <3> QED  BY <3>1, <3>2
  <2> QED  BY <1>8, <2>1, <2>2
<1>12. PICK slots : slots = IF WithinLimit(n) THEN [i \in 1..n |-> vclock] ELSE << >>  OBVIOUS
<1>13. /\ slots \in Seq(Nat) /\ (\A i \in 1..Len(slots) : slots[i] = now)
       /\ Len(slots) > 0 => Len(young) + Len(slots) <= RateLimit
  <2>1. CASE WithinLimit(n)
    <3>1. slots = [i \in 1..n |-> now]  BY <1>0, <1>12, <2>1
    <3>2. slots \in [1..n -> Nat]  BY <1>1, <3>1
    <3>3. slots \in Seq(Nat) /\ Len(slots) = n  BY <3>1, <3>2
    <3>4. Len(young) + n <= RateLimit  BY <1>0, <1>9, <2>1 DEF WithinLimit
    <3> QED  BY <3>1, <3>3, <3>4
  <2>2. CASE ~WithinLimit(n)
    <3>1. slots = << >>  BY <1>12, <2>2
    <3>2. slots \in Seq(Nat) /\ Len(slots) = 0  BY <3>1, EmptySeq
    <3> QED  BY <3>2
  <2> QED  BY <2>1, <2>2
<1>14. times' = young \o slots /\ reserved' = all \o slots  BY <1>0, <1>9, <1>12 DEF BeginProxy
<1>15. /\ all \o slots \in Seq(Nat) /\ young \o slots \in Seq(Nat)
       /\ Ordered(all \o slots, now) /\ Queued(young \o slots, all \o slots, now) /\ Limited(all \o slots)
  BY <1>1, <1>8, <1>10, <1>11, <1>13, SlotsKeep
<1> QED  BY <1>0, <1>14, <1>15

\* One more request with its status and its evidence.
LEMMA NotedKeeps ==
  ASSUME NEW c, Evident(c), c.todo > 0, NEW st \in CheckStatuses, NEW link \in Links,
         st = "passed" => c.targets /\ \E e \in link : Shows(c.mode, e),
         NEW d, d = [c EXCEPT !.statuses = Append(@, st), !.used = Append(@, link), !.todo = @ - 1, !.sent = FALSE]
  PROVE  Evident(d)
<1>1. /\ c \in CheckRecords /\ c.overall = "none" /\ c.todo \in Nat /\ c.targets \in BOOLEAN /\ c.mode \in CheckModes
      /\ Len(c.used) = Len(c.statuses) /\ c.used \in Seq(Links) /\ c.statuses \in Seq(CheckStatuses)
      /\ c.before \in Places /\ c.mark \in Nat /\ c.stood \in Stances
      /\ \A i \in 1..Len(c.statuses) : c.statuses[i] = "passed" => c.targets /\ \E e \in c.used[i] : Shows(c.mode, e)
  BY DEF Evident, CheckRecords
<1>2. PICK sts \in Seq(CheckStatuses), uses \in Seq(Links), n \in Nat :
        sts = Append(c.statuses, st) /\ uses = Append(c.used, link) /\ n = Len(c.statuses)
  <2>1. Append(c.statuses, st) \in Seq(CheckStatuses) /\ Append(c.used, link) \in Seq(Links)  BY <1>1, AppendProperties
  <2>2. Len(c.statuses) \in Nat  BY <1>1
  <2> QED  BY <2>1, <2>2
<1>3. /\ d.mode = c.mode /\ d.todo = c.todo - 1 /\ d.targets = c.targets /\ d.sent = FALSE /\ d.before = c.before
      /\ d.mark = c.mark /\ d.stood = c.stood /\ d.used = uses /\ d.statuses = sts /\ d.overall = "none"
  BY <1>1, <1>2 DEF CheckRecords
<1>4. d = [mode |-> c.mode, todo |-> c.todo - 1, targets |-> c.targets, sent |-> FALSE, before |-> c.before,
           mark |-> c.mark, used |-> uses, statuses |-> sts, overall |-> "none", stood |-> c.stood]
  BY <1>1, <1>2 DEF CheckRecords
<1>5. d \in CheckRecords
  <2>1. c.todo - 1 \in Nat  BY <1>1
  <2>2. PICK t \in Nat : t = c.todo - 1  BY <2>1
  <2>3. PICK mode \in CheckModes, targets \in BOOLEAN, before \in Places, mark \in Nat, stood \in Stances :
          mode = c.mode /\ targets = c.targets /\ before = c.before /\ mark = c.mark /\ stood = c.stood
    BY <1>1
  <2>5. PICK no \in BOOLEAN : no = FALSE  OBVIOUS
  <2>6. PICK open \in CheckStatuses \cup {"none"} : open = "none"  OBVIOUS
  <2>4. d = [mode |-> mode, todo |-> t, targets |-> targets, sent |-> no, before |-> before,
             mark |-> mark, used |-> uses, statuses |-> sts, overall |-> open, stood |-> stood]
    BY <1>4, <2>2, <2>3, <2>5, <2>6
  <2> QED  BY <2>4 DEF CheckRecords
<1>6. Len(sts) = n + 1 /\ Len(uses) = n + 1 /\ sts[n + 1] = st /\ uses[n + 1] = link
      /\ \A i \in 1..n : sts[i] = c.statuses[i] /\ uses[i] = c.used[i]
  BY <1>1, <1>2, AppendProperties
<1>7. ASSUME NEW i \in 1..(n + 1), sts[i] = "passed" PROVE c.targets /\ \E e \in uses[i] : Shows(c.mode, e)
  <2>1. CASE i = n + 1  BY <1>6, <1>7, <2>1
  <2>2. CASE i \in 1..n
    <3>1. c.statuses[i] = "passed" /\ uses[i] = c.used[i]  BY <1>6, <1>7, <2>2
    <3>2. c.targets /\ \E e \in c.used[i] : Shows(c.mode, e)  BY <1>1, <1>2, <2>2, <3>1
    <3> QED  BY <3>1, <3>2
  <2> QED  BY <2>1, <2>2
<1> QED  BY <1>3, <1>5, <1>6, <1>7 DEF Evident

\* A matching status passes only when a target rule left its trace.
LEMMA MatchPasses ==
  ASSUME NEW targets \in BOOLEAN, NEW trace \in Traces
  PROVE  /\ classify_match_status(targets, trace) \in CheckStatuses
         /\ classify_match_status(targets, trace) = "passed" => targets /\ TargetMatched(trace)
BY DEF classify_match_status, CheckStatuses

\* Assertions only take a pass away.
LEMMA AssertedStatus ==
  ASSUME NEW st \in CheckStatuses, NEW hold \in BOOLEAN
  PROVE  Asserted(st, hold) \in CheckStatuses /\ (Asserted(st, hold) = "passed" => st = "passed")
BY DEF Asserted, CheckStatuses

\* What an offline evaluation that passes has seen.
LEMMA OfflinePasses ==
  ASSUME NEW targets \in BOOLEAN, NEW trace \in Traces, NEW hold \in BOOLEAN, NEW evaluated \in BOOLEAN
  PROVE  /\ OfflineStatus(targets, trace, hold, evaluated) \in CheckStatuses
         /\ OfflineStatus(targets, trace, hold, evaluated) = "passed" => targets /\ trace = "target" /\ evaluated
<1>1. PICK first \in CheckStatuses : first = IF trace = "failed" THEN "rule_failed" ELSE classify_match_status(targets, trace)
  BY MatchPasses DEF CheckStatuses
<1>2. PICK st \in CheckStatuses : st = Asserted(first, hold) /\ (st = "passed" => first = "passed")  BY AssertedStatus
<1>3. st = "passed" => targets /\ trace = "target"  BY <1>1, <1>2, MatchPasses DEF TargetMatched
<1>4. OfflineStatus(targets, trace, hold, evaluated) =
        IF ~evaluated /\ st \in {"passed", "not_matched", "shadowed"} THEN "insufficient_evidence" ELSE st
  BY <1>1, <1>2 DEF OfflineStatus
<1> QED  BY <1>3, <1>4 DEF CheckStatuses

\* What a session of a client that passes has been through.
LEMMA ExternalPasses ==
  ASSUME NEW targets \in BOOLEAN, NEW s \in CheckSessions, NEW hold \in BOOLEAN
  PROVE  /\ ExternalStatus(targets, s, hold) \in CheckStatuses
         /\ ExternalStatus(targets, s, hold) = "passed" => targets /\ TargetMatched(s.trace) /\ ~s.upstream
<1>0. s.trace \in Traces /\ s.upstream \in BOOLEAN  BY DEF CheckSessions
<1>1. PICK first \in CheckStatuses : first = IF s.upstream THEN "upstream_failed" ELSE classify_match_status(targets, s.trace)
  BY <1>0, MatchPasses DEF CheckStatuses
<1>2. PICK st \in CheckStatuses : st = Asserted(first, hold) /\ (st = "passed" => first = "passed")  BY AssertedStatus
<1>3. st = "passed" => targets /\ TargetMatched(s.trace) /\ ~s.upstream  BY <1>0, <1>1, <1>2, MatchPasses
<1>4. ExternalStatus(targets, s, hold) = st  BY <1>1, <1>2 DEF ExternalStatus
<1> QED  BY <1>3, <1>4

\* What the session found for a proxied request that passes has been through.
LEMMA ProxyPasses ==
  ASSUME NEW targets \in BOOLEAN, NEW s \in CheckSessions, NEW hold \in BOOLEAN
  PROVE  /\ ProxyStatus(targets, {s}, hold) \in CheckStatuses
         /\ ProxyStatus(targets, {s}, hold) = "passed" =>
              targets /\ TargetMatched(s.trace) /\ ~s.upstream /\ s.kind # "crossHost"
<1>0. s.trace \in Traces /\ s.upstream \in BOOLEAN  BY DEF CheckSessions
<1>1. PICK first \in CheckStatuses :
        first = IF s.kind = "crossHost" THEN "rule_failed"
                ELSE IF s.upstream THEN "upstream_failed" ELSE classify_match_status(targets, s.trace)
  BY <1>0, MatchPasses DEF CheckStatuses
<1>2. PICK st \in CheckStatuses : st = Asserted(first, hold) /\ (st = "passed" => first = "passed")  BY AssertedStatus
<1>3. st = "passed" => targets /\ TargetMatched(s.trace) /\ ~s.upstream /\ s.kind # "crossHost"  BY <1>0, <1>1, <1>2, MatchPasses
<1>4. (CHOOSE x \in {s} : TRUE) = s /\ {s} # {}  OBVIOUS
<1>5. ProxyStatus(targets, {s}, hold) = st  BY <1>1, <1>2, <1>4 DEF ProxyStatus
<1> QED  BY <1>3, <1>5

\* A check changes and everything else stays.
LEMMA CheckMoves ==
  ASSUME VerificationInv, UNCHANGED <<vclock, times, reserved, captured>>, check' = NoCheck \/ Evident(check')
  PROVE  VerificationInv'
BY DEF VerificationInv

\* A verification that has just begun.
LEMMA StartedIsEvident ==
  ASSUME NEW mode \in CheckModes, NEW n \in Nat \ {0}, NEW targets \in BOOLEAN
  PROVE  Evident(Started(mode, n, targets))
<1>1. PICK c : c = Started(mode, n, targets)  OBVIOUS
<1>2. PICK nothing \in Seq(Links), unsaid \in Seq(CheckStatuses) : nothing = << >> /\ unsaid = << >>  BY EmptySeq
<1>3. PICK nowhere \in Places : nowhere = {}  BY DEF Places
<1>4. PICK no \in BOOLEAN : no = FALSE  OBVIOUS
<1>5. PICK open \in CheckStatuses \cup {"none"}, yet \in Stances, zero \in Nat : open = "none" /\ yet = "none" /\ zero = 0
  BY DEF Stances
<1>6. c = [mode |-> mode, todo |-> n, targets |-> targets, sent |-> no, before |-> nowhere, mark |-> zero, used |-> nothing,
           statuses |-> unsaid, overall |-> open, stood |-> yet]
  BY <1>1, <1>2, <1>3, <1>4, <1>5 DEF Started
<1>7. c \in CheckRecords  BY <1>6 DEF CheckRecords
<1>8. Len(nothing) = 0 /\ Len(unsaid) = 0  BY <1>2
<1>9. c.used = nothing /\ c.statuses = unsaid /\ c.sent = FALSE /\ c.overall = "none" /\ c.todo > 0  BY <1>4, <1>5, <1>6
<1> QED  BY <1>1, <1>7, <1>8, <1>9 DEF Evident

\* A verification under way that moves is a record.
LEMMA UnderWay ==
  ASSUME VerificationInv, NEW c, c = check, c.mode \in CheckModes
  PROVE  Evident(c) /\ c.targets \in BOOLEAN /\ c.todo \in Nat /\ c.mark \in Nat /\ c.used \in Seq(Links) /\ c.statuses \in Seq(CheckStatuses)
<1>1. NoCheck.mode = "none"  BY DEF NoCheck
<1>2. Evident(c)  BY <1>1 DEF VerificationInv, CheckModes
<1> QED  BY <1>2 DEF Evident, CheckRecords

\* A request is evaluated offline.
LEMMA OfflineKeeps ==
  ASSUME VerificationInv, NEW trace \in Traces, NEW hold \in BOOLEAN, NEW evaluated \in BOOLEAN,
         OfflineRequest(trace, hold, evaluated)
  PROVE  VerificationInv'
<1>0. PICK c, d : c = check /\ d = check'  OBVIOUS
<1>1. c.mode = "offline" /\ c.todo > 0  BY <1>0 DEF OfflineRequest
<1>2. Evident(c) /\ c.targets \in BOOLEAN  BY <1>0, <1>1, UnderWay DEF CheckModes
<1>3. PICK kind \in SessionKinds : kind = IF evaluated THEN "evaluated" ELSE "partial"  BY DEF SessionKinds
<1>4. PICK s : s = Session(TRUE, TRUE, trace, FALSE, kind)  OBVIOUS
<1>5. s = [like |-> TRUE, own |-> TRUE, trace |-> trace, upstream |-> FALSE, kind |-> kind]  BY <1>4 DEF Session
<1>6. s \in CheckSessions /\ s.trace = trace /\ s.upstream = FALSE /\ s.kind = kind  BY <1>5 DEF CheckSessions
<1>7. PICK st \in CheckStatuses : st = OfflineStatus(c.targets, trace, hold, evaluated)
                             /\ (st = "passed" => c.targets /\ trace = "target" /\ evaluated)
  BY <1>2, OfflinePasses
<1>8. PICK e, link : e = Seen(s, 0, 0) /\ link = {e}  OBVIOUS
<1>9. e \in Evidences /\ e.s = s /\ link \in Links /\ e \in link  BY <1>6, <1>8 DEF Links, Evidences, Seen
<1>10. st = "passed" => c.targets /\ Shows(c.mode, e)  BY <1>1, <1>3, <1>6, <1>7, <1>9 DEF Shows, TargetMatched
<1>11. d = [c EXCEPT !.statuses = Append(@, st), !.used = Append(@, link), !.todo = @ - 1, !.sent = FALSE]
  BY <1>0, <1>3, <1>4, <1>7, <1>8 DEF OfflineRequest, Noted
<1>12. Evident(d)  BY <1>1, <1>2, <1>9, <1>10, <1>11, NotedKeeps
<1> QED  BY <1>0, <1>12, CheckMoves DEF OfflineRequest

\* A client's session is read.
LEMMA ExternalKeeps ==
  ASSUME VerificationInv, NEW i \in DOMAIN captured, NEW hold \in BOOLEAN, ExternalSession(i, hold)
  PROVE  VerificationInv'
<1>0. PICK c, d, s : c = check /\ d = check' /\ s = captured[i]  OBVIOUS
<1>1. c.mode = "external" /\ c.todo > 0  BY <1>0 DEF ExternalSession
<1>2. Evident(c) /\ c.targets \in BOOLEAN  BY <1>0, <1>1, UnderWay DEF CheckModes
<1>3. s \in CheckSessions  BY <1>0 DEF VerificationInv
<1>4. CASE Admissible(s)
  <2>1. PICK st \in CheckStatuses : st = ExternalStatus(c.targets, s, hold)
                               /\ (st = "passed" => c.targets /\ TargetMatched(s.trace) /\ ~s.upstream)
    BY <1>2, <1>3, ExternalPasses
  <2>2. PICK e, link : e = Seen(s, i, 0) /\ link = {e}  OBVIOUS
  <2>3. e \in Evidences /\ e.s = s /\ link \in Links /\ e \in link
    <3>1. i \in Nat  BY DEF VerificationInv
    <3> QED  BY <1>3, <2>2, <3>1 DEF Links, Evidences, Seen
  <2>4. s.kind # "partial"  BY <1>0 DEF VerificationInv, Replayed
  <2>5. st = "passed" => c.targets /\ Shows(c.mode, e)  BY <1>1, <1>4, <2>1, <2>3, <2>4 DEF Shows, Admissible
  <2>6. d = [c EXCEPT !.statuses = Append(@, st), !.used = Append(@, link), !.todo = @ - 1, !.sent = FALSE]
    BY <1>0, <1>4, <2>1, <2>2 DEF ExternalSession, Noted
  <2>7. Evident(d)  BY <1>1, <1>2, <2>3, <2>5, <2>6, NotedKeeps
  <2> QED  BY <1>0, <2>7, CheckMoves DEF ExternalSession
<1>5. CASE ~Admissible(s)
  <2>1. d = NoCheck  BY <1>0, <1>5 DEF ExternalSession
  <2> QED  BY <1>0, <2>1, CheckMoves DEF ExternalSession
<1> QED  BY <1>4, <1>5

\* A session is found for a request that went through the proxy.
LEMMA LinkKeeps ==
  ASSUME VerificationInv, NEW i \in DOMAIN captured, NEW hold \in BOOLEAN, Link(i, hold)
  PROVE  VerificationInv'
<1>0. PICK c, d, s : c = check /\ d = check' /\ s = captured[i]  OBVIOUS
<1>1. c.mode = "proxy" /\ c.sent /\ s.like /\ i \notin c.before  BY <1>0 DEF Link, Findable
<1>2. Evident(c) /\ c.targets \in BOOLEAN /\ c.mark \in Nat  BY <1>0, <1>1, UnderWay DEF CheckModes
<1>3. c.todo > 0  BY <1>1, <1>2 DEF Evident
<1>4. s \in CheckSessions /\ (s.kind = "replay" => s.trace = "none")  BY <1>0 DEF VerificationInv, Replayed
<1>5. PICK st \in CheckStatuses :
        st = ProxyStatus(c.targets, {s}, hold)
        /\ (st = "passed" => c.targets /\ TargetMatched(s.trace) /\ ~s.upstream /\ s.kind # "crossHost")
  BY <1>2, <1>4, ProxyPasses
<1>6. PICK e, link : e = Seen(s, i, c.mark) /\ link = {e}  OBVIOUS
<1>7. e \in Evidences /\ e.s = s /\ e.place > e.mark /\ link \in Links /\ e \in link
  <2>1. i \in Nat /\ i > 0  BY DEF VerificationInv
  <2>2. i > c.mark  BY <1>1, <1>2, <2>1 DEF Evident
  <2>3. e.s = s /\ e.place = i /\ e.mark = c.mark /\ e \in Evidences  BY <1>2, <1>4, <1>6, <2>1 DEF Evidences, Seen
  <2> QED  BY <1>6, <2>2, <2>3 DEF Links
<1>8. s.kind # "partial"  BY <1>0 DEF VerificationInv, Replayed
<1>9. st = "passed" => c.targets /\ Shows(c.mode, e)  BY <1>1, <1>4, <1>5, <1>7, <1>8 DEF Shows, TargetMatched
<1>10. d = [c EXCEPT !.statuses = Append(@, st), !.used = Append(@, link), !.todo = @ - 1, !.sent = FALSE]
  BY <1>0, <1>5, <1>6 DEF Link, Noted
<1>11. Evident(d)  BY <1>2, <1>3, <1>7, <1>9, <1>10, NotedKeeps
<1> QED  BY <1>0, <1>11, CheckMoves DEF Link

\* None is found in time.
LEMMA LinkNoneKeeps ==
  ASSUME VerificationInv, NEW hold \in BOOLEAN, LinkNone(hold)
  PROVE  VerificationInv'
<1>0. PICK c, d : c = check /\ d = check'  OBVIOUS
<1>1. c.mode = "proxy" /\ c.sent  BY <1>0 DEF LinkNone
<1>2. Evident(c) /\ c.targets \in BOOLEAN  BY <1>0, <1>1, UnderWay DEF CheckModes
<1>3. c.todo > 0  BY <1>1, <1>2 DEF Evident
<1>4. PICK st \in CheckStatuses : st = "insufficient_evidence"  BY DEF CheckStatuses
<1>5. PICK link \in Links : link = {}  BY DEF Links
<1>6. d = [c EXCEPT !.statuses = Append(@, st), !.used = Append(@, link), !.todo = @ - 1, !.sent = FALSE]
  BY <1>0, <1>4, <1>5 DEF LinkNone, Noted, ProxyStatus
<1>7. Evident(d)  BY <1>2, <1>3, <1>4, <1>6, NotedKeeps
<1> QED  BY <1>0, <1>7, CheckMoves DEF LinkNone

\* A request goes out; what is already captured will not be taken for its session.
LEMMA SendKeeps ==
  ASSUME VerificationInv, SendRequest
  PROVE  VerificationInv'
<1>0. PICK c, d : c = check /\ d = check'  OBVIOUS
<1>1. c.mode = "proxy" /\ c.todo > 0  BY <1>0 DEF SendRequest
<1>2. Evident(c)  BY <1>0, <1>1, UnderWay DEF CheckModes
<1>3. PICK b, n : b = DOMAIN captured /\ n = Len(captured)  OBVIOUS
<1>4. b \in Places /\ n \in Nat /\ b = 1..n  BY <1>3 DEF VerificationInv, Places
<1>5. d = [c EXCEPT !.sent = TRUE, !.before = b, !.mark = n]  BY <1>0, <1>3 DEF SendRequest
<1>6. c \in CheckRecords  BY <1>2 DEF Evident
<1>7. d \in CheckRecords  BY <1>4, <1>5, <1>6 DEF CheckRecords
<1>8. /\ d.mode = c.mode /\ d.todo = c.todo /\ d.targets = c.targets /\ d.used = c.used /\ d.statuses = c.statuses
      /\ d.overall = c.overall /\ d.stood = c.stood /\ d.before = b /\ d.mark = n
  BY <1>5, <1>6 DEF CheckRecords
<1>9. Evident(d)  BY <1>1, <1>2, <1>4, <1>7, <1>8 DEF Evident
<1> QED  BY <1>0, <1>9, CheckMoves DEF SendRequest

\* The result passes when every status does.
LEMMA OverallPasses ==
  ASSUME NEW sts \in Seq(CheckStatuses)
  PROVE  /\ Overall(sts) \in CheckStatuses
         /\ Overall(sts) = "passed" => \A i \in 1..Len(sts) : sts[i] = "passed"
<1>1. PICK seen : seen = {sts[i] : i \in DOMAIN sts}  OBVIOUS
<1>2. PICK bad : bad = {i \in DOMAIN Gravest : Gravest[i] \in seen}  OBVIOUS
<1>3. Overall(sts) = IF seen \subseteq {"passed"} THEN "passed"
                     ELSE IF bad = {} THEN "not_matched" ELSE Gravest[CHOOSE i \in bad : \A j \in bad : i <= j]
  BY <1>1, <1>2 DEF Overall
<1>4. DOMAIN Gravest = 1..5 /\ \A i \in 1..5 : Gravest[i] \in CheckStatuses /\ Gravest[i] # "passed"
  BY DEF Gravest, CheckStatuses
<1>5. ASSUME bad # {} PROVE (CHOOSE i \in bad : \A j \in bad : i <= j) \in 1..5
  <2>1. bad \subseteq 1..5  BY <1>2, <1>4
  <2>0. bad \subseteq Nat  BY <2>1
  <2>2. PICK k \in bad : \A m \in bad : ~(<<m, k>> \in OpToRel(<, Nat))  BY <1>5, <2>0, WFMin, NatLessThanWellFounded
  <2>3. \A m \in bad : ~(m < k)  BY <2>0, <2>2 DEF OpToRel
  <2>4. \A m \in bad : k <= m  BY <2>1, <2>3
  <2> QED  BY <2>1, <2>4
<1>6. seen \subseteq {"passed"} => \A i \in 1..Len(sts) : sts[i] = "passed"  BY <1>1
<1>7. CASE seen \subseteq {"passed"}  BY <1>3, <1>6, <1>7 DEF CheckStatuses
<1>8. CASE ~(seen \subseteq {"passed"}) /\ bad = {}  BY <1>3, <1>8 DEF CheckStatuses
<1>9. CASE ~(seen \subseteq {"passed"}) /\ bad # {}  BY <1>3, <1>4, <1>5, <1>9
<1> QED  BY <1>7, <1>8, <1>9

\* The result is drawn from the statuses; a verification with targets has one at least.
LEMMA FinishCheckKeeps ==
  ASSUME VerificationInv, FinishCheck
  PROVE  VerificationInv'
<1>0. PICK c, d : c = check /\ d = check'  OBVIOUS
<1>1. c # NoCheck /\ c.todo = 0 /\ c.overall = "none"  BY <1>0 DEF FinishCheck
<1>2. Evident(c)  BY <1>0, <1>1 DEF VerificationInv
<1>3. c \in CheckRecords /\ c.statuses \in Seq(CheckStatuses)  BY <1>2 DEF Evident, CheckRecords
<1>4. PICK o \in CheckStatuses : o = Overall(c.statuses) /\ (o = "passed" => \A i \in 1..Len(c.statuses) : c.statuses[i] = "passed")
  BY <1>3, OverallPasses
<1>11. CASE d = NoCheck  BY <1>0, <1>11, CheckMoves DEF FinishCheck
<1>12. d = NoCheck \/ d = [c EXCEPT !.overall = o, !.stood = "active"]  BY <1>0, <1>4 DEF FinishCheck
<1> SUFFICES ASSUME d = [c EXCEPT !.overall = o, !.stood = "active"] PROVE VerificationInv'  BY <1>11, <1>12
<1>5. d = [c EXCEPT !.overall = o, !.stood = "active"]  OBVIOUS
<1>6. d \in CheckRecords  BY <1>3, <1>4, <1>5 DEF CheckRecords, Stances
<1>7. /\ d.mode = c.mode /\ d.todo = c.todo /\ d.targets = c.targets /\ d.used = c.used /\ d.statuses = c.statuses
      /\ d.overall = o /\ d.sent = c.sent /\ d.stood = "active" /\ d.mark = c.mark /\ d.before = c.before
  BY <1>3, <1>5 DEF CheckRecords
<1>8. Len(c.statuses) > 0  BY <1>1, <1>2 DEF Evident
<1>9. o = "passed" => c.targets
  <2>1. o = "passed" => c.statuses[1] = "passed" /\ 1 \in 1..Len(c.statuses)  BY <1>3, <1>4, <1>8
  <2> QED  BY <1>2, <2>1 DEF Evident
<1>10. Evident(d)  BY <1>1, <1>2, <1>4, <1>6, <1>7, <1>9 DEF Evident
<1> QED  BY <1>0, <1>10, CheckMoves DEF FinishCheck

\* A session is captured.
LEMMA CaptureKeeps ==
  ASSUME VerificationInv, NEW s \in Capturable, Capture(s)
  PROVE  VerificationInv'
<1>1. s \in CheckSessions /\ s.kind # "partial" /\ (s.kind = "replay" => s.trace = "none")
  <2>1. ASSUME NEW l \in BOOLEAN, NEW o \in BOOLEAN, NEW t \in Traces, NEW u \in BOOLEAN, NEW k \in SessionKinds,
               s = Session(l, o, t, u, k)
        PROVE  s \in CheckSessions /\ s.kind = k /\ s.trace = t
    BY <2>1 DEF Session, CheckSessions
  <2>2. CASE \E l, o \in BOOLEAN, t \in {"none", "target"} : s = Session(l, o, t, FALSE, "plain")
    <3>1. PICK l \in BOOLEAN, o \in BOOLEAN, t \in {"none", "target"} : s = Session(l, o, t, FALSE, "plain")  BY <2>2
    <3> QED  BY <2>1, <3>1 DEF SessionKinds, Traces
  <2>3. CASE \E t \in {"other", "failed"} : s = Session(TRUE, TRUE, t, FALSE, "plain")
    <3>1. PICK t \in {"other", "failed"} : s = Session(TRUE, TRUE, t, FALSE, "plain")  BY <2>3
    <3> QED  BY <2>1, <3>1 DEF SessionKinds, Traces
  <2>4. CASE s = Session(TRUE, TRUE, "target", TRUE, "plain")  BY <2>1, <2>4 DEF SessionKinds, Traces
  <2>5. CASE \E k \in {"early", "crossHost"} : s = Session(TRUE, FALSE, "target", FALSE, k)
    <3>1. PICK k \in {"early", "crossHost"} : s = Session(TRUE, FALSE, "target", FALSE, k)  BY <2>5
    <3> QED  BY <2>1, <3>1 DEF SessionKinds, Traces
  <2>6. CASE s = Session(TRUE, FALSE, "none", FALSE, "replay")  BY <2>1, <2>6 DEF SessionKinds, Traces
  <2>7. ASSUME s \in {Session(p[1], p[2], p[3], FALSE, "plain") : p \in BOOLEAN \X BOOLEAN \X {"none", "target"}}
        PROVE  \E l, o \in BOOLEAN, t \in {"none", "target"} : s = Session(l, o, t, FALSE, "plain")
    <3>1. PICK p \in BOOLEAN \X BOOLEAN \X {"none", "target"} : s = Session(p[1], p[2], p[3], FALSE, "plain")  BY <2>7
    <3>2. p[1] \in BOOLEAN /\ p[2] \in BOOLEAN /\ p[3] \in {"none", "target"}  OBVIOUS
    <3> QED  BY <3>1, <3>2
  <2> QED  BY <2>2, <2>3, <2>4, <2>5, <2>6, <2>7 DEF Capturable
<1>2. PICK q, p : q = captured /\ p = captured'  OBVIOUS
<1>3. q \in Seq(CheckSessions) /\ Replayed(q) /\ p = Append(q, s)  BY <1>2 DEF VerificationInv, Capture
<1>4. p \in Seq(CheckSessions)  BY <1>1, <1>3, AppendProperties
<1>5. Replayed(p)
  <2>1. Len(q) \in Nat /\ Len(p) = Len(q) + 1 /\ p[Len(q) + 1] = s /\ \A i \in 1..Len(q) : p[i] = q[i]
    BY <1>1, <1>3, AppendProperties
  <2>2. ASSUME NEW i \in 1..Len(p) PROVE p[i].kind # "partial" /\ (p[i].kind = "replay" => p[i].trace = "none")
    <3>1. CASE i = Len(q) + 1  BY <1>1, <2>1, <3>1
    <3>2. CASE i \in 1..Len(q)  BY <1>3, <2>1, <3>2 DEF Replayed
    <3> QED  BY <2>1, <3>1, <3>2
  <2> QED  BY <2>2 DEF Replayed
<1> QED  BY <1>2, <1>4, <1>5 DEF VerificationInv, Capture

\* Time passes: what was a window old stays so.
LEMMA TickKeeps ==
  ASSUME VerificationInv, TickClock
  PROVE  VerificationInv'
<1>0. PICK q, all, now, then : q = times /\ all = reserved /\ now = vclock /\ then = now + 1  OBVIOUS
<1>1. all \in Seq(Nat) /\ now \in Nat /\ Ordered(all, now) /\ Queued(q, all, now) /\ Window \in Nat
  BY <1>0, VerificationAssumption DEF VerificationInv
<1>2. \A i \in 1..Len(all) : all[i] \in Nat  BY <1>1
<1>3. Ordered(all, then)  BY <1>0, <1>1, <1>2 DEF Ordered
<1>4. PICK k \in 0..Len(all) : q = SubSeq(all, k + 1, Len(all)) /\ \A i \in 1..k : now - all[i] >= Window  BY <1>1 DEF Queued
<1>5. \A i \in 1..k : i \in 1..Len(all)
  <2>1. Len(all) \in Nat  BY <1>1
  <2> QED  BY <1>4, <2>1
<1>6. \A i \in 1..k : then - all[i] >= Window  BY <1>0, <1>1, <1>2, <1>4, <1>5
<1>7. Queued(q, all, then)  BY <1>4, <1>6 DEF Queued
<1>8. vclock' = then /\ then \in Nat /\ times' = q /\ reserved' = all /\ UNCHANGED <<captured, check>>  BY <1>0, <1>1 DEF TickClock
<1> QED  BY <1>0, <1>1, <1>3, <1>7, <1>8 DEF VerificationInv

\* A verification through the proxy begins, or is refused with or without its slots.
LEMMA BeginProxyKeeps ==
  ASSUME VerificationInv, NEW n \in Nat \ {0}, NEW targets \in BOOLEAN, BeginProxy(n, targets)
  PROVE  VerificationInv'
<1>1. /\ times' \in Seq(Nat) /\ reserved' \in Seq(Nat)
      /\ Ordered(reserved', vclock) /\ Queued(times', reserved', vclock) /\ Limited(reserved')
  BY ReserveKeeps
<1>2. vclock' = vclock /\ captured' = captured /\ check = NoCheck  BY DEF BeginProxy
<1>3. check' = Started("proxy", n, targets) \/ check' = check  BY DEF BeginProxy
<1>4. check' = NoCheck \/ Evident(check')  BY <1>2, <1>3, StartedIsEvident DEF CheckModes
<1> QED  BY <1>1, <1>2, <1>4 DEF VerificationInv

\* Every step of a verification keeps the invariant.
LEMMA VerificationStep ==
  ASSUME VerificationInv, [VerificationNext]_verificationVars
  PROVE  VerificationInv'
<1>1. CASE UNCHANGED verificationVars  BY <1>1 DEF VerificationInv, verificationVars
<1>2. ASSUME NEW n \in 1..MaxRequests, NEW targets \in BOOLEAN,
             BeginOffline(n, targets) \/ BeginExternal(n, targets) \/ BeginProxy(n, targets)
      PROVE  VerificationInv'
  <2>1. n \in Nat \ {0}  BY VerificationAssumption
  <2>2. CASE BeginProxy(n, targets)  BY <2>1, <2>2, BeginProxyKeeps
  <2>3. CASE BeginOffline(n, targets)
    <3>1. check' = Started("offline", n, targets) /\ UNCHANGED <<vclock, times, reserved, captured>>  BY <2>3 DEF BeginOffline
    <3> QED  BY <2>1, <3>1, StartedIsEvident, CheckMoves DEF CheckModes
  <2>4. CASE BeginExternal(n, targets)
    <3>1. check' = Started("external", n, targets) /\ UNCHANGED <<vclock, times, reserved, captured>>  BY <2>4 DEF BeginExternal
    <3> QED  BY <2>1, <3>1, StartedIsEvident, CheckMoves DEF CheckModes
  <2> QED  BY <1>2, <2>2, <2>3, <2>4
<1>3. ASSUME NEW t \in Traces, NEW hold \in BOOLEAN, NEW evaluated \in BOOLEAN, OfflineRequest(t, hold, evaluated)
      PROVE  VerificationInv'
  BY <1>3, OfflineKeeps
<1>4. ASSUME NEW i \in DOMAIN captured, NEW hold \in BOOLEAN, ExternalSession(i, hold) \/ Link(i, hold)
      PROVE  VerificationInv'
  BY <1>4, ExternalKeeps, LinkKeeps
<1>5. ASSUME NEW hold \in BOOLEAN, LinkNone(hold) PROVE VerificationInv'  BY <1>5, LinkNoneKeeps
<1>6. CASE SendRequest  BY <1>6, SendKeeps
<1>7. CASE SendFails  BY <1>7, CheckMoves DEF SendFails
<1>8. ASSUME NEW s \in Capturable, Capture(s) PROVE VerificationInv'  BY <1>8, CaptureKeeps
<1>9. CASE FinishCheck  BY <1>9, FinishCheckKeeps
<1>10. CASE EndCheck  BY <1>10, CheckMoves DEF EndCheck
<1>11. CASE TickClock  BY <1>11, TickKeeps
<1>12. CASE ChangeMoves  BY <1>12 DEF ChangeMoves, VerificationInv
<1> QED  BY <1>1, <1>2, <1>3, <1>4, <1>5, <1>6, <1>7, <1>8, <1>9, <1>10, <1>11, <1>12 DEF VerificationNext

\* For any number of requests, sessions and clients, any limit and any window: a change is
\* reported as verified only while it stands and on evidence for every request (where a rule
\* that matched and failed counts, offline mode excepted), and no minute sees more slots
\* reserved than the limit, refused calls included (VerifiedOnEvidence).  VerificationInv
\* keeps the evidence of each passed request beside its status, and the queue as the end of
\* all reservations whose missing ones are a window old.
THEOREM VerifiedOnlyOnEvidence == VerificationSpec => []VerifiedOnEvidence
<1>1. VerificationInit => VerificationInv
  <2> SUFFICES ASSUME VerificationInit PROVE VerificationInv  OBVIOUS
  <2>1. vclock = 0 /\ times = << >> /\ reserved = << >> /\ captured = << >> /\ check = NoCheck  BY DEF VerificationInit
  <2>2. PICK none \in Seq(Nat), bare \in Seq(CheckSessions) : none = << >> /\ bare = << >>  BY EmptySeq
  <2>3. Len(none) = 0 /\ Len(bare) = 0  BY <2>2
  <2>4. Ordered(none, 0) /\ Limited(none) /\ Replayed(bare)  BY <2>3 DEF Ordered, Limited, Replayed
  <2>5. Queued(none, none, 0)
    <3>1. SubSeq(none, 0 + 1, Len(none)) = none  BY <2>3, SubSeqFull
    <3> QED  BY <2>3, <3>1 DEF Queued
  <2> QED  BY <2>1, <2>2, <2>4, <2>5 DEF VerificationInv
<1>2. VerificationInv /\ [VerificationNext]_verificationVars => VerificationInv'  BY VerificationStep
<1>3. VerificationInv => VerifiedOnEvidence
  <2> SUFFICES ASSUME VerificationInv PROVE VerifiedOnEvidence  OBVIOUS
  <2>1. ASSUME check # NoCheck, check.overall = "passed", NEW i \in DOMAIN check.used
        PROVE  check.targets /\ \E e \in check.used[i] : Shows(check.mode, e)
    <3>0. PICK c : c = check  OBVIOUS
    <3>1. Evident(c)  BY <2>1, <3>0 DEF VerificationInv
    <3>2. c.used \in Seq(Links) /\ Len(c.used) = Len(c.statuses)  BY <3>1 DEF Evident, CheckRecords
    <3>3. i \in 1..Len(c.statuses)  BY <2>1, <3>0, <3>2
    <3>4. c.statuses[i] = "passed"  BY <2>1, <3>0, <3>1, <3>3 DEF Evident
    <3> QED  BY <3>0, <3>1, <3>3, <3>4 DEF Evident
  <2>2. check # NoCheck /\ check.overall = "passed" => check.targets  BY DEF VerificationInv, Evident
  <2>3. Limited(reserved)  BY DEF VerificationInv
  <2>4. check # NoCheck /\ check.overall # "none" => check.stood = "active"  BY DEF VerificationInv, Evident
  <2> QED  BY <2>1, <2>2, <2>3, <2>4 DEF VerifiedOnEvidence, Shows, Limited
<1> QED  BY <1>1, <1>2, <1>3, PTL DEF VerificationSpec

=============================================================================
