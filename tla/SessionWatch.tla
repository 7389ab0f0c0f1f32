---------------------------- MODULE SessionWatch ----------------------------
(***************************************************************************)
(* How an agent follows captured traffic (mcp-server/tools/sessions.rs,    *)
(* db/session_search.rs): wait_for_sessions polls SQLite from a watermark  *)
(* and returns the watermark of its next call; search_sessions lists pages *)
(* behind a cursor.  The desktop inserts, finishes and removes rows in     *)
(* between, in a process of its own: every query sees another database.    *)
(*                                                                         *)
(* Sessions are numbered in the order of started_at; rows are inserted in  *)
(* any order, because the collector writes in batches.  A page is a set of *)
(* rows: which ones it holds is modelled, how it lists them is not.        *)
(***************************************************************************)
EXTENDS Naturals, FiniteSets, FiniteSetsExt

CONSTANTS
  WatchSessions, \* sessions, by start
  Matching,      \* those the agent's filters match
  MaxCount,      \* bound: minCount of a wait
  PageLimit,     \* rows of a search page
  MaxRemovals    \* bound: rows removed

ASSUME WatchAssumption == WatchSessions \subseteq Nat \ {0} /\ PageLimit \in Nat \ {0}

VARIABLES
  rows,     \* session_summaries: rowid, finished, size_bytes
  gone,     \* sessions that were removed
  watch,    \* the chain of waits
  walk,     \* the search under way
  handed,   \* history: what the waits returned
  again,    \* history: what they returned a second time
  passed    \* history: sessions the watermark passed for a reason the code accepts

watchVars == <<rows, gone, watch, walk, handed, again, passed>>

Row(rowid, done) == [rowid |-> rowid, done |-> done]
\* size_bytes is 0 until the session is finished; earlier sessions are larger.
SizeBytes(rs, s) == IF rs[s].done THEN 10 - s ELSE 0

NoWatch == [pc |-> "idle", after |-> 0, started |-> FALSE, count |-> 1, page |-> {}, cut |-> {}, late |-> {}]
NoWalk == [pc |-> "idle", sort |-> "startedAt", cursor |-> << >>, listed |-> {}, twice |-> {}, there |-> {}]
Off == "off"

WatchInit ==
  /\ rows = [s \in {} |-> Row(0, FALSE)] /\ gone = {} /\ handed = {} /\ again = {} /\ passed = {}
  /\ \/ watch = NoWatch /\ walk = [NoWalk EXCEPT !.pc = Off]
     \/ watch = [NoWatch EXCEPT !.pc = Off] /\ walk \in {[NoWalk EXCEPT !.sort = f] : f \in {"startedAt", "sizeBytes"}}

-----------------------------------------------------------------------------
(* Queries.                                                                *)

Completed(rs) == {s \in DOMAIN rs : rs[s].done}
latest_completed_session_rowid(rs) == Max({rs[s].rowid : s \in Completed(rs)} \cup {0})

\* Mutant: the row at the watermark is asked for again.
M_FromMark(rs, after) == {s \in Completed(rs) \cap Matching : rs[s].rowid >= after}
\* The rows a wait asks for: completed_only, after_rowid and the filters.
Fresh(rs, after) == {s \in Completed(rs) \cap Matching : rs[s].rowid > after}
\* ORDER BY started_at DESC LIMIT n.
Newest(S, n) == {s \in S : Cardinality({t \in S : t > s}) < n}

\* ORDER BY of a search, descending; ties are broken by the start.
SortKey(rs, sort, s) == IF sort = "startedAt" THEN <<0, s>> ELSE <<SizeBytes(rs, s), s>>
Before(a, b) == a[1] < b[1] \/ (a[1] = b[1] /\ a[2] < b[2])
\* ORDER BY ... LIMIT n of those rows, and the last of them, where the next page begins.
FirstOf(rs, sort, S, n) == {s \in S : Cardinality({t \in S : Before(SortKey(rs, sort, s), SortKey(rs, sort, t))}) < n}
LastOnPage(rs, sort, S) == CHOOSE s \in S : \A t \in S \ {s} : Before(SortKey(rs, sort, s), SortKey(rs, sort, t))
\* The condition decode_cursor adds to the query.
Behind(rs, sort, cursor) == {s \in DOMAIN rs : cursor = << >> \/ Before(SortKey(rs, sort, s), cursor)}

-----------------------------------------------------------------------------
(* The desktop.                                                            *)

\* SQLite gives a new row the largest rowid plus one, also one that was in use before.
NextRowid(rs) == Max({rs[s].rowid : s \in DOMAIN rs} \cup {0}) + 1

\* A row the chain of waits will not see: its rowid is not above the watermark, or
\* it was finished after the page was read and before the watermark was.
Overtaken(s, rs) == watch.started /\ rs[s].rowid <= watch.after
Late(s, rs) == IF watch.pc = "counted" /\ rs[s].done THEN {s} ELSE {}

\* upsert_session: an update keeps the rowid.
Written(s, done) ==
  LET rs == IF s \in DOMAIN rows THEN [rows EXCEPT ![s].done = done]
            ELSE [t \in DOMAIN rows \cup {s} |-> IF t = s THEN Row(NextRowid(rows), done) ELSE rows[t]] IN
  /\ rows' = rs
  /\ watch' = [watch EXCEPT !.late = @ \cup Late(s, rs)]
  /\ passed' = IF Overtaken(s, rs) THEN passed \cup {s} ELSE passed
  /\ UNCHANGED <<gone, walk, handed, again>>

InsertSession(s, done) == s \in WatchSessions \ (DOMAIN rows \cup gone) /\ Written(s, done)
FinishSession(s) == s \in DOMAIN rows /\ ~rows[s].done /\ Written(s, TRUE)

Removed(S) ==
  /\ S # {} /\ Cardinality(gone \cup S) <= MaxRemovals
  /\ rows' = [s \in DOMAIN rows \ S |-> rows[s]] /\ gone' = gone \cup S
  /\ walk' = [walk EXCEPT !.there = @ \ S]
  /\ UNCHANGED <<watch, handed, again, passed>>
RemoveSession(s) == s \in DOMAIN rows /\ Removed({s})
ClearSessions == Removed(DOMAIN rows)

-----------------------------------------------------------------------------
(* wait_for_sessions.                                                      *)

\* The first call starts at the latest finished session, the others at the watermark before.
StartWait(n) ==
  /\ watch.pc = "idle"
  /\ watch' = [watch EXCEPT !.pc = "polling", !.started = TRUE, !.count = n,
                            !.after = IF watch.started THEN @ ELSE latest_completed_session_rowid(rows)]
  /\ passed' = IF watch.started THEN passed
               ELSE {s \in DOMAIN rows : rows[s].rowid <= latest_completed_session_rowid(rows)}
  /\ UNCHANGED <<rows, gone, walk, handed, again>>

\* One poll: the page, limited to minCount rows, the newest first ...
PollPage ==
  /\ watch.pc = "polling"
  /\ LET found == Fresh(rows, watch.after)
         page == Newest(found, watch.count) IN
     watch' = [watch EXCEPT !.pc = "counted", !.page = page, !.late = {}, !.cut = found \ page]
  /\ UNCHANGED <<rows, gone, walk, handed, again, passed>>

\* ... and the watermark, in a query of its own.  Enough rows, or the deadline: an answer.
PollAnswers ==
  /\ watch.pc = "counted"
  /\ LET mark == latest_completed_session_rowid(rows) IN
     /\ watch' = [watch EXCEPT !.pc = "idle", !.after = mark, !.page = {}, !.cut = {}, !.late = {}]
     /\ handed' = handed \cup watch.page /\ again' = again \cup (handed \cap watch.page)
     /\ passed' = passed \cup watch.cut \cup watch.late \cup {s \in DOMAIN rows : ~rows[s].done /\ rows[s].rowid < mark}
  /\ UNCHANGED <<rows, gone, walk>>

\* Too few and time left: the notifier is told, 300 ms later it asks again.
PollAgain ==
  /\ watch.pc = "counted" /\ Cardinality(watch.page) < watch.count
  /\ watch' = [watch EXCEPT !.pc = "polling", !.page = {}, !.cut = {}, !.late = {}]
  /\ UNCHANGED <<rows, gone, walk, handed, again, passed>>

-----------------------------------------------------------------------------
(* search_sessions, page by page.                                          *)

StartWalk ==
  /\ walk.pc = "idle"
  /\ walk' = [walk EXCEPT !.pc = "walking", !.there = DOMAIN rows]
  /\ UNCHANGED <<rows, gone, watch, handed, again, passed>>

\* limit + 1 rows are asked for: the last one says whether there is another page.
WalkPage ==
  /\ walk.pc = "walking"
  /\ LET found == Behind(rows, walk.sort, walk.cursor)
         page == FirstOf(rows, walk.sort, found, PageLimit)
         more == Cardinality(found) > PageLimit IN
     walk' = [walk EXCEPT !.listed = @ \cup page, !.twice = @ \cup (walk.listed \cap page),
                          !.pc = IF more THEN "walking" ELSE "walked",
                          !.cursor = IF more THEN SortKey(rows, walk.sort, LastOnPage(rows, walk.sort, page)) ELSE @]
  /\ UNCHANGED <<rows, gone, watch, handed, again, passed>>

WatchNext ==
  \/ \E s \in WatchSessions : (\E done \in BOOLEAN : InsertSession(s, done)) \/ FinishSession(s) \/ RemoveSession(s)
  \/ ClearSessions
  \/ (\E n \in 1..MaxCount : StartWait(n)) \/ PollPage \/ PollAnswers \/ PollAgain
  \/ StartWalk \/ WalkPage

-----------------------------------------------------------------------------
\* A chain of waits hands over no session twice, and none is missed for a reason that is not
\* one of these: it was in flight when the watermark passed its row, it was finished between
\* the two queries of a poll, it was cut off by minCount, or its rowid was reused.
ChainIsFaithful ==
  /\ again = {}
  /\ watch.started /\ watch.pc = "idle" =>
       \A s \in Completed(rows) \cap Matching : s \in handed \cup passed \/ rows[s].rowid > watch.after

\* In the order of the start a search lists every row that was there throughout, and none twice,
\* whatever is inserted, finished or removed between its pages.
WalkIsComplete ==
  walk.sort = "startedAt" => walk.twice = {} /\ (walk.pc = "walked" => walk.there \subseteq walk.listed)

\* What an agent is shown of the traffic is what was captured (tools/sessions.rs:466, db/session_search.rs:403).
TrafficIsFollowed == ChainIsFaithful /\ WalkIsComplete

WatchSpec == WatchInit /\ [][WatchNext]_watchVars
=============================================================================
