---------------------------- MODULE RedactionKey ----------------------------
(***************************************************************************)
(* load_hash_key of the MCP side car (redaction.rs): the key that makes    *)
(* the pseudonyms of a redacted view.  Every tool call loads it; side cars *)
(* and calls of one side car do so at the same time, and may be killed     *)
(* between creating the file and writing it.  Any of their calls may fail: *)
(* a read that does is taken for a file without a key.                     *)
(***************************************************************************)
EXTENDS Naturals, FiniteSets

CONSTANTS
  Loaders,     \* tool calls that load the key
  Rereads,     \* how often a short file is read again before it is replaced
  MaxKeyFaults \* bound: crashes and failing calls of the file system

\* A load names the key it made up, so its name is none of the others in use for keys.
ASSUME KeyAssumption ==
  Rereads \in Nat \ {0} /\ MaxKeyFaults \in Nat /\ Loaders \cap {"none", "nobody", "earlier", "derived"} = {}

VARIABLES
  keyFile,  \* agent-redaction.key: who created it, and whether all of it is written
  loads,    \* a load: where it is, its re-reads, its failed reads of a whole file, the key it returned
  keyFaults,
  settled,  \* history: the key in the file the last time it was whole and no load was under way
  unread    \* history: the failed reads of the load that took a whole file away since then

keyVars == <<keyFile, loads, keyFaults, settled, unread>>

NoFile == [by |-> "nobody", whole |-> FALSE]
KeyFile(by, whole) == [by |-> by, whole |-> whole]
Loading(pc, tries, misses) == [pc |-> pc, tries |-> tries, misses |-> misses, key |-> "none"]
Loaded(k) == [pc |-> "idle", tries |-> 0, misses |-> 0, key |-> k]

\* A first use, a file left whole by an earlier run, or one it was killed in.
KeyInit ==
  /\ keyFile \in {NoFile, KeyFile("earlier", TRUE), KeyFile("earlier", FALSE)}
  /\ loads = [l \in Loaders |-> Loaded("none")]
  /\ keyFaults = 0 /\ unread = 0 /\ settled = IF keyFile.whole THEN keyFile.by ELSE "none"

\* Only a file of at least 32 bytes counts, and any error of the read is taken for no key.
read_hash_key(ok) == IF ok /\ keyFile.whole THEN keyFile.by ELSE "none"

\* The file is whole and nobody is at work on it: its key is the one everybody should use from now on.
Rest == keyFile'.whole /\ \A l \in Loaders : loads'[l].pc = "idle"
Settle(l) ==
  /\ settled' = IF Rest THEN keyFile'.by ELSE settled
  /\ unread' = IF Rest THEN 0
               ELSE IF keyFile.whole /\ keyFile' = NoFile /\ loads[l].misses > unread THEN loads[l].misses
               ELSE unread
\* A call of the file system goes well, or fails within the bound.
KeyFault == keyFaults < MaxKeyFaults /\ keyFaults' = keyFaults + 1
Call(ok) == IF ok THEN UNCHANGED keyFaults ELSE KeyFault
Missed(ok) == IF keyFile.whole /\ ~ok THEN 1 ELSE 0
Move(l, step) == loads' = [loads EXCEPT ![l] = step]

-----------------------------------------------------------------------------
StartLoad(l) == \E ok \in BOOLEAN :
  /\ loads[l].pc = "idle" /\ Call(ok)
  /\ Move(l, IF read_hash_key(ok) # "none" THEN Loaded(read_hash_key(ok)) ELSE Loading("exists", 0, Missed(ok)))
  /\ UNCHANGED keyFile

\* Mutant: the file is replaced after the first failed read.
M_ReplaceAtOnce(l) == \E ok \in BOOLEAN :
  /\ loads[l].pc = "exists" /\ Call(ok)
  /\ Move(l, Loading(IF ok /\ keyFile # NoFile THEN "remove" ELSE "create", 0, loads[l].misses))
  /\ UNCHANGED keyFile
\* path.exists() is a look of its own; it answers no when it fails.
CheckExists(l) == \E ok \in BOOLEAN :
  /\ loads[l].pc = "exists" /\ Call(ok)
  /\ Move(l, Loading(IF ok /\ keyFile # NoFile THEN "reread" ELSE "create", 0, loads[l].misses))
  /\ UNCHANGED keyFile

\* Give a writer at work some time, then take its file away; an error of the removal is ignored.
Reread(l) == \E ok \in BOOLEAN :
  /\ loads[l].pc = "reread" /\ Call(ok)
  /\ Move(l, IF read_hash_key(ok) # "none" THEN Loaded(read_hash_key(ok))
             ELSE Loading(IF loads[l].tries + 1 < Rereads THEN "reread" ELSE "remove",
                          loads[l].tries + 1, loads[l].misses + Missed(ok)))
  /\ UNCHANGED keyFile

RemoveFile(l) ==
  /\ loads[l].pc = "remove" /\ Move(l, Loading("create", 0, 0))
  /\ keyFile' = NoFile /\ UNCHANGED keyFaults

RemoveFails(l) ==
  /\ loads[l].pc = "remove" /\ KeyFault /\ Move(l, Loading("create", 0, 0)) /\ UNCHANGED keyFile

\* write_hash_key opens with create_new: one of several creators succeeds.
CreateFile(l) ==
  /\ loads[l].pc = "create"
  /\ IF keyFile = NoFile THEN keyFile' = KeyFile(l, FALSE) /\ Move(l, Loading("write", 0, 0))
     ELSE UNCHANGED keyFile /\ Move(l, Loading("lost", 0, 0))
  /\ UNCHANGED keyFaults

\* The bytes go to the file this load created, even when another has removed it since.
WriteKey(l) ==
  /\ loads[l].pc = "write" /\ Move(l, Loaded(l))
  /\ keyFile' = IF keyFile.by = l THEN KeyFile(l, TRUE) ELSE keyFile
  /\ UNCHANGED keyFaults

\* The directory or the file cannot be written: the path-derived key.  When only sync_all
\* fails, all of the key is in the file nevertheless.
CannotWrite(l) ==
  /\ loads[l].pc \in {"create", "write"} /\ KeyFault /\ Move(l, Loaded("derived"))
  /\ UNCHANGED keyFile \/ (loads[l].pc = "write" /\ keyFile.by = l /\ keyFile' = KeyFile(l, TRUE))

\* AlreadyExists: the key another load wrote, or the path-derived one if it has not yet.
LostRace(l) == \E ok \in BOOLEAN :
  /\ loads[l].pc = "lost" /\ Call(ok)
  /\ Move(l, Loaded(IF read_hash_key(ok) # "none" THEN read_hash_key(ok) ELSE "derived"))
  /\ UNCHANGED keyFile

LoadKilled(l) ==
  /\ loads[l].pc # "idle" /\ KeyFault /\ Move(l, Loaded("none")) /\ UNCHANGED keyFile

KeyStep(l) ==
  /\ \/ CheckExists(l) \/ Reread(l) \/ RemoveFile(l) \/ RemoveFails(l) \/ CreateFile(l) \/ WriteKey(l)
     \/ CannotWrite(l) \/ LostRace(l) \/ LoadKilled(l)
  /\ Settle(l)

KeyNext == \E l \in Loaders : KeyStep(l) \/ (StartLoad(l) /\ Settle(l))
KeySpec == KeyInit /\ [][KeyNext]_keyVars

-----------------------------------------------------------------------------
\* A key that was whole when no load was under way stays in the file through every crash, failing
\* call and lost race, with one exception the code has: a load that failed to read the whole file
\* the first time and at every one of its re-reads takes it for an empty one and replaces it.
KeyStays == settled # "none" /\ unread <= Rereads => keyFile = KeyFile(settled, TRUE)
=============================================================================
