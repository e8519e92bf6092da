----------------------------- MODULE LedgerStore ------------------------------
(***************************************************************************)
(* The ledger service in mock mode: store.ts and the routes over it.  Node *)
(* runs each request handler to its end in one turn, so a handler is one   *)
(* action; what interrupts it is the death of the process, and what can go *)
(* wrong inside it is the write of the persistence file.                   *)
(*                                                                         *)
(* An entry's actor, document and organisation play the part its case and  *)
(* action play here (inputs of the entry hash) and are left out.           *)
(***************************************************************************)
EXTENDS Naturals, FiniteSets, Sequences

CONSTANTS
  EntryId,       \* the fresh mock-<uuid> identifiers
  Case,          \* case ids the backend posts
  NoCase,        \* '' : an entry without a case
  Action,        \* actions the backend posts
  Timestamp,     \* timestamps the backend stamps, in localeCompare order
  MaxSuffixes    \* bound: how often one action gets "-TAMPERED" appended

ASSUME TimestampAssumption == Timestamp \subseteq Nat
ASSUME SuffixAssumption == MaxSuffixes \in Nat
ASSUME NoCaseAssumption == NoCase \notin Case
(* The route takes any string as an action.  The backend, its only client,  *)
(* posts the actions of its own handlers, and this is none of them.         *)
ASSUME DemoAssumption == "TAMPERED-BY-DEMO" \notin Action

VARIABLES
  mockEntries,    \* the entries in memory, in order of arrival
  mockCaseIds,    \* the case ids seen
  tamperBackup,   \* pristine copies of tampered entries, by entry id
  disk,           \* the persistence file
  up,             \* is the process running?
  acked           \* entries answered with 200, whose ids are not given again

memory == <<mockEntries, mockCaseIds, tamperBackup>>
vars == <<memory, disk, up, acked>>

-----------------------------------------------------------------------------
(* Entries and their hash: equal digests mean equal hashed fields. *)

Demo == "TAMPERED-BY-DEMO"
Plain(a) == [name |-> a, suffixes |-> 0]
Actions == [name : Action \cup {Demo}, suffixes : 0..MaxSuffixes]

computeEntryHash(action, caseId, timestamp) ==
  [action |-> action, caseId |-> caseId, timestamp |-> timestamp]

Intact(e) == e.entryHash = computeEntryHash(e.action, e.caseId, e.timestamp)

NewEntry(id, action, caseId, timestamp) ==
  [entryId |-> id, caseId |-> caseId, timestamp |-> timestamp, action |-> Plain(action),
   entryHash |-> computeEntryHash(Plain(action), caseId, timestamp)]

Entries == [entryId : EntryId, caseId : Case \cup {NoCase}, timestamp : Timestamp,
            action : Actions,
            entryHash : [action : Actions, caseId : Case \cup {NoCase}, timestamp : Timestamp]]

Ids(entries) == {entries[i].entryId : i \in DOMAIN entries}
IndexOf(entries, id) == CHOOSE i \in DOMAIN entries : entries[i].entryId = id

(* The stable sort by timestamp: i comes before j. *)
Sooner(entries, i, j) ==
  \/ entries[i].timestamp < entries[j].timestamp
  \/ entries[i].timestamp = entries[j].timestamp /\ i < j

(* verifyEntries reports the first entry, by timestamp, whose recomputed   *)
(* hash differs from the stored one.                                       *)
verifyEntries(entries) ==
  LET broken == {i \in DOMAIN entries : ~Intact(entries[i])}
  IN [valid |-> broken = {},
      total_entries |-> Len(entries),
      broken_at_id |-> {entries[i].entryId : i \in
                          {i \in broken : \A j \in broken \ {i} : Sooner(entries, i, j)}}]

Latest(entries) ==
  CHOOSE i \in DOMAIN entries : \A j \in DOMAIN entries \ {i} : Sooner(entries, j, i)

-----------------------------------------------------------------------------
(* Persistence: one file holding entries, case ids and backups together.   *)

NoBackup == [id \in {} |-> <<>>]
NoFile == [entries |-> <<>>, caseIds |-> {}, tamperBackup |-> NoBackup]

Snapshot(entries, caseIds, backup) ==
  [entries |-> entries, caseIds |-> caseIds, tamperBackup |-> backup]

(* saveToDisk writes a temporary file and renames it: the file is the old  *)
(* state or the new one, and a failure is only warned about.               *)
saveToDiskWithoutBackup(entries, caseIds, backup) ==      \* mutant: backups not persisted
  disk' = Snapshot(entries, caseIds, NoBackup)
saveToDisk(entries, caseIds, backup) ==
  \/ disk' = Snapshot(entries, caseIds, backup)
  \/ disk' = disk

(* What a handler does to memory and then to the file.  The process may    *)
(* die once the file is renamed and before the answer leaves.              *)
Persist(entries, caseIds, backup) ==
  \/ /\ mockEntries' = entries /\ mockCaseIds' = caseIds /\ tamperBackup' = backup
     /\ saveToDisk(entries, caseIds, backup)
     /\ up' = TRUE
  \/ /\ mockEntries' = <<>> /\ mockCaseIds' = {} /\ tamperBackup' = NoBackup
     /\ disk' = Snapshot(entries, caseIds, backup)
     /\ up' = FALSE

Init ==
  /\ mockEntries = <<>> /\ mockCaseIds = {} /\ tamperBackup = NoBackup
  /\ disk = NoFile
  /\ up = TRUE
  /\ acked = {}

(* POST /ledger/entries *)
mockAppend(id, action, caseId, timestamp) ==
  /\ up
  /\ id \notin Ids(mockEntries) \cup Ids(disk.entries) \cup acked
  /\ Persist(Append(mockEntries, NewEntry(id, action, caseId, timestamp)),
             mockCaseIds \cup ({caseId} \ {NoCase}), tamperBackup)
  /\ acked' = IF up' THEN acked \cup {id} ELSE acked

(* The first tampering of an entry keeps its pristine copy; later ones do  *)
(* not overwrite it.                                                       *)
WithBackupLatest(i) ==                                   \* mutant: keeps the last copy
  [id \in DOMAIN tamperBackup \cup {mockEntries[i].entryId} |->
     IF id = mockEntries[i].entryId THEN mockEntries[i] ELSE tamperBackup[id]]
WithBackup(i) ==
  [id \in DOMAIN tamperBackup \cup {mockEntries[i].entryId} |->
     IF id \in DOMAIN tamperBackup THEN tamperBackup[id] ELSE mockEntries[i]]

mockTamper(i, action) ==
  /\ Persist([mockEntries EXCEPT ![i].action = action], mockCaseIds, WithBackup(i))
  /\ UNCHANGED acked

(* POST /ledger/demo/tamper with an entry id; an unknown one is a 404. *)
TamperById(id) ==
  /\ up /\ id \in Ids(mockEntries)
  /\ mockTamper(IndexOf(mockEntries, id), Plain(Demo))

(* POST /ledger/demo/tamper without one: the latest entry's action changes. *)
mockTamperLatest ==
  /\ up /\ mockEntries /= <<>>
  /\ LET i == Latest(mockEntries)
         a == mockEntries[i].action
     IN /\ a.suffixes < MaxSuffixes
        /\ mockTamper(i, [a EXCEPT !.suffixes = @ + 1])

(* POST /ledger/demo/restore: every requested entry with a backup gets its *)
(* pristine fields back and loses the backup.                              *)
Restored(ids) ==
  [i \in DOMAIN mockEntries |->
     IF mockEntries[i].entryId \in ids THEN tamperBackup[mockEntries[i].entryId]
     ELSE mockEntries[i]]

mockRestore(ids) ==
  /\ up /\ ids /= {}
  /\ Persist(Restored(ids), mockCaseIds, [id \in DOMAIN tamperBackup \ ids |-> tamperBackup[id]])
  /\ UNCHANGED acked

RestoreById(id) == id \in DOMAIN tamperBackup \cap Ids(mockEntries) /\ mockRestore({id})
RestoreAll == mockRestore(DOMAIN tamperBackup \cap Ids(mockEntries))

(* The process dies between two handlers, or before the file is renamed. *)
Crash ==
  /\ up /\ up' = FALSE
  /\ mockEntries' = <<>> /\ mockCaseIds' = {} /\ tamperBackup' = NoBackup
  /\ UNCHANGED <<disk, acked>>

(* loadFromDisk runs once, when the module starts with its state empty.    *)
LoadWithoutBackups ==                                    \* mutant: tamperBackup not reloaded
  mockEntries' = disk.entries /\ mockCaseIds' = disk.caseIds /\ tamperBackup' = NoBackup
LoadWithoutCases ==                                      \* mutant: caseIds not reloaded
  mockEntries' = disk.entries /\ mockCaseIds' = {} /\ tamperBackup' = disk.tamperBackup
Loaded ==
  mockEntries' = disk.entries /\ mockCaseIds' = disk.caseIds /\ tamperBackup' = disk.tamperBackup

(* A file that is not there, or cannot be read or parsed, is only warned   *)
(* about: the process serves an empty ledger, and its next save that works *)
(* overwrites whatever the file held.                                      *)
Unloaded == mockEntries' = <<>> /\ mockCaseIds' = {} /\ tamperBackup' = NoBackup

Boot ==
  /\ ~up /\ up' = TRUE
  /\ Loaded \/ Unloaded
  /\ UNCHANGED <<disk, acked>>

Next ==
  \/ \E id \in EntryId, a \in Action, c \in Case \cup {NoCase}, t \in Timestamp :
       mockAppend(id, a, c, t)
  \/ \E id \in EntryId : TamperById(id) \/ RestoreById(id)
  \/ mockTamperLatest \/ RestoreAll
  \/ Crash \/ Boot

Spec == Init /\ [][Next]_vars

-----------------------------------------------------------------------------
IsStore(entries, caseIds, backup) ==
  /\ entries \in Seq(Entries)
  /\ caseIds \subseteq Case
  /\ DOMAIN backup \subseteq EntryId
  /\ \A id \in DOMAIN backup : backup[id] \in Entries

(* Memory and file hold entries, case ids and backups of the right kinds. *)
TypeOK ==
  /\ IsStore(mockEntries, mockCaseIds, tamperBackup)
  /\ DOMAIN disk = {"entries", "caseIds", "tamperBackup"}
  /\ IsStore(disk.entries, disk.caseIds, disk.tamperBackup)
  /\ up \in BOOLEAN
  /\ acked \subseteq EntryId

(* Whatever mix of appends, tampering, restores, failed saves and restarts  *)
(* led here: no id occurs twice, every backup belongs to an entry that is   *)
(* there, and the tracked case ids are those of the entries, which is what  *)
(* GET /ledger/known-cases promises.                                        *)
StoreConsistent ==
  /\ Cardinality(Ids(mockEntries)) = Len(mockEntries)
  /\ DOMAIN tamperBackup \subseteq Ids(mockEntries)
  /\ mockCaseIds = {mockEntries[i].caseId : i \in DOMAIN mockEntries} \ {NoCase}

(* GET /ledger/verify fails exactly while some entry stands tampered with   *)
(* and not restored, and names the oldest such entry, also after a restart. *)
TamperExposed ==
  LET v == verifyEntries(mockEntries)
  IN /\ v.valid <=> DOMAIN tamperBackup = {}
     /\ v.broken_at_id \subseteq DOMAIN tamperBackup
     /\ ~v.valid => \E id \in v.broken_at_id : \A other \in DOMAIN tamperBackup :
          tamperBackup[id].timestamp <= tamperBackup[other].timestamp

(* Every pristine copy is genuine, so restoring everything makes the whole  *)
(* store verify again (README.md, the demo drill).                          *)
Pristine(entries, backup) ==
  [i \in DOMAIN entries |->
     IF entries[i].entryId \in DOMAIN backup THEN backup[entries[i].entryId] ELSE entries[i]]
SavedLog == Pristine(disk.entries, disk.tamperBackup)
TheLog == IF up THEN Pristine(mockEntries, tamperBackup) ELSE SavedLog
RestoreWouldHeal == verifyEntries(TheLog).valid

(* The entries as they were appended, whatever stands tampered with, are a  *)
(* log in the sense of DurableLog: no tampering, partial restore, failed    *)
(* save or crash at any point of a handler alters, reorders or drops a      *)
(* single one.  What the log can lose it loses from its end or whole: a     *)
(* crash those appended since the last save that worked, and a boot whose   *)
(* load fails all of them, which the next save makes final.                 *)
Durable == INSTANCE DurableLog WITH log <- TheLog, saved <- SavedLog
DurableSpec == Durable!Spec
=============================================================================
