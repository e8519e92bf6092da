-------------------------- MODULE LedgerStore_proofs --------------------------
(***************************************************************************)
(* The mock ledger's promises for any number of entries, cases, actions    *)
(* and timestamps, whatever saves fail and whenever the process dies.      *)
(***************************************************************************)
EXTENDS LedgerStore, FiniteSetTheorems, WellFoundedInduction, TLAPS

(* The action the entry was appended with, which its hash still tells.      *)
Original(e) == [e EXCEPT !.action = e.entryHash.action]

(* The hash is that of a posted action, and tells of the alteration when    *)
(* there is a backup, which then holds the original.                        *)
Sealed(e, backup) ==
  /\ \E a \in Action : e.entryHash = computeEntryHash(Plain(a), e.caseId, e.timestamp)
  /\ IF e.entryId \in DOMAIN backup
     THEN backup[e.entryId] = Original(e) /\ (e.action.name = Demo \/ e.action.suffixes > 0)
     ELSE Intact(e)

(* The ids are distinct, a backup is the original of an entry that is there *)
(* and stands altered, and an entry without one is as it was appended.      *)
StoreInv(entries, caseIds, backup) ==
  /\ IsStore(entries, caseIds, backup)
  /\ \A i, j \in DOMAIN entries : entries[i].entryId = entries[j].entryId => i = j
  /\ DOMAIN backup \subseteq Ids(entries)
  /\ caseIds = {entries[i].caseId : i \in DOMAIN entries} \ {NoCase}
  /\ \A i \in DOMAIN entries : Sealed(entries[i], backup)

Inv ==
  /\ StoreInv(mockEntries, mockCaseIds, tamperBackup)
  /\ DOMAIN disk = {"entries", "caseIds", "tamperBackup"}
  /\ StoreInv(disk.entries, disk.caseIds, disk.tamperBackup)
  /\ up \in BOOLEAN
  /\ acked \subseteq EntryId

-----------------------------------------------------------------------------
(* What an entry of the store looks like, altered or not.                   *)
LEMMA EntryShape ==
  ASSUME NEW e \in Entries, NEW a \in Action,
         e.entryHash = computeEntryHash(Plain(a), e.caseId, e.timestamp)
  PROVE  /\ Original(e) \in Entries
         /\ Original(e).action = Plain(a)
         /\ Original(e).entryId = e.entryId
         /\ Original(e).caseId = e.caseId
         /\ Original(e).timestamp = e.timestamp
         /\ Original(e).entryHash = e.entryHash
         /\ Intact(Original(e))
         /\ Intact(e) <=> e.action = Plain(a)
         /\ Intact(e) => Original(e) = e
         /\ e.action.name = Demo \/ e.action.suffixes > 0 => ~Intact(e)
<1>1. Plain(a) \in Actions
  BY SuffixAssumption DEF Plain, Actions
<1>2. e.entryHash.action = Plain(a)
  BY DEF computeEntryHash
<1>3. Original(e) = [e EXCEPT !.action = Plain(a)]
  BY <1>2 DEF Original
<1>4. Intact(e) <=> e.action = Plain(a)
  BY DEF Intact, computeEntryHash
<1>5. Plain(a).name # Demo /\ Plain(a).suffixes = 0
  BY DemoAssumption DEF Plain, Demo
<1>6. Intact(Original(e))
  BY <1>3 DEF Intact, computeEntryHash, Entries
<1> QED BY <1>1, <1>2, <1>3, <1>4, <1>5, <1>6 DEF Entries

(* Every original is intact, and the store's originals are Pristine.        *)
LEMMA PristineIsOriginal ==
  ASSUME NEW entries, NEW caseIds, NEW backup, StoreInv(entries, caseIds, backup)
  PROVE  /\ Pristine(entries, backup) = [i \in DOMAIN entries |-> Original(entries[i])]
         /\ \A i \in DOMAIN entries : /\ Original(entries[i]) \in Entries
                                      /\ Intact(Original(entries[i]))
                                      /\ Intact(entries[i]) <=> entries[i].entryId \notin DOMAIN backup
<1>1. ASSUME NEW i \in DOMAIN entries
      PROVE  /\ Original(entries[i]) \in Entries
             /\ Intact(Original(entries[i]))
             /\ Intact(entries[i]) <=> entries[i].entryId \notin DOMAIN backup
             /\ (IF entries[i].entryId \in DOMAIN backup THEN backup[entries[i].entryId]
                 ELSE entries[i]) = Original(entries[i])
  <2>1. entries[i] \in Entries
    BY DEF StoreInv, IsStore
  <2>2. Sealed(entries[i], backup)
    BY DEF StoreInv
  <2> QED BY <2>1, <2>2, EntryShape DEF Sealed
<1> QED BY <1>1 DEF Pristine

(* The new entry joins the store. *)
LEMMA AppendFits ==
  ASSUME NEW entries, NEW caseIds, NEW backup, StoreInv(entries, caseIds, backup),
         NEW id \in EntryId \ Ids(entries), NEW a \in Action, NEW c \in Case \cup {NoCase},
         NEW t \in Timestamp
  PROVE  LET e == NewEntry(id, a, c, t)
         IN  /\ StoreInv(Append(entries, e), caseIds \cup ({c} \ {NoCase}), backup)
             /\ Original(e) = e
<1> DEFINE e == NewEntry(id, a, c, t)
           longer == Append(entries, e)
<1>1. Plain(a) \in Actions
  BY SuffixAssumption DEF Plain, Actions
<1>2. /\ e \in Entries /\ e.entryId = id /\ e.caseId = c /\ Original(e) = e /\ Intact(e)
      /\ e.entryHash = computeEntryHash(Plain(a), e.caseId, e.timestamp)
  BY <1>1 DEF NewEntry, Entries, computeEntryHash, Original, Intact
<1> HIDE DEF e
<1>3. entries \in Seq(Entries)
  BY DEF StoreInv, IsStore
<1>4. /\ longer \in Seq(Entries) /\ DOMAIN longer = DOMAIN entries \cup {Len(entries) + 1}
      /\ Len(entries) + 1 \notin DOMAIN entries
      /\ longer[Len(entries) + 1] = e /\ \A i \in DOMAIN entries : longer[i] = entries[i]
  BY <1>2, <1>3
<1> HIDE DEF longer
<1>5. \A i \in DOMAIN entries : entries[i].entryId # id
  BY DEF Ids
<1>6. IsStore(longer, caseIds \cup ({c} \ {NoCase}), backup)
  BY <1>4 DEF StoreInv, IsStore
<1>7. \A i, j \in DOMAIN longer : longer[i].entryId = longer[j].entryId => i = j
  BY <1>2, <1>4, <1>5 DEF StoreInv
<1>8. id \notin DOMAIN backup /\ DOMAIN backup \subseteq Ids(longer)
  BY <1>4 DEF StoreInv, Ids
<1>9. caseIds \cup ({c} \ {NoCase}) = {longer[i].caseId : i \in DOMAIN longer} \ {NoCase}
  <2>1. {longer[i].caseId : i \in DOMAIN longer} = {entries[i].caseId : i \in DOMAIN entries} \cup {c}
    BY <1>2, <1>4
  <2> QED BY <2>1 DEF StoreInv
<1>10. \A i \in DOMAIN longer : Sealed(longer[i], backup)
  BY <1>2, <1>4, <1>8 DEF StoreInv, Sealed
<1>11. StoreInv(longer, caseIds \cup ({c} \ {NoCase}), backup)
  BY <1>6, <1>7, <1>8, <1>9, <1>10 DEF StoreInv
<1> QED BY <1>2, <1>11 DEF e, longer

(* Altering an action leaves the rest of the entry, and so its original.    *)
LEMMA AlteredEntry ==
  ASSUME NEW e \in Entries, NEW action \in Actions
  PROVE  LET f == [e EXCEPT !.action = action]
         IN  /\ f \in Entries
             /\ f.entryId = e.entryId /\ f.caseId = e.caseId /\ f.timestamp = e.timestamp
             /\ f.entryHash = e.entryHash /\ f.action = action
             /\ Original(f) = Original(e)
BY DEF Entries, Original

(* Entry i is altered again or for the first time; its original survives.   *)
LEMMA TamperFits ==
  ASSUME Inv, NEW i \in DOMAIN mockEntries, NEW action \in Actions,
         action.name = Demo \/ action.suffixes > 0
  PROVE  LET altered == [mockEntries EXCEPT ![i].action = action]
         IN  /\ StoreInv(altered, mockCaseIds, WithBackup(i))
             /\ DOMAIN altered = DOMAIN mockEntries
             /\ \A j \in DOMAIN altered : Original(altered[j]) = Original(mockEntries[j])
<1> DEFINE altered == [mockEntries EXCEPT ![i].action = action]
           backup == WithBackup(i)
           id == mockEntries[i].entryId
<1>1. /\ StoreInv(mockEntries, mockCaseIds, tamperBackup)
      /\ mockEntries \in Seq(Entries) /\ mockEntries[i] \in Entries
  BY DEF Inv, StoreInv, IsStore
<1>2. /\ altered \in Seq(Entries) /\ DOMAIN altered = DOMAIN mockEntries
      /\ \A j \in DOMAIN mockEntries \ {i} : altered[j] = mockEntries[j]
      /\ altered[i] = [mockEntries[i] EXCEPT !.action = action]
  <2>1. [mockEntries[i] EXCEPT !.action = action] \in Entries
    BY <1>1, AlteredEntry
  <2> QED BY <1>1, <2>1
<1>3. /\ altered[i].entryId = id /\ altered[i].caseId = mockEntries[i].caseId
      /\ altered[i].timestamp = mockEntries[i].timestamp
      /\ altered[i].entryHash = mockEntries[i].entryHash /\ altered[i].action = action
      /\ Original(altered[i]) = Original(mockEntries[i])
  BY <1>1, <1>2, AlteredEntry
<1>4. /\ DOMAIN backup = DOMAIN tamperBackup \cup {id}
      /\ \A x \in DOMAIN backup :
           backup[x] = IF x \in DOMAIN tamperBackup THEN tamperBackup[x] ELSE mockEntries[i]
  BY DEF WithBackup
<1> HIDE DEF altered, backup
<1>5. backup[id] = Original(mockEntries[i])
  BY <1>1, <1>4, PristineIsOriginal DEF Pristine
<1>6. id \in EntryId
  BY <1>1 DEF Entries
<1>7. IsStore(altered, mockCaseIds, backup)
  BY <1>1, <1>2, <1>4, <1>6 DEF StoreInv, IsStore
<1>8. \A j, k \in DOMAIN altered : altered[j].entryId = altered[k].entryId => j = k
  BY <1>1, <1>2, <1>3 DEF StoreInv
<1>9. Ids(altered) = Ids(mockEntries)
  BY <1>2, <1>3 DEF Ids
<1>10. DOMAIN backup \subseteq Ids(altered)
  BY <1>1, <1>4, <1>9 DEF StoreInv, Ids
<1>11. {altered[j].caseId : j \in DOMAIN altered} = {mockEntries[j].caseId : j \in DOMAIN mockEntries}
  BY <1>2, <1>3
<1>12. \A j \in DOMAIN altered : Sealed(altered[j], backup)
  <2>1. ASSUME NEW j \in DOMAIN altered, j # i
        PROVE  Sealed(altered[j], backup)
    <3>1. altered[j] = mockEntries[j] /\ mockEntries[j].entryId # id
      BY <1>1, <1>2, <2>1 DEF StoreInv
    <3> QED BY <1>1, <1>2, <1>4, <3>1 DEF StoreInv, Sealed
  <2>2. Sealed(altered[i], backup)
    BY <1>1, <1>3, <1>4, <1>5 DEF StoreInv, Sealed
  <2> QED BY <2>1, <2>2
<1>13. StoreInv(altered, mockCaseIds, backup)
  BY <1>1, <1>4, <1>6, <1>7, <1>8, <1>10, <1>11, <1>12 DEF StoreInv
<1>14. \A j \in DOMAIN altered : Original(altered[j]) = Original(mockEntries[j])
  BY <1>2, <1>3
<1> QED BY <1>2, <1>13, <1>14 DEF altered, backup

(* Every entry asked for is its original again, and has no backup any more. *)
LEMMA RestoreFits ==
  ASSUME Inv, NEW ids, ids \subseteq DOMAIN tamperBackup \cap Ids(mockEntries)
  PROVE  LET backup == [id \in DOMAIN tamperBackup \ ids |-> tamperBackup[id]]
         IN  /\ StoreInv(Restored(ids), mockCaseIds, backup)
             /\ DOMAIN Restored(ids) = DOMAIN mockEntries
             /\ \A i \in DOMAIN mockEntries :
                  Original(Restored(ids)[i]) = Original(mockEntries[i])
<1> DEFINE backup == [id \in DOMAIN tamperBackup \ ids |-> tamperBackup[id]]
           entries == Restored(ids)
<1>1. /\ StoreInv(mockEntries, mockCaseIds, tamperBackup)
      /\ mockEntries \in Seq(Entries) /\ \A i \in DOMAIN mockEntries : mockEntries[i] \in Entries
  BY DEF Inv, StoreInv, IsStore
<1>2. DOMAIN entries = DOMAIN mockEntries
  BY DEF Restored
<1>3. ASSUME NEW i \in DOMAIN mockEntries
      PROVE  entries[i] = IF mockEntries[i].entryId \in ids THEN Original(mockEntries[i])
                          ELSE mockEntries[i]
  BY <1>1 DEF Restored, StoreInv, Sealed
<1>4. /\ DOMAIN backup = DOMAIN tamperBackup \ ids
      /\ \A id \in DOMAIN backup : backup[id] = tamperBackup[id]
  OBVIOUS
<1> HIDE DEF entries, backup
<1>5. ASSUME NEW i \in DOMAIN mockEntries
      PROVE  /\ entries[i] \in Entries
             /\ entries[i].entryId = mockEntries[i].entryId
             /\ entries[i].caseId = mockEntries[i].caseId
             /\ Original(entries[i]) = Original(mockEntries[i])
             /\ Sealed(entries[i], backup)
  <2>1. Sealed(mockEntries[i], tamperBackup)
    BY <1>1 DEF StoreInv
  <2>2. CASE mockEntries[i].entryId \in ids
    <3>1. PICK a \in Action : mockEntries[i].entryHash =
                 computeEntryHash(Plain(a), mockEntries[i].caseId, mockEntries[i].timestamp)
      BY <2>1 DEF Sealed
    <3> DEFINE f == Original(mockEntries[i])
    <3>2. entries[i] = f
      BY <1>3, <2>2
    <3>3. /\ f \in Entries /\ f.entryId = mockEntries[i].entryId
          /\ f.caseId = mockEntries[i].caseId /\ f.timestamp = mockEntries[i].timestamp
          /\ f.entryHash = mockEntries[i].entryHash /\ Intact(f)
      BY <1>1, <3>1, EntryShape
    <3> HIDE DEF f
    <3>4. Original(f) = f
      BY <3>1, <3>3, EntryShape
    <3>5. Sealed(f, backup)
      BY <1>4, <2>2, <3>1, <3>3 DEF Sealed
    <3> QED BY <3>2, <3>3, <3>4, <3>5 DEF f
  <2>3. CASE mockEntries[i].entryId \notin ids
    BY <1>1, <1>3, <1>4, <2>1, <2>3 DEF Sealed
  <2> QED BY <2>2, <2>3
<1>6. entries \in Seq(Entries)
  BY <1>1, <1>2, <1>5 DEF entries, Restored
<1>7. Ids(entries) = Ids(mockEntries)
  BY <1>2, <1>5 DEF Ids
<1>8. {entries[i].caseId : i \in DOMAIN entries} = {mockEntries[i].caseId : i \in DOMAIN mockEntries}
  BY <1>2, <1>5
<1>9. IsStore(entries, mockCaseIds, backup)
  BY <1>1, <1>4, <1>6 DEF StoreInv, IsStore
<1>10. StoreInv(entries, mockCaseIds, backup)
  BY <1>1, <1>2, <1>4, <1>5, <1>7, <1>8, <1>9 DEF StoreInv
<1> QED BY <1>2, <1>5, <1>10 DEF entries, backup

-----------------------------------------------------------------------------
(* The state of a process that has just started, and of a file not there.   *)
LEMMA EmptyFits == StoreInv(<<>>, {}, NoBackup)
BY DEF StoreInv, IsStore, NoBackup, Ids

LEMMA InitFits == Init => Inv
<1>1. SUFFICES ASSUME Init PROVE Inv
  OBVIOUS
<1>2. /\ disk.entries = <<>> /\ disk.caseIds = {} /\ disk.tamperBackup = NoBackup
      /\ DOMAIN disk = {"entries", "caseIds", "tamperBackup"}
  BY <1>1 DEF Init, NoFile
<1> QED BY <1>1, <1>2, EmptyFits DEF Init, Inv

(* What a handler leaves, saved or not, alive or dead.                      *)
LEMMA PersistKeeps ==
  ASSUME Inv, NEW entries, NEW caseIds, NEW backup, StoreInv(entries, caseIds, backup),
         Persist(entries, caseIds, backup), acked' \subseteq EntryId
  PROVE  Inv'
<1>1. /\ Snapshot(entries, caseIds, backup).entries = entries
      /\ Snapshot(entries, caseIds, backup).caseIds = caseIds
      /\ Snapshot(entries, caseIds, backup).tamperBackup = backup
      /\ DOMAIN Snapshot(entries, caseIds, backup) = {"entries", "caseIds", "tamperBackup"}
  BY DEF Snapshot
<1>2. disk' = Snapshot(entries, caseIds, backup) \/ disk' = disk
  BY DEF Persist, saveToDisk
<1>3. /\ DOMAIN disk' = {"entries", "caseIds", "tamperBackup"}
      /\ StoreInv(disk'.entries, disk'.caseIds, disk'.tamperBackup)
  BY <1>1, <1>2 DEF Inv
<1>4. StoreInv(mockEntries', mockCaseIds', tamperBackup') /\ up' \in BOOLEAN
  BY EmptyFits DEF Persist
<1>5. StoreInv(mockEntries, mockCaseIds, tamperBackup)'
      /\ StoreInv(disk.entries, disk.caseIds, disk.tamperBackup)'
  BY <1>3, <1>4
<1> QED BY <1>3, <1>4, <1>5 DEF Inv

(* What a handler leaves of the log of DurableLog.                          *)
LEMMA PersistLogs ==
  ASSUME Inv, NEW entries, NEW caseIds, NEW backup, StoreInv(entries, caseIds, backup),
         Persist(entries, caseIds, backup)
  PROVE  /\ TheLog' = Pristine(entries, backup)
         /\ SavedLog' \in {SavedLog, TheLog'}
<1>1. /\ Snapshot(entries, caseIds, backup).entries = entries
      /\ Snapshot(entries, caseIds, backup).tamperBackup = backup
  BY DEF Snapshot
<1>2. CASE disk' = Snapshot(entries, caseIds, backup)
  BY <1>1, <1>2 DEF Persist, TheLog, SavedLog, Pristine
<1>3. CASE disk' = disk /\ up'
  BY <1>3 DEF Persist, TheLog, SavedLog, Pristine
<1> QED BY <1>2, <1>3 DEF Persist, saveToDisk

LEMMA AppendKeeps ==
  ASSUME Inv, NEW id \in EntryId, NEW a \in Action, NEW c \in Case \cup {NoCase},
         NEW t \in Timestamp, mockAppend(id, a, c, t)
  PROVE  Inv' /\ Durable!AppendOne
<1> DEFINE e == NewEntry(id, a, c, t)
           longer == Append(mockEntries, e)
           caseIds == mockCaseIds \cup ({c} \ {NoCase})
<1>1. /\ StoreInv(longer, caseIds, tamperBackup)
      /\ StoreInv(mockEntries, mockCaseIds, tamperBackup)
  BY AppendFits DEF Inv, mockAppend
<1>2. Persist(longer, caseIds, tamperBackup) /\ acked' \subseteq EntryId /\ up
  BY DEF mockAppend, Inv
<1>3. Inv'
  BY <1>1, <1>2, PersistKeeps
<1>4. TheLog' = Pristine(longer, tamperBackup) /\ SavedLog' \in {SavedLog, TheLog'}
  BY <1>1, <1>2, PersistLogs
<1>5. /\ mockEntries \in Seq(Entries) /\ longer \in Seq(Entries)
      /\ Len(longer) = Len(mockEntries) + 1
      /\ \A i \in 1..Len(mockEntries) : longer[i] = mockEntries[i]
  <2>1. mockEntries \in Seq(Entries) /\ longer \in Seq(Entries)
    BY <1>1 DEF StoreInv, IsStore
  <2>2. mockEntries = SubSeq(longer, 1, Len(longer) - 1) /\ Len(longer) = Len(mockEntries) + 1
    BY <2>1 DEF mockAppend
  <2> QED BY <2>1, <2>2
<1> HIDE DEF longer
<1>6. /\ TheLog = [i \in 1..Len(mockEntries) |-> Original(mockEntries[i])]
      /\ TheLog' = [i \in 1..Len(longer) |-> Original(longer[i])]
      /\ \A i \in 1..Len(longer) : Original(longer[i]) \in Entries
      /\ \A i \in 1..Len(mockEntries) : Original(mockEntries[i]) \in Entries
  BY <1>1, <1>2, <1>4, <1>5, PristineIsOriginal DEF TheLog
<1>7. Len(TheLog') = Len(TheLog) + 1 /\ SubSeq(TheLog', 1, Len(TheLog)) = TheLog
  <2>1. TheLog \in Seq(Entries) /\ TheLog' \in Seq(Entries)
    BY <1>5, <1>6
  <2>2. Len(TheLog) = Len(mockEntries) /\ Len(TheLog') = Len(longer)
    BY <1>5, <1>6
  <2>3. \A i \in 1..Len(TheLog) : TheLog'[i] = TheLog[i]
    BY <1>5, <1>6, <2>2
  <2> QED BY <1>5, <2>1, <2>2, <2>3
<1> QED BY <1>3, <1>4, <1>7 DEF Durable!AppendOne

(* Tampering and restoring leave the log what it was.                       *)
LEMMA LogKept ==
  ASSUME Inv, up, NEW entries, NEW backup, StoreInv(entries, mockCaseIds, backup),
         Persist(entries, mockCaseIds, backup), UNCHANGED acked,
         DOMAIN entries = DOMAIN mockEntries,
         \A i \in DOMAIN mockEntries : Original(entries[i]) = Original(mockEntries[i])
  PROVE  Inv' /\ [Durable!Save]_<<TheLog, SavedLog>>
<1>1. Inv'
  BY PersistKeeps DEF Inv
<1>2. TheLog' = Pristine(entries, backup) /\ SavedLog' \in {SavedLog, TheLog'}
  BY PersistLogs
<1>3. TheLog' = TheLog
  BY <1>2, PristineIsOriginal DEF TheLog, Inv
<1> QED BY <1>1, <1>2, <1>3 DEF Durable!Save

LEMMA TamperByIdKeeps ==
  ASSUME Inv, NEW id \in EntryId, TamperById(id)
  PROVE  Inv' /\ [Durable!Save]_<<TheLog, SavedLog>>
<1> DEFINE i == IndexOf(mockEntries, id)
<1>1. i \in DOMAIN mockEntries
  BY DEF TamperById, IndexOf, Ids
<1>2. Plain(Demo) \in Actions /\ Plain(Demo).name = Demo
  BY SuffixAssumption DEF Plain, Actions, Demo
<1> HIDE DEF i
<1>3. mockTamper(i, Plain(Demo)) /\ up
  BY DEF TamperById, i
<1> QED BY <1>1, <1>2, <1>3, TamperFits, LogKept DEF mockTamper

(* A set of numbers that is not empty has a least one.                      *)
LEMMA LeastNumber ==
  ASSUME NEW T, T \subseteq Nat, T # {} PROVE \E n \in T : \A m \in T : n <= m
<1> DEFINE R == OpToRel(<, Nat)
<1>1. IsWellFoundedOn(R, Nat)
  BY NatLessThanWellFounded
<1>2. \A m, n \in Nat : m < n => <<m, n>> \in R
  BY DEF OpToRel
<1> HIDE DEF R
<1>3. PICK n \in T : \A m \in T : <<m, n>> \notin R
  BY <1>1, WFMin
<1>4. \A m \in T : ~(m < n)
  BY <1>2, <1>3
<1> QED BY <1>4

(* There is a latest entry when there is any: the shortest prefix without   *)
(* one would get it from the prefix before.                                 *)
LEMMA LatestThere ==
  ASSUME NEW entries \in Seq(Entries), entries # <<>> PROVE Latest(entries) \in DOMAIN entries
<1> DEFINE HasLatest(n) == \E i \in 1..n : \A j \in (1..n) \ {i} : Sooner(entries, j, i)
           T == {n \in 1..Len(entries) : ~HasLatest(n)}
<1>1. /\ \A i \in DOMAIN entries : entries[i] \in Entries
      /\ DOMAIN entries = 1..Len(entries) /\ Len(entries) \in Nat \ {0}
  OBVIOUS
<1>2. \A i \in 1..Len(entries) : entries[i].timestamp \in Nat
  BY <1>1, TimestampAssumption DEF Entries
<1>3. ASSUME NEW n \in 1..Len(entries), n > 1, HasLatest(n - 1) PROVE HasLatest(n)
  <2>1. PICK i \in 1..(n-1) : \A j \in (1..(n-1)) \ {i} : Sooner(entries, j, i)
    BY <1>3
  <2>2. CASE Sooner(entries, n, i)
    <3>1. i \in 1..n /\ \A j \in (1..n) \ {i} : Sooner(entries, j, i)
      BY <1>1, <2>1, <2>2
    <3> QED BY <3>1
  <2>3. CASE ~Sooner(entries, n, i)
    <3>1. Sooner(entries, i, n)
      BY <1>1, <1>2, <2>3 DEF Sooner
    <3>2. \A j \in 1..(n-1) : Sooner(entries, j, n)
      BY <1>1, <1>2, <2>1, <3>1 DEF Sooner
    <3>3. n \in 1..n /\ \A j \in (1..n) \ {n} : Sooner(entries, j, n)
      BY <1>1, <3>2
    <3> QED BY <3>3
  <2> QED BY <2>2, <2>3
<1>4. HasLatest(1)
  OBVIOUS
<1> HIDE DEF HasLatest
<1>5. ASSUME T # {} PROVE FALSE
  <2>1. PICK n \in T : \A m \in T : n <= m
    <3>1. T \subseteq Nat
      OBVIOUS
    <3> HIDE DEF T
    <3> QED BY <1>5, <3>1, LeastNumber
  <2>2. n > 1 /\ n \in 1..Len(entries) /\ n - 1 \in 1..Len(entries)
    BY <1>1, <1>4, <2>1
  <2>3. HasLatest(n - 1)
    BY <2>1, <2>2
  <2> QED BY <1>3, <2>1, <2>2, <2>3
<1>6. HasLatest(Len(entries))
  BY <1>1, <1>5
<1> QED BY <1>1, <1>6 DEF HasLatest, Latest

(* And a first one among those of any kind.                                 *)
LEMMA FirstThere ==
  ASSUME NEW entries \in Seq(Entries), NEW B, B \subseteq DOMAIN entries, B # {}
  PROVE  \E i \in B : \A j \in B \ {i} : Sooner(entries, i, j)
<1> DEFINE times == {entries[i].timestamp : i \in B}
<1>1. \A i \in B : i \in Nat /\ entries[i] \in Entries
  OBVIOUS
<1>2. \A i \in B : entries[i].timestamp \in Nat
  BY <1>1, TimestampAssumption DEF Entries
<1>3. PICK t \in times : \A u \in times : t <= u
  <2>1. times # {} /\ times \subseteq Nat
    BY <1>2
  <2> QED BY <2>1, LeastNumber
<1>4. \A i \in B : t <= entries[i].timestamp
  BY <1>3
<1> DEFINE firsts == {j \in B : entries[j].timestamp = t}
<1>5. PICK i \in firsts : \A k \in firsts : i <= k
  <2>1. firsts # {} /\ firsts \subseteq Nat
    BY <1>1, <1>3
  <2> QED BY <2>1, LeastNumber
<1>6. ASSUME NEW j \in B \ {i} PROVE Sooner(entries, i, j)
  BY <1>1, <1>2, <1>4, <1>5 DEF Sooner
<1> QED BY <1>5, <1>6

LEMMA TamperLatestKeeps ==
  ASSUME Inv, mockTamperLatest
  PROVE  Inv' /\ [Durable!Save]_<<TheLog, SavedLog>>
<1> DEFINE i == Latest(mockEntries)
           action == [mockEntries[i].action EXCEPT !.suffixes = @ + 1]
<1>1. i \in DOMAIN mockEntries /\ mockEntries[i] \in Entries
  BY LatestThere DEF mockTamperLatest, Inv, StoreInv, IsStore
<1>2. mockEntries[i].action \in Actions /\ mockEntries[i].action.suffixes < MaxSuffixes
  BY <1>1 DEF mockTamperLatest, Entries
<1>3. action \in Actions /\ action.suffixes > 0
  BY <1>2, SuffixAssumption DEF Actions
<1>4. mockTamper(i, action) /\ up
  BY DEF mockTamperLatest
<1> HIDE DEF i, action
<1> QED BY <1>1, <1>3, <1>4, TamperFits, LogKept DEF mockTamper

LEMMA RestoreKeeps ==
  ASSUME Inv, NEW ids, ids \subseteq DOMAIN tamperBackup \cap Ids(mockEntries), mockRestore(ids)
  PROVE  Inv' /\ [Durable!Save]_<<TheLog, SavedLog>>
<1> DEFINE backup == [id \in DOMAIN tamperBackup \ ids |-> tamperBackup[id]]
<1>1. /\ StoreInv(Restored(ids), mockCaseIds, backup)
      /\ DOMAIN Restored(ids) = DOMAIN mockEntries
      /\ \A i \in DOMAIN mockEntries : Original(Restored(ids)[i]) = Original(mockEntries[i])
  BY RestoreFits
<1>2. Persist(Restored(ids), mockCaseIds, backup) /\ UNCHANGED acked /\ up
  BY DEF mockRestore
<1> HIDE DEF backup
<1> QED BY <1>1, <1>2, LogKept

LEMMA CrashKeeps == ASSUME Inv, Crash PROVE Inv' /\ Durable!Lose
<1>1. disk' = disk /\ acked' = acked /\ ~up' /\ up' \in BOOLEAN
  BY DEF Crash
<1>2. StoreInv(mockEntries', mockCaseIds', tamperBackup')
  BY EmptyFits DEF Crash
<1>3. StoreInv(disk'.entries, disk'.caseIds, disk'.tamperBackup)
  BY <1>1 DEF Inv
<1>4. Inv'
  BY <1>1, <1>2, <1>3 DEF Inv
<1>5. SavedLog' = SavedLog /\ TheLog' = SavedLog
  BY <1>1 DEF SavedLog, TheLog, Pristine
<1> QED BY <1>4, <1>5 DEF Durable!Lose

(* A boot that reads the file goes on from it; any other begins anew.       *)
LEMMA BootKeeps == ASSUME Inv, Boot PROVE Inv' /\ [Durable!Forget]_<<TheLog, SavedLog>>
<1>1. disk' = disk /\ acked' = acked /\ ~up /\ up' /\ up' \in BOOLEAN
  BY DEF Boot
<1>2. StoreInv(mockEntries', mockCaseIds', tamperBackup')
  BY EmptyFits DEF Boot, Loaded, Unloaded, Inv
<1>3. StoreInv(disk'.entries, disk'.caseIds, disk'.tamperBackup)
  BY <1>1 DEF Inv
<1>4. Inv'
  BY <1>1, <1>2, <1>3 DEF Inv
<1>5. SavedLog' = SavedLog /\ TheLog = SavedLog
  BY <1>1 DEF SavedLog, TheLog, Pristine
<1>6. CASE Loaded
  <2>1. TheLog' = SavedLog
    BY <1>1, <1>6 DEF SavedLog, TheLog, Pristine, Loaded
  <2> QED BY <1>4, <1>5, <2>1
<1>7. CASE Unloaded
  <2>1. TheLog' = <<>>
    BY <1>1, <1>7 DEF TheLog, Pristine, Unloaded
  <2> QED BY <1>4, <1>5, <2>1 DEF Durable!Forget
<1> QED BY <1>6, <1>7 DEF Boot

DurableNext == Durable!AppendOne \/ Durable!Save \/ Durable!Lose \/ Durable!Forget

(* Every step keeps the invariant and is one of DurableLog, or none.        *)
LEMMA StepKeeps ==
  Inv /\ [Next]_vars => Inv' /\ [DurableNext]_<<TheLog, SavedLog>>
<1>1. ASSUME Inv, UNCHANGED vars PROVE Inv' /\ UNCHANGED <<TheLog, SavedLog>>
  BY <1>1 DEF vars, memory, Inv, StoreInv, IsStore, Ids, Sealed, TheLog, SavedLog, Pristine
<1>2. ASSUME Inv, NEW id \in EntryId, TamperById(id) \/ RestoreById(id)
      PROVE  Inv' /\ [Durable!Save]_<<TheLog, SavedLog>>
  BY <1>2, TamperByIdKeeps, RestoreKeeps DEF RestoreById
<1>3. ASSUME Inv, RestoreAll
      PROVE  Inv' /\ [Durable!Save]_<<TheLog, SavedLog>>
  BY <1>3, RestoreKeeps DEF RestoreAll
<1>4. ASSUME Inv, Next PROVE Inv' /\ [DurableNext]_<<TheLog, SavedLog>>
  BY <1>2, <1>3, <1>4, AppendKeeps, TamperLatestKeeps, CrashKeeps, BootKeeps DEF Next, DurableNext
<1> QED BY <1>1, <1>4

-----------------------------------------------------------------------------
(* A sequence whose ids differ has as many as it is long.                   *)
LEMMA IdsCounted ==
  ASSUME NEW entries \in Seq(Entries),
         \A i, j \in DOMAIN entries : entries[i].entryId = entries[j].entryId => i = j
  PROVE  Cardinality(Ids(entries)) = Len(entries)
<1> DEFINE f == [i \in 1..Len(entries) |-> entries[i].entryId]
<1>1. f \in Bijection(1..Len(entries), Ids(entries))
  BY DEF Bijection, Injection, Surjection, IsInjective, Ids
<1>2. ExistsBijection(1..Len(entries), Ids(entries))
  BY <1>1 DEF ExistsBijection
<1> QED BY <1>2, FS_CountingElements

(* What the invariant says of verifyEntries.                                *)
LEMMA ExposedByInv == Inv => TamperExposed
<1> SUFFICES ASSUME Inv PROVE TamperExposed
  OBVIOUS
<1> DEFINE broken == {i \in DOMAIN mockEntries : ~Intact(mockEntries[i])}
           v == verifyEntries(mockEntries)
<1>1. /\ StoreInv(mockEntries, mockCaseIds, tamperBackup) /\ mockEntries \in Seq(Entries)
      /\ \A i \in DOMAIN mockEntries : mockEntries[i] \in Entries
  BY DEF Inv, StoreInv, IsStore
<1>2. broken = {i \in DOMAIN mockEntries : mockEntries[i].entryId \in DOMAIN tamperBackup}
  BY <1>1, PristineIsOriginal
<1>3. DOMAIN tamperBackup = {mockEntries[i].entryId : i \in broken}
  <2>1. DOMAIN tamperBackup \subseteq {mockEntries[i].entryId : i \in DOMAIN mockEntries}
    BY <1>1 DEF StoreInv, Ids
  <2> HIDE DEF broken
  <2> QED BY <1>2, <2>1
<1>4. \A i \in broken : tamperBackup[mockEntries[i].entryId].timestamp = mockEntries[i].timestamp
  BY <1>1, <1>2 DEF StoreInv, Sealed, Original, Entries
<1>5. /\ v.valid <=> broken = {}
      /\ v.broken_at_id = {mockEntries[i].entryId : i \in
                          {i \in broken : \A j \in broken \ {i} : Sooner(mockEntries, i, j)}}
  BY DEF verifyEntries
<1>6. \A i \in broken : mockEntries[i].timestamp \in Nat
  BY <1>1, TimestampAssumption DEF Entries
<1> HIDE DEF v, broken
<1>7. ASSUME broken # {}
      PROVE  \E id \in v.broken_at_id : \A other \in DOMAIN tamperBackup :
               tamperBackup[id].timestamp <= tamperBackup[other].timestamp
  <2>1. broken \subseteq DOMAIN mockEntries
    BY <1>2
  <2>2. PICK i \in broken : \A j \in broken \ {i} : Sooner(mockEntries, i, j)
    BY <1>1, <1>7, <2>1, FirstThere
  <2>3. mockEntries[i].entryId \in v.broken_at_id
    BY <1>5, <2>2
  <2>4. \A j \in broken : mockEntries[i].timestamp <= mockEntries[j].timestamp
    BY <1>6, <2>2 DEF Sooner
  <2> QED BY <1>3, <1>4, <2>2, <2>3, <2>4
<1> QED BY <1>3, <1>5, <1>7 DEF TamperExposed, v

LEMMA InvHolds == Spec => []Inv
<1>1. Inv /\ [Next]_vars => Inv'
  BY StepKeeps
<1> QED BY <1>1, InitFits, PTL DEF Spec

(* store.ts: entries, backups and case ids stay in step with each other.    *)
THEOREM StoreAgrees == Spec => [](TypeOK /\ StoreConsistent)
<1>1. Inv => TypeOK
  BY DEF Inv, StoreInv, TypeOK
<1>2. Inv => StoreConsistent
  BY IdsCounted DEF Inv, StoreInv, IsStore, StoreConsistent
<1> QED BY <1>1, <1>2, InvHolds, PTL

(* verify.ts: the verification fails exactly while an alteration stands.    *)
THEOREM AlterationsExposed == Spec => []TamperExposed
BY InvHolds, ExposedByInv, PTL

(* Restoring everything makes the ledger verify, at any time.               *)
THEOREM RestoreHeals == Spec => []RestoreWouldHeal
<1>1. ASSUME Inv PROVE RestoreWouldHeal
  <2>1. ASSUME NEW entries, NEW caseIds, NEW backup, StoreInv(entries, caseIds, backup)
        PROVE  verifyEntries(Pristine(entries, backup)).valid
    <3> DEFINE healed == Pristine(entries, backup)
    <3>1. \A i \in DOMAIN healed : Intact(healed[i])
      BY <2>1, PristineIsOriginal
    <3> HIDE DEF healed
    <3>2. verifyEntries(healed).valid
      BY <3>1 DEF verifyEntries
    <3> QED BY <3>2 DEF healed
  <2> QED BY <1>1, <2>1 DEF Inv, RestoreWouldHeal, TheLog, SavedLog
<1> QED BY <1>1, InvHolds, PTL

(* store.ts: the entries as appended are a log.  A crash takes it back to   *)
(* what was last saved, a boot that cannot load the file takes it back to   *)
(* nothing, and nothing else alters, reorders or drops an entry.            *)
THEOREM StoreRefinesLog == Spec => DurableSpec
<1>1. Init => Durable!Init
  BY DEF Init, NoFile, NoBackup, Durable!Init, TheLog, SavedLog, Pristine
<1>2. Inv /\ [Next]_vars => [Durable!AppendOne \/ Durable!Save \/ Durable!Lose \/ Durable!Forget]_<<TheLog, SavedLog>>
  BY StepKeeps DEF DurableNext
<1> QED BY <1>1, <1>2, InvHolds, PTL DEF Spec, DurableSpec, Durable!Spec
==============================================================================
