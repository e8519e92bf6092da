--------------------------- MODULE AuditTrail_proofs ---------------------------
(***************************************************************************)
(* What holds of AuditTrail for every set of requests, users and case      *)
(* numbers, every clock and every pool size.  The argument: the advisory   *)
(* lock has one holder (LockInv); what its holder read is still the last   *)
(* hash, and the row it inserted is still beyond the chain, because only   *)
(* the holder commits (HolderInv); so the commit extends the chain by one. *)
(* Further down: the tables and the log tell the same story (DataInv), and *)
(* the walk over the log finds exactly what was altered (SealInv).         *)
(***************************************************************************)
EXTENDS AuditTrail, FiniteSetTheorems, SequenceTheorems, TLAPS

(* An assignee that reached the transaction passed the foreign key. *)
AssigneeKnown ==
  \A r \in Request : pc[r] \in Inserted /\ op[r].kind = "ASSIGN_USER" => op[r].user \in User

(* Past "idle" a request has an operation, and past its document lookup a  *)
(* transfer has its document.                                              *)
OpKnown == \A r \in Request : pc[r] \notin {"idle", "dropped", "error"} => op[r] \in Ops

TypeInv == TypeOK /\ AssigneeKnown /\ OpKnown

LockInv == \A r, s \in Request : pc[r] \in HoldsLock /\ pc[s] \in HoldsLock => r = s

HolderInv ==
  \A r \in Request :
    /\ pc[r] \in {"read", "logged"} => prev[r] = LastHash(auditLog)
    /\ pc[r] = "logged" =>
         /\ row[r].prev_hash = LastHash(auditLog)
         /\ row[r].seq \in 1..lastSeq
         /\ \A e \in auditLog : e.seq < row[r].seq

ChainInv == TypeInv /\ LockInv /\ HolderInv /\ ChainLinked

-----------------------------------------------------------------------------
LEMMA NewRowsTyped ==
  ASSUME TypeInv, NEW r \in Request, pc[r] = "logged"
  PROVE  /\ NewCases(r) \subseteq [id : Request, number : CaseNumber]
         /\ NewAssignments(r) \subseteq Request \X User
         /\ NewDocuments(r) \subseteq [id : Request, case_id : Request, file_path : Request \cup {NoId}]
<1>1. op[r] \in Ops /\ (op[r].kind = "ASSIGN_USER" => op[r].user \in User)
  BY DEF TypeInv, OpKnown, AssigneeKnown, Inserted
<1>2. op[r].actor \in User
  BY <1>1 DEF Ops
<1>3. op[r].kind = "CREATE_CASE" => op[r].on \in CaseNumber
  BY <1>1 DEF Ops
<1>4. op[r].kind \in {"ASSIGN_USER", "UPLOAD", "EVIDENCE"} => op[r].on \in Request
  BY <1>1 DEF Ops
<1> QED
  BY <1>1, <1>2, <1>3, <1>4 DEF NewCases, NewAssignments, NewDocuments

-----------------------------------------------------------------------------
(* A step of request r that leaves operations, tables and the transaction's *)
(* values alone keeps the invariant, provided r arrives where it may.       *)
LEMMA QuietStep ==
  ASSUME ChainInv, NEW r \in Request, NEW to \in PCs \ {"idle", "read", "logged"},
         pc[r] /= "idle",
         pc' = [pc EXCEPT ![r] = to],
         to = "locked" => \A s \in Request : pc[s] \notin HoldsLock,
         to \in {"staged", "locked"} /\ op[r].kind = "ASSIGN_USER" => op[r].user \in User,
         to \notin {"dropped", "error"} => pc[r] \notin {"dropped", "error"},
         UNCHANGED <<op, tx, db>>,
         files' \subseteq Request, inFlight' \subseteq Request, alarms' \subseteq Request,
         UNCHANGED store
  PROVE  ChainInv'
<1> USE DEF ChainInv, TypeInv
<1>1. pc \in [Request -> PCs] /\ pc' \in [Request -> PCs]
  BY DEF TypeOK
<1>2. \A s \in Request \ {r} : pc'[s] = pc[s]
  BY <1>1
<1>3. pc'[r] = to
  BY <1>1
<1>4. TypeOK'
  BY <1>1 DEF TypeOK, tx, db, store
<1>5. AssigneeKnown'
  BY <1>2, <1>3 DEF AssigneeKnown, Inserted
<1>6. OpKnown'
  BY <1>2, <1>3 DEF OpKnown
<1>7. LockInv'
  BY <1>2, <1>3 DEF LockInv, HoldsLock
<1>8. HolderInv'
  BY <1>2, <1>3 DEF HolderInv, tx, db
<1>9. ChainLinked'
  BY DEF ChainLinked, Before, LastHash, db
<1> QED
  BY <1>4, <1>5, <1>6, <1>7, <1>8, <1>9

(* Steps of the ledger service and the network. *)
LEMMA ServiceStep ==
  ASSUME ChainInv, UNCHANGED <<pc, op, tx, db, files>>,
         inFlight' \subseteq Request, alarms' = alarms,
         ledger' \subseteq Request, ledgerFile' \subseteq Request, lost' \subseteq Request
  PROVE  ChainInv'
<1> USE DEF ChainInv, TypeInv
<1>1. TypeOK'
  BY DEF TypeOK, tx, db
<1>2. AssigneeKnown' /\ OpKnown' /\ LockInv'
  BY DEF AssigneeKnown, OpKnown, LockInv
<1>3. HolderInv' /\ ChainLinked'
  BY DEF HolderInv, ChainLinked, Before, LastHash, tx, db
<1> QED
  BY <1>1, <1>2, <1>3

(* A commit appends the holder's row: what was before any other row still  *)
(* is, and before the new row is the whole chain.                          *)
LEMMA CommitStep ==
  ASSUME ChainInv, NEW r \in Request, NEW to \in {"committed", "error", "dropped"},
         pc[r] = "logged", pc' = [pc EXCEPT ![r] = to], MakeVisible(r),
         UNCHANGED <<op, tx, files, service>>
  PROVE  ChainInv' /\ (\A p \in auditLog : p.seq < row[r].seq)
<1> USE DEF ChainInv, TypeInv
<1>1. pc \in [Request -> PCs] /\ pc'[r] = to /\ \A s \in Request \ {r} : pc'[s] = pc[s]
  BY DEF TypeOK
<1>2. /\ row[r].prev_hash = LastHash(auditLog)
      /\ row[r].seq \in 1..lastSeq
      /\ \A e \in auditLog : e.seq < row[r].seq
  BY DEF HolderInv
<1>3. auditLog' = auditLog \cup {row[r]} /\ lastSeq' = lastSeq /\ row' = row /\ prev' = prev
  BY DEF MakeVisible, tx
<1>4. TypeOK'
  <2>1. pc' \in [Request -> PCs]
    BY <1>1 DEF PCs, Final, TypeOK
  <2>2. \A e \in auditLog' : e.seq \in 1..lastSeq'
    BY <1>2, <1>3 DEF TypeOK
  <2>3. /\ cases' \subseteq [id : Request, number : CaseNumber]
        /\ assignments' \subseteq Request \X User
        /\ documents' \subseteq [id : Request, case_id : Request, file_path : Request \cup {NoId}]
    BY NewRowsTyped DEF MakeVisible, TypeOK
  <2> QED
    BY <2>1, <2>2, <2>3 DEF TypeOK, tx, service, store
<1>5. AssigneeKnown' /\ OpKnown'
  BY <1>1 DEF AssigneeKnown, OpKnown, Inserted
<1>6. LockInv' /\ \A s \in Request : pc'[s] \notin HoldsLock
  BY <1>1 DEF LockInv, HoldsLock
<1>7. HolderInv'
  BY <1>6 DEF HolderInv, HoldsLock
<1>8. ChainLinked'
  <2>1. \A e \in auditLog : Before(auditLog', e.seq) = Before(auditLog, e.seq)
    BY <1>2, <1>3 DEF Before, TypeOK
  <2>2. Before(auditLog', row[r].seq) = auditLog
    BY <1>2, <1>3 DEF Before, TypeOK
  <2> QED
    BY <1>2, <1>3, <2>1, <2>2 DEF ChainLinked
<1> QED
  BY <1>2, <1>4, <1>5, <1>6, <1>7, <1>8

LEMMA ChainInit == Init => ChainInv
  BY DEF Init, ChainInv, TypeInv, TypeOK, AssigneeKnown, OpKnown, LockInv, HolderInv,
         ChainLinked, PCs, InTx, Inserted, HoldsLock

LEMMA ChainNext == ChainInv /\ [Next]_vars => ChainInv'
<1> SUFFICES ASSUME ChainInv, [Next]_vars PROVE ChainInv'
  OBVIOUS
<1> USE DEF Step, Goto
<1>0. /\ \A r \in Request : pc[r] \in PCs
      /\ files \subseteq Request /\ inFlight \subseteq Request /\ alarms \subseteq Request
      /\ ledger \subseteq Request /\ ledgerFile \subseteq Request /\ lost \subseteq Request
  BY DEF ChainInv, TypeInv, TypeOK
<1>1. ASSUME NEW r \in Request, Receive(r) PROVE ChainInv'
  <2>1. PICK o \in Ops :
          /\ op' = [op EXCEPT ![r] = o]
          /\ \E to \in {"error", "authorized", "received"} : pc' = [pc EXCEPT ![r] = to]
    BY <1>1 DEF Receive
  <2>2. pc[r] = "idle" /\ UNCHANGED <<tx, db, files, service>>
    BY <1>1 DEF Receive
  <2>3. /\ pc \in [Request -> PCs] /\ op \in [Request -> Ops \cup {NoOp}]
        /\ \A s \in Request \ {r} : pc'[s] = pc[s] /\ op'[s] = op[s]
        /\ pc'[r] \in {"error", "authorized", "received"} /\ op'[r] = o
    BY <2>1 DEF ChainInv, TypeInv, TypeOK
  <2>4. TypeOK'
    BY <2>1, <2>2, <2>3 DEF ChainInv, TypeInv, TypeOK, tx, db, service, store, PCs, Final
  <2>5. AssigneeKnown' /\ OpKnown'
    BY <2>3 DEF ChainInv, TypeInv, AssigneeKnown, OpKnown, Inserted
  <2>6. LockInv' /\ HolderInv'
    BY <2>2, <2>3 DEF ChainInv, LockInv, HolderInv, HoldsLock, tx, db
  <2>7. ChainLinked'
    BY <2>2 DEF ChainInv, ChainLinked, Before, LastHash, db
  <2> QED
    BY <2>4, <2>5, <2>6, <2>7 DEF ChainInv, TypeInv
<1>2. ASSUME NEW r \in Request, CheckCaseExists(r) PROVE ChainInv'
  BY <1>0, <1>2, QuietStep DEF CheckCaseExists, PCs, InTx, Inserted, Final, service, store
<1>3. ASSUME NEW r \in Request, FetchDocument(r) PROVE ChainInv'
  BY <1>0, <1>3, QuietStep DEF FetchDocument, PCs, InTx, Inserted, Final, service, store
<1>4. ASSUME NEW r \in Request, CheckAccess(r) PROVE ChainInv'
  BY <1>0, <1>4, QuietStep DEF CheckAccess, PCs, InTx, Inserted, Final, service, store
<1>5. ASSUME NEW r \in Request, WriteFile(r) PROVE ChainInv'
  BY <1>0, <1>5, QuietStep DEF WriteFile, PCs, InTx, Inserted, Final, service, store
<1>0b. ASSUME NEW r \in Request, Begin(r) PROVE ChainInv'
  BY <1>0, <1>0b, QuietStep DEF Begin, PCs, InTx, Inserted, Final, service, store
<1>6. ASSUME NEW r \in Request, StageRows(r) PROVE ChainInv'
  <2>1. /\ pc[r] = "begun" /\ UNCHANGED <<op, tx, db, files, service>>
        /\ pc' = [pc EXCEPT ![r] = IF Violates(r) THEN "error" ELSE "staged"]
    BY <1>6 DEF StageRows
  <2>2. ~Violates(r) /\ op[r].kind = "ASSIGN_USER" => op[r].user \in User
    BY <2>1 DEF Violates, ChainInv, TypeInv, OpKnown, Ops
  <2>3. CASE Violates(r)
    BY <1>0, <2>1, <2>3, QuietStep DEF PCs, InTx, Inserted, Final, service, store
  <2>4. CASE ~Violates(r)
    BY <1>0, <2>1, <2>2, <2>4, QuietStep DEF PCs, InTx, Inserted, Final, service, store
  <2> QED
    BY <2>3, <2>4
<1>7. ASSUME NEW r \in Request, LockChain(r) PROVE ChainInv'
  BY <1>0, <1>7, QuietStep DEF LockChain, ChainInv, TypeInv, AssigneeKnown, PCs, InTx, Inserted, Final, service, store
<1>8. ASSUME NEW r \in Request, PostToLedger(r) PROVE ChainInv'
  BY <1>0, <1>8, QuietStep DEF PostToLedger, service, PCs, InTx, Inserted, Final, service, store
<1>9. ASSUME NEW r \in Request, LedgerAnswers(r) PROVE ChainInv'
  BY <1>0, <1>9, QuietStep DEF LedgerAnswers, AfterLedger, service, PCs, InTx, Inserted, Final, service, store
<1>10. ASSUME NEW r \in Request, LedgerCallFails(r) PROVE ChainInv'
  BY <1>0, <1>10, QuietStep DEF LedgerCallFails, AfterLedger, service, PCs, InTx, Inserted, Final, service, store
<1>11. ASSUME NEW r \in Request, ReadBack(r) PROVE ChainInv'
  BY <1>0, <1>11, QuietStep DEF ReadBack, PCs, InTx, Inserted, Final, service, store
<1>12. ASSUME NEW r \in Request, Fail(r) PROVE ChainInv'
  BY <1>0, <1>12, QuietStep DEF Fail, Fallible, Final, PCs, InTx, Inserted, Final, service, store
<1>13. ASSUME NEW r \in Request, Disconnect(r) PROVE ChainInv'
  BY <1>0, <1>13, QuietStep DEF Disconnect, Final, PCs, InTx, Inserted, Final, service, store
<1>14. ASSUME NEW r \in Request, ReadLastHash(r) PROVE ChainInv'
  <2>1. /\ pc[r] = "locked" /\ pc \in [Request -> PCs] /\ pc' = [pc EXCEPT ![r] = "read"]
        /\ DOMAIN prev = Request /\ prev' = [prev EXCEPT ![r] = LastHash(auditLog)]
        /\ UNCHANGED <<op, row, lastSeq, db, files, service>>
    BY <1>14 DEF ReadLastHash, ChainInv, TypeInv, TypeOK
  <2>2. TypeInv'
    BY <2>1 DEF ChainInv, TypeInv, TypeOK, AssigneeKnown, OpKnown, db, service, store, PCs, InTx, Inserted
  <2>3. LockInv'
    BY <2>1 DEF ChainInv, LockInv, HoldsLock
  <2>4. LastHash(auditLog)' = LastHash(auditLog) /\ ChainLinked'
    BY <2>1 DEF ChainInv, ChainLinked, LastHash, Before, db
  <2>5. HolderInv'
    BY <2>1, <2>4 DEF ChainInv, HolderInv, db
  <2> QED
    BY <2>2, <2>3, <2>4, <2>5 DEF ChainInv
<1>15. ASSUME NEW r \in Request, InsertAuditRow(r) PROVE ChainInv'
  <2>1. PICK t \in Time : row' = [row EXCEPT ![r] = AuditRow(r, t)]
    BY <1>15 DEF InsertAuditRow
  <2>2. /\ pc[r] = "read" /\ pc \in [Request -> PCs] /\ pc' = [pc EXCEPT ![r] = "logged"]
        /\ DOMAIN row = Request /\ lastSeq \in Nat /\ lastSeq' = lastSeq + 1
        /\ UNCHANGED <<op, prev, db, files, service>>
    BY <1>15 DEF InsertAuditRow, ChainInv, TypeInv, TypeOK
  <2>3. row'[r].seq = lastSeq + 1 /\ row'[r].prev_hash = prev[r]
    BY <2>1, <2>2 DEF AuditRow
  <2>4. TypeInv'
    BY <2>1, <2>2 DEF ChainInv, TypeInv, TypeOK, AssigneeKnown, OpKnown, db, service, store, PCs, InTx, Inserted
  <2>5. LockInv' /\ \A s \in Request \ {r} : pc'[s] = pc[s] /\ pc[s] \notin HoldsLock
    BY <2>2 DEF ChainInv, LockInv, HoldsLock
  <2>6. LastHash(auditLog)' = LastHash(auditLog) /\ ChainLinked'
    BY <2>2 DEF ChainInv, ChainLinked, LastHash, Before, db
  <2>7. \A e \in auditLog : e.seq \in 1..lastSeq
    BY DEF ChainInv, TypeInv, TypeOK
  <2>8. prev[r] = LastHash(auditLog)
    BY <2>2 DEF ChainInv, HolderInv
  <2>9. HolderInv'
    <3>1. /\ row'[r].prev_hash = LastHash(auditLog)' /\ row'[r].seq \in 1..lastSeq'
          /\ \A e \in auditLog' : e.seq < row'[r].seq
      BY <2>2, <2>3, <2>6, <2>7, <2>8 DEF db
    <3>2. \A s \in Request \ {r} : pc'[s] \notin {"read", "logged"}
      BY <2>5 DEF HoldsLock
    <3>3. prev'[r] = LastHash(auditLog)'
      BY <2>2, <2>6, <2>8
    <3> QED
      BY <3>1, <3>2, <3>3 DEF HolderInv
  <2> QED
    BY <2>4, <2>5, <2>6, <2>9 DEF ChainInv
<1>16. ASSUME NEW r \in Request, Commit(r) \/ CommitAnswerLost(r) PROVE ChainInv'
  BY <1>16, CommitStep DEF Commit, CommitAnswerLost
<1>17. ASSUME \/ \E r \in Request : LedgerAppends(r) \/ PostLost(r)
             \/ \E loaded \in FileLoads : LedgerRestarts(loaded)
      PROVE  ChainInv'
  BY <1>0, <1>17, ServiceStep DEF LedgerAppends, PostLost, LedgerRestarts, store
<1>18. ASSUME Crash PROVE ChainInv'
  <2>1. /\ \A r \in Request : pc'[r] = pc[r] \/ pc'[r] = "dropped"
        /\ pc' \in [Request -> PCs] /\ UNCHANGED <<op, tx, db, files, service>>
    BY <1>0, <1>18 DEF Crash, PCs, Final
  <2>2. TypeInv'
    BY <2>1 DEF ChainInv, TypeInv, TypeOK, AssigneeKnown, OpKnown, tx, db, service, store, Inserted
  <2>3. LockInv' /\ HolderInv'
    BY <2>1 DEF ChainInv, LockInv, HolderInv, HoldsLock, tx, db
  <2>4. ChainLinked'
    BY <2>1 DEF ChainInv, ChainLinked, LastHash, Before, db
  <2> QED
    BY <2>2, <2>3, <2>4 DEF ChainInv
<1>19. CASE UNCHANGED vars
  <2>1. /\ UNCHANGED <<pc, op, tx, db, files>>
        /\ UNCHANGED <<inFlight, ledger, ledgerFile, lost, alarms>>
    BY <1>19 DEF vars, service, store
  <2> QED
    BY <1>0, <2>1, ServiceStep
<1> QED
  BY <1>0b, <1>1, <1>2, <1>3, <1>4, <1>5, <1>6, <1>7, <1>8, <1>9, <1>10, <1>11, <1>12, <1>13,
     <1>14, <1>15, <1>16, <1>17, <1>18, <1>19 DEF Next, Handle

(* AuditTrail keeps every variable in its type and the audit log one chain. *)
THEOREM ChainCorrect == Spec => [](TypeOK /\ ChainLinked)
<1>1. ChainInv => TypeOK /\ ChainLinked
  BY DEF ChainInv, TypeInv
<1> QED
  BY ChainInit, ChainNext, <1>1, PTL DEF Spec

-----------------------------------------------------------------------------
(* What a step does to the audit log: nothing, or one row that links to    *)
(* the last hash and lies beyond every row.                                *)
LEMMA LogStep ==
  ASSUME ChainInv, [Next]_vars
  PROVE  \/ auditLog' = auditLog
         \/ \E r \in Request :
              /\ auditLog' = auditLog \cup {row[r]}
              /\ row[r].prev_hash = LastHash(auditLog)
              /\ row[r].seq \in Nat
              /\ \A p \in auditLog : p.seq \in Nat /\ p.seq < row[r].seq
<1>1. ASSUME NEW r \in Request, Commit(r) \/ CommitAnswerLost(r)
      PROVE  /\ auditLog' = auditLog \cup {row[r]}
             /\ row[r].prev_hash = LastHash(auditLog)
             /\ row[r].seq \in Nat
             /\ \A p \in auditLog : p.seq \in Nat /\ p.seq < row[r].seq
  BY <1>1 DEF Commit, CommitAnswerLost, MakeVisible, Step, ChainInv, HolderInv, TypeInv, TypeOK
<1>2. ASSUME ~ \E r \in Request : Commit(r) \/ CommitAnswerLost(r)
      PROVE  auditLog' = auditLog
  BY <1>2 DEF Next, Handle, Receive, CheckCaseExists, FetchDocument, CheckAccess, WriteFile,
     Begin, StageRows, LockChain, ReadLastHash, InsertAuditRow, PostToLedger, LedgerAnswers,
     LedgerCallFails, ReadBack, Fail, Disconnect, Crash, LedgerAppends, PostLost, LedgerRestarts,
     db, vars
<1> QED
  BY <1>1, <1>2

(* Rows become visible in the order of their seq, and never change. *)
THEOREM CommitOrder == Spec => CommitsInSeqOrder
<1>1. ASSUME ChainInv, [Next]_vars
      PROVE  [/\ auditLog \subseteq auditLog'
              /\ \A e \in auditLog' \ auditLog, p \in auditLog : p.seq < e.seq]_vars
  BY <1>1, LogStep
<1> QED
  BY ChainInit, ChainNext, <1>1, PTL DEF Spec, CommitsInSeqOrder

(* Extending the chain by a row beyond all others moves its last hash to   *)
(* that row's.                                                             *)
LEMMA LastOfExtended ==
  ASSUME NEW rows, NEW e, \A p \in rows : p.seq \in Nat /\ p.seq < e.seq, e.seq \in Nat
  PROVE  LastHash(rows \cup {e}) = e.entry_hash
<1>1. \A p \in rows \cup {e} : (\A q \in rows \cup {e} : q.seq <= p.seq) <=> p = e
  OBVIOUS
<1> QED
  BY <1>1 DEF LastHash

(* The write path implements the abstract hash chain. *)
THEOREM ChainRefined == Spec => ChainSpec
<1>1. Init => Chain!Init
  BY DEF Init, Chain!Init, LastHash
<1>2. ASSUME ChainInv, [Next]_vars
      PROVE  [Chain!Extend]_<<auditLog, LastHash(auditLog)>>
  <2>1. CASE auditLog' = auditLog
    BY <2>1 DEF LastHash
  <2>2. CASE auditLog' /= auditLog
    <3>1. PICK r \in Request :
            /\ auditLog' = auditLog \cup {row[r]}
            /\ row[r].prev_hash = LastHash(auditLog)
            /\ row[r].seq \in Nat
            /\ \A p \in auditLog : p.seq \in Nat /\ p.seq < row[r].seq
      BY <1>2, <2>2, LogStep
    <3>2. LastHash(auditLog') = row[r].entry_hash
      BY <3>1, LastOfExtended
    <3>3. row[r] \in auditLog' \ auditLog
      BY <2>2, <3>1
    <3> QED
      BY <3>1, <3>2, <3>3 DEF Chain!Extend
  <2> QED
    BY <2>1, <2>2
<1> QED
  BY ChainInit, ChainNext, <1>1, <1>2, PTL DEF Spec, ChainSpec, Chain!Spec

-----------------------------------------------------------------------------
(* Where a request's event is recorded, by how far its handler has come. *)
RecordAt(r) ==
  /\ pc[r] \in {"committed", "posted", "reading", "ok"} => row[r] \in auditLog
  /\ pc[r] \in {"reading", "ok"} => r \in Accepted \cup alarms
  /\ r \in inFlight \cup Accepted \cup ledgerFile =>
       pc[r] \in {"posted", "reading", "ok", "error", "dropped"} /\ row[r] \in auditLog

RecordInv == TypeOK /\ \A r \in Request : RecordAt(r)

(* A step of request r that only adds records keeps those of the others. *)
LEMMA RecordStep ==
  ASSUME RecordInv, TypeOK', NEW r \in Request, RecordAt(r)',
         \A s \in Request \ {r} : pc'[s] = pc[s] /\ row'[s] = row[s],
         auditLog \subseteq auditLog', Accepted \subseteq Accepted', alarms \subseteq alarms',
         inFlight' \cup Accepted' \cup ledgerFile' \subseteq inFlight \cup Accepted \cup ledgerFile \cup {r}
  PROVE  RecordInv'
  BY DEF RecordInv, RecordAt

LEMMA RecordNext == RecordInv /\ TypeOK' /\ [Next]_vars => RecordInv'
<1> SUFFICES ASSUME RecordInv, TypeOK', [Next]_vars PROVE RecordInv'
  OBVIOUS
<1>0. pc \in [Request -> PCs] /\ DOMAIN row = Request
  BY DEF RecordInv, TypeOK
<1> USE DEF Step, Goto
<1>1. ASSUME NEW r \in Request, Receive(r) PROVE RecordInv'
  <2>1. /\ \A s \in Request \ {r} : pc'[s] = pc[s]
        /\ RecordAt(r)' /\ UNCHANGED <<row, auditLog, inFlight, store, alarms>>
    BY <1>0, <1>1 DEF Receive, RecordInv, RecordAt, tx, db, service, store, Accepted, InTx, Inserted, Final
  <2> QED
    BY <2>1, RecordStep DEF store, Accepted
<1>2. ASSUME NEW r \in Request, CheckCaseExists(r) PROVE RecordInv'
  <2>1. /\ \A s \in Request \ {r} : pc'[s] = pc[s]
        /\ RecordAt(r)' /\ UNCHANGED <<row, auditLog, inFlight, store, alarms>>
    BY <1>0, <1>2 DEF CheckCaseExists, RecordInv, RecordAt, tx, db, service, store, Accepted, InTx, Inserted, Final
  <2> QED
    BY <2>1, RecordStep DEF store, Accepted
<1>3. ASSUME NEW r \in Request, FetchDocument(r) PROVE RecordInv'
  <2>1. /\ \A s \in Request \ {r} : pc'[s] = pc[s]
        /\ RecordAt(r)' /\ UNCHANGED <<row, auditLog, inFlight, store, alarms>>
    BY <1>0, <1>3 DEF FetchDocument, RecordInv, RecordAt, tx, db, service, store, Accepted, InTx, Inserted, Final
  <2> QED
    BY <2>1, RecordStep DEF store, Accepted
<1>4. ASSUME NEW r \in Request, CheckAccess(r) PROVE RecordInv'
  <2>1. /\ \A s \in Request \ {r} : pc'[s] = pc[s]
        /\ RecordAt(r)' /\ UNCHANGED <<row, auditLog, inFlight, store, alarms>>
    BY <1>0, <1>4 DEF CheckAccess, RecordInv, RecordAt, tx, db, service, store, Accepted, InTx, Inserted, Final
  <2> QED
    BY <2>1, RecordStep DEF store, Accepted
<1>5. ASSUME NEW r \in Request, WriteFile(r) PROVE RecordInv'
  <2>1. /\ \A s \in Request \ {r} : pc'[s] = pc[s]
        /\ RecordAt(r)' /\ UNCHANGED <<row, auditLog, inFlight, store, alarms>>
    BY <1>0, <1>5 DEF WriteFile, RecordInv, RecordAt, tx, db, service, store, Accepted, InTx, Inserted, Final
  <2> QED
    BY <2>1, RecordStep DEF store, Accepted
<1>6. ASSUME NEW r \in Request, StageRows(r) PROVE RecordInv'
  <2>1. /\ \A s \in Request \ {r} : pc'[s] = pc[s]
        /\ RecordAt(r)' /\ UNCHANGED <<row, auditLog, inFlight, store, alarms>>
    BY <1>0, <1>6 DEF StageRows, RecordInv, RecordAt, tx, db, service, store, Accepted, InTx, Inserted, Final
  <2> QED
    BY <2>1, RecordStep DEF store, Accepted
<1>6b. ASSUME NEW r \in Request, Begin(r) PROVE RecordInv'
  <2>1. /\ \A s \in Request \ {r} : pc'[s] = pc[s]
        /\ RecordAt(r)' /\ UNCHANGED <<row, auditLog, inFlight, store, alarms>>
    BY <1>0, <1>6b DEF Begin, RecordInv, RecordAt, tx, db, service, store, Accepted, InTx, Inserted, Final
  <2> QED
    BY <2>1, RecordStep DEF store, Accepted
<1>7. ASSUME NEW r \in Request, LockChain(r) PROVE RecordInv'
  <2>1. /\ \A s \in Request \ {r} : pc'[s] = pc[s]
        /\ RecordAt(r)' /\ UNCHANGED <<row, auditLog, inFlight, store, alarms>>
    BY <1>0, <1>7 DEF LockChain, RecordInv, RecordAt, tx, db, service, store, Accepted, InTx, Inserted, Final
  <2> QED
    BY <2>1, RecordStep DEF store, Accepted
<1>8. ASSUME NEW r \in Request, ReadLastHash(r) PROVE RecordInv'
  <2>1. /\ \A s \in Request \ {r} : pc'[s] = pc[s]
        /\ RecordAt(r)' /\ UNCHANGED <<row, auditLog, inFlight, store, alarms>>
    BY <1>0, <1>8 DEF ReadLastHash, RecordInv, RecordAt, tx, db, service, store, Accepted, InTx, Inserted, Final
  <2> QED
    BY <2>1, RecordStep DEF store, Accepted
<1>9. ASSUME NEW r \in Request, Fail(r) PROVE RecordInv'
  <2>1. /\ \A s \in Request \ {r} : pc'[s] = pc[s]
        /\ RecordAt(r)' /\ UNCHANGED <<row, auditLog, inFlight, store, alarms>>
    BY <1>0, <1>9 DEF Fail, Fallible, RecordInv, RecordAt, tx, db, service, store, Accepted, InTx, Inserted, Final
  <2> QED
    BY <2>1, RecordStep DEF store, Accepted
<1>10. ASSUME NEW r \in Request, Disconnect(r) PROVE RecordInv'
  <2>1. /\ \A s \in Request \ {r} : pc'[s] = pc[s]
        /\ RecordAt(r)' /\ UNCHANGED <<row, auditLog, inFlight, store, alarms>>
    BY <1>0, <1>10 DEF Disconnect, RecordInv, RecordAt, tx, db, service, store, Accepted, InTx, Inserted, Final
  <2> QED
    BY <2>1, RecordStep DEF store, Accepted
<1>11. ASSUME NEW r \in Request, InsertAuditRow(r) PROVE RecordInv'
  <2>1. \A s \in Request \ {r} : pc'[s] = pc[s] /\ row'[s] = row[s]
    BY <1>0, <1>11 DEF InsertAuditRow, db, service
  <2>2. RecordAt(r)'
    BY <1>0, <1>11 DEF InsertAuditRow, db, RecordInv, RecordAt, service, store, Accepted
  <2> QED
    BY <1>11, <2>1, <2>2, RecordStep DEF InsertAuditRow, db, service, store, Accepted
<1>12. ASSUME NEW r \in Request, Commit(r) PROVE RecordInv'
  <2>1. \A s \in Request \ {r} : pc'[s] = pc[s] /\ row'[s] = row[s]
    BY <1>0, <1>12 DEF Commit, MakeVisible, tx, service
  <2>2. RecordAt(r)'
    BY <1>0, <1>12 DEF Commit, MakeVisible, tx, RecordInv, RecordAt, service, store, Accepted
  <2> QED
    BY <1>12, <2>1, <2>2, RecordStep DEF Commit, MakeVisible, tx, service, store, Accepted
<1>13. ASSUME NEW r \in Request, CommitAnswerLost(r) PROVE RecordInv'
  <2>1. \A s \in Request \ {r} : pc'[s] = pc[s] /\ row'[s] = row[s]
    BY <1>0, <1>13 DEF CommitAnswerLost, MakeVisible, tx, service
  <2>2. RecordAt(r)'
    BY <1>0, <1>13 DEF CommitAnswerLost, MakeVisible, tx, RecordInv, RecordAt, service, store, Accepted
  <2> QED
    BY <1>13, <2>1, <2>2, RecordStep DEF CommitAnswerLost, MakeVisible, tx, service, store, Accepted
<1>14. ASSUME NEW r \in Request, PostToLedger(r) PROVE RecordInv'
  <2>1. \A s \in Request \ {r} : pc'[s] = pc[s] /\ row'[s] = row[s]
    BY <1>0, <1>14 DEF PostToLedger, tx, db
  <2>2. RecordAt(r)'
    BY <1>0, <1>14 DEF PostToLedger, tx, db, RecordInv, RecordAt, service, store, Accepted
  <2> QED
    BY <1>14, <2>1, <2>2, RecordStep DEF PostToLedger, tx, db, service, store, Accepted
<1>15. ASSUME NEW r \in Request, LedgerAnswers(r) PROVE RecordInv'
  <2>1. \A s \in Request \ {r} : pc'[s] = pc[s] /\ row'[s] = row[s]
    BY <1>0, <1>15 DEF LedgerAnswers, AfterLedger, tx, db, service
  <2>2. RecordAt(r)'
    BY <1>0, <1>15 DEF LedgerAnswers, AfterLedger, tx, db, RecordInv, RecordAt, service, store, Accepted
  <2> QED
    BY <1>15, <2>1, <2>2, RecordStep DEF LedgerAnswers, AfterLedger, tx, db, service, store, Accepted
<1>16. ASSUME NEW r \in Request, LedgerCallFails(r) PROVE RecordInv'
  <2>1. \A s \in Request \ {r} : pc'[s] = pc[s] /\ row'[s] = row[s]
    BY <1>0, <1>16 DEF LedgerCallFails, AfterLedger, tx, db
  <2>2. RecordAt(r)'
    BY <1>0, <1>16 DEF LedgerCallFails, AfterLedger, tx, db, RecordInv, RecordAt, service, store, Accepted
  <2> QED
    BY <1>16, <2>1, <2>2, RecordStep DEF LedgerCallFails, AfterLedger, tx, db, service, store, Accepted
<1>17. ASSUME NEW r \in Request, ReadBack(r) PROVE RecordInv'
  <2>1. \A s \in Request \ {r} : pc'[s] = pc[s] /\ row'[s] = row[s]
    BY <1>0, <1>17 DEF ReadBack, tx, db, service
  <2>2. RecordAt(r)'
    BY <1>0, <1>17 DEF ReadBack, tx, db, RecordInv, RecordAt, service, store, Accepted
  <2> QED
    BY <1>17, <2>1, <2>2, RecordStep DEF ReadBack, tx, db, service, store, Accepted
<1>18. ASSUME NEW r \in Request, LedgerAppends(r) PROVE RecordInv'
  <2>1. \A s \in Request \ {r} : pc'[s] = pc[s] /\ row'[s] = row[s]
    BY <1>0, <1>18 DEF LedgerAppends, tx, db
  <2>2. RecordAt(r)'
    BY <1>0, <1>18 DEF LedgerAppends, tx, db, RecordInv, RecordAt, service, store, Accepted
  <2> QED
    BY <1>18, <2>1, <2>2, RecordStep DEF LedgerAppends, tx, db, service, store, Accepted
<1>19. ASSUME NEW r \in Request, PostLost(r) PROVE RecordInv'
  <2>1. \A s \in Request \ {r} : pc'[s] = pc[s] /\ row'[s] = row[s]
    BY <1>0, <1>19 DEF PostLost, tx, db
  <2>2. RecordAt(r)'
    BY <1>0, <1>19 DEF PostLost, tx, db, RecordInv, RecordAt, service, store, Accepted
  <2> QED
    BY <1>19, <2>1, <2>2, RecordStep DEF PostLost, tx, db, service, store, Accepted
<1>20. ASSUME Crash PROVE RecordInv'
  <2>1. \A r \in Request : pc'[r] = pc[r] \/ pc'[r] = "dropped"
    BY <1>0, <1>20 DEF Crash
  <2> QED
    BY <1>20, <2>1 DEF Crash, RecordInv, RecordAt, tx, db, service, store, Accepted
<1>21. CASE UNCHANGED vars
  BY <1>21 DEF vars, RecordInv, RecordAt, tx, db, service, store, Accepted
<1>22. ASSUME NEW loaded \in FileLoads, LedgerRestarts(loaded) PROVE RecordInv'
  <2>1. UNCHANGED <<pc, row, auditLog, inFlight, ledgerFile, alarms>>
    BY <1>22 DEF LedgerRestarts, tx, db
  <2>2. Accepted \subseteq Accepted' /\ Accepted' \subseteq Accepted \cup ledgerFile
    BY <1>22 DEF LedgerRestarts, Accepted
  <2> QED
    BY <2>1, <2>2 DEF RecordInv, RecordAt
<1> QED
  BY <1>1, <1>2, <1>3, <1>4, <1>5, <1>6, <1>6b, <1>7, <1>8, <1>9, <1>10, <1>11, <1>12, <1>13, <1>14,
     <1>15, <1>16, <1>17, <1>18, <1>19, <1>20, <1>21, <1>22 DEF Next, Handle

LEMMA RecordHolds == Spec => []RecordInv
<1>1. Init => RecordInv
  BY ChainInit DEF Init, ChainInv, TypeInv, RecordInv, RecordAt, Accepted
<1>2. ChainInv => TypeOK
  BY DEF ChainInv, TypeInv
<1> QED
  BY ChainInit, ChainNext, RecordNext, <1>1, <1>2, PTL DEF Spec

(* A 200 answer stands for a committed audit row and an entry the ledger   *)
(* has taken or a logged gap.                                              *)
THEOREM EventsRecorded == Spec => []AnsweredMeansRecorded
<1>1. RecordInv => AnsweredMeansRecorded
  BY DEF RecordInv, RecordAt, AnsweredMeansRecorded
<1> QED
  BY RecordHolds, <1>1, PTL

(* The ledger never runs ahead of Postgres: what it holds, has held or     *)
(* keeps on disk, or a POST on its way to it carries, is a committed row.  *)
THEOREM LedgerFollows == Spec => []LedgerBacked
<1>1. RecordInv => LedgerBacked
  BY DEF RecordInv, RecordAt, LedgerBacked, Accepted, TypeOK
<1> QED
  BY RecordHolds, <1>1, PTL

-----------------------------------------------------------------------------
(* The tables and the log.  What a handler looked up before its transaction *)
(* still holds when it commits (CallInv, Apart, KeysInv).                   *)
CaseIds == {c.id : c \in cases}
DocIds == {d.id : d \in documents}

Unwritten == {"idle", "received", "fetched", "authorized", "stored"} \cup InTx
Checked == {"authorized", "stored"} \cup InTx

(* What a call still to commit may rely on: its fresh id is taken by nobody, *)
(* what it looked up is there, and a caller without access got no further.   *)
CallInv(r) ==
  /\ pc[r] \in Unwritten => r \notin CaseIds \cup DocIds
  /\ pc[r] \in Unwritten \ {"idle"} =>
       /\ op[r] \in Ops
       /\ op[r].kind \in {"CREATE_CASE", "ASSIGN_USER"} => Role[op[r].actor] /= "investigator"
  /\ pc[r] \in Checked /\ op[r].kind = "ASSIGN_USER" => op[r].on \in CaseIds
  /\ pc[r] \in Checked \cup {"fetched"} /\ op[r].kind = "TRANSFER" => op[r].on \in DocIds
  /\ pc[r] \in Checked /\ Role[op[r].actor] = "investigator" =>
       <<CaseOf(r), op[r].actor>> \in assignments
  /\ pc[r] \in Inserted => ~Violates(r)
  /\ pc[r] = "logged" =>
       /\ row[r].actor_id = op[r].actor
       /\ row[r].action = ActionOf(r)
       /\ row[r].document_id = DocOf(r)
       /\ row[r].case_id = CaseOf(r)

(* Transactions that are open together insert different keys. *)
Apart ==
  \A r, s \in Request : r /= s /\ pc[r] \in Inserted /\ pc[s] \in Inserted => ~Conflicts(r, s)

(* Ids are keys, and what a row refers to is there. *)
KeysInv ==
  /\ \A c, d \in cases : c.id = d.id \/ c.number = d.number => c = d
  /\ \A d, f \in documents : d.id = f.id => d = f
  /\ \A d \in documents : d.case_id \in CaseIds
  /\ \A a \in assignments : a[1] \in CaseIds
  /\ \A e \in auditLog : e.case_id \in CaseIds /\ e.actor_id \in User
  /\ \A e, f \in auditLog : e.seq = f.seq => e = f
  /\ IsFiniteSet(auditLog) /\ IsFiniteSet(assignments) /\ IsFiniteSet(documents)

DataInv ==
  /\ \A r \in Request : CallInv(r)
  /\ Apart /\ KeysInv
  /\ AuditMatchesData /\ ChainCausal /\ InvestigatorScoped

-----------------------------------------------------------------------------
(* What is said of a call depends on its operation, row and the tables only.*)
LEMMA SameReading ==
  ASSUME UNCHANGED <<op, row, db>>
  PROVE  /\ CaseIds' = CaseIds /\ DocIds' = DocIds
         /\ \A s \in Request :
              /\ CaseOf(s)' = CaseOf(s) /\ DocOf(s)' = DocOf(s) /\ ActionOf(s)' = ActionOf(s)
              /\ Violates(s)' <=> Violates(s)
              /\ \A t \in Request : Conflicts(s, t)' <=> Conflicts(s, t)
         /\ KeysInv' <=> KeysInv
         /\ AuditMatchesData' <=> AuditMatchesData
         /\ ChainCausal' <=> ChainCausal
         /\ InvestigatorScoped' <=> InvestigatorScoped
<1>1. op' = op /\ row' = row /\ cases' = cases /\ assignments' = assignments
      /\ documents' = documents /\ auditLog' = auditLog
  BY DEF db
<1>2. CaseIds' = CaseIds /\ DocIds' = DocIds
  BY <1>1 DEF CaseIds, DocIds
<1>3. \A s \in Request : CaseOf(s)' = CaseOf(s) /\ DocOf(s)' = DocOf(s) /\ ActionOf(s)' = ActionOf(s)
  BY <1>1 DEF CaseOf, DocumentOf, DocOf, ActionOf
<1>4. \A s \in Request : NewAssignments(s)' = NewAssignments(s)
  BY <1>1 DEF NewAssignments
<1>5. \A s \in Request : Violates(s)' <=> Violates(s)
  BY <1>1, <1>4 DEF Violates
<1>6. \A s, t \in Request : Conflicts(s, t)' <=> Conflicts(s, t)
  BY <1>1, <1>4 DEF Conflicts
<1>7. KeysInv' <=> KeysInv
  BY <1>1, <1>2 DEF KeysInv
<1>8. AuditMatchesData' <=> AuditMatchesData
  BY <1>1 DEF AuditMatchesData, RowsOf
<1>9. ChainCausal' <=> ChainCausal
  BY <1>1 DEF ChainCausal, RowsOf
<1>10. InvestigatorScoped' <=> InvestigatorScoped
  BY <1>1 DEF InvestigatorScoped
<1> QED BY <1>2, <1>3, <1>5, <1>6, <1>7, <1>8, <1>9, <1>10

(* A call that ended, or is past its commit, has nothing left to promise.   *)
LEMMA NothingToPromise == ASSUME NEW r \in Request, pc[r] \notin Unwritten PROVE CallInv(r)
BY DEF CallInv, Unwritten, Checked, InTx, Inserted

(* A step that leaves operations, rows and tables alone.                    *)
LEMMA QuietData ==
  ASSUME DataInv, UNCHANGED <<op, row, db>>,
         \A s \in Request : pc'[s] = pc[s] \/ pc'[s] \notin Unwritten \/ CallInv(s)',
         \A s \in Request : pc'[s] \in Inserted =>
            pc[s] \in Inserted \/ (~Waits(s) /\ \A t \in Request \ {s} : pc'[t] = pc[t])
  PROVE  DataInv'
<1>1. \A s \in Request : CallInv(s)'
  <2> TAKE s \in Request
  <2>1. CASE pc'[s] = pc[s]
    BY <2>1, SameReading DEF DataInv, CallInv, db
  <2>2. CASE pc'[s] \notin Unwritten
    BY <2>2 DEF CallInv, Unwritten, Checked, InTx, Inserted
  <2> QED BY <2>1, <2>2
<1>2. Apart'
  <2>1. \A s, t \in Request : Conflicts(s, t) <=> Conflicts(t, s)
    BY DEF Conflicts
  <2>2. SUFFICES ASSUME NEW s \in Request, NEW t \in Request, s /= t,
                        pc'[s] \in Inserted, pc'[t] \in Inserted
                 PROVE  ~Conflicts(s, t)
    BY SameReading DEF Apart
  <2>3. CASE pc[s] \in Inserted /\ pc[t] \in Inserted
    BY <2>2, <2>3 DEF DataInv, Apart
  <2>4. CASE pc[s] \notin Inserted
    BY <2>2, <2>4 DEF Waits
  <2>5. CASE pc[t] \notin Inserted
    BY <2>1, <2>2, <2>5 DEF Waits
  <2> QED BY <2>3, <2>4, <2>5
<1> QED BY <1>1, <1>2, SameReading DEF DataInv

(* The steps of one handler that write no row.                              *)
LEMMA HandlerData ==
  ASSUME ChainInv, DataInv, NEW r \in Request,
         \/ CheckCaseExists(r) \/ FetchDocument(r) \/ CheckAccess(r) \/ WriteFile(r)
         \/ Begin(r) \/ StageRows(r) \/ LockChain(r) \/ ReadLastHash(r)
  PROVE  DataInv'
<1> USE DEF Step, Goto
<1>0. pc \in [Request -> PCs] /\ CallInv(r)
  BY DEF ChainInv, TypeInv, TypeOK, DataInv
<1>1. UNCHANGED <<op, row, db>> /\ \A s \in Request \ {r} : pc'[s] = pc[s]
  BY <1>0 DEF CheckCaseExists, FetchDocument, CheckAccess, WriteFile, Begin, StageRows,
     LockChain, ReadLastHash, tx
<1>2. CASE CheckCaseExists(r)
  <2>1. CASE \E c \in cases : c.id = op[r].on
    <3>1. pc[r] = "received" /\ pc'[r] = "authorized" /\ op[r].kind = "ASSIGN_USER" /\ op[r].on \in CaseIds
      BY <1>0, <1>2, <2>1 DEF CheckCaseExists, CaseIds
    <3>2. CallInv(r)'
      BY <1>0, <1>1, <3>1, SameReading DEF CallInv, Unwritten, Checked, InTx, Inserted
    <3> QED BY <1>1, <3>1, <3>2, QuietData DEF Inserted
  <2>2. CASE ~ \E c \in cases : c.id = op[r].on
    BY <1>0, <1>1, <1>2, <2>2, QuietData DEF CheckCaseExists, Unwritten, InTx, Inserted
  <2> QED BY <2>1, <2>2
<1>3. CASE FetchDocument(r)
  <2>1. CASE \E d \in documents : d.id = op[r].on
    <3>1. pc[r] = "received" /\ pc'[r] = "fetched" /\ op[r].kind = "TRANSFER" /\ op[r].on \in DocIds
      BY <1>0, <1>3, <2>1 DEF FetchDocument, DocIds
    <3>2. CallInv(r)'
      BY <1>0, <1>1, <3>1, SameReading DEF CallInv, Unwritten, Checked, InTx, Inserted
    <3> QED BY <1>1, <3>1, <3>2, QuietData DEF Inserted
  <2>2. CASE ~ \E d \in documents : d.id = op[r].on
    BY <1>0, <1>1, <1>3, <2>2, QuietData DEF FetchDocument, Unwritten, InTx, Inserted
  <2> QED BY <2>1, <2>2
<1>4. CASE CheckAccess(r)
  <2>1. CASE assert_case_access(op[r].actor, CaseOf(r))
    <3>1. /\ pc'[r] = "authorized" /\ op[r].kind \in {"UPLOAD", "EVIDENCE", "TRANSFER"}
          /\ pc[r] = IF op[r].kind = "TRANSFER" THEN "fetched" ELSE "received"
          /\ Role[op[r].actor] = "investigator" => <<CaseOf(r), op[r].actor>> \in assignments
      BY <1>0, <1>4, <2>1 DEF CheckAccess, assert_case_access
    <3>2. CallInv(r)'
      BY <1>0, <1>1, <3>1, SameReading DEF CallInv, Unwritten, Checked, InTx, Inserted, db
    <3> QED BY <1>1, <3>1, <3>2, QuietData DEF Inserted
  <2>2. CASE ~assert_case_access(op[r].actor, CaseOf(r))
    BY <1>0, <1>1, <1>4, <2>2, QuietData DEF CheckAccess, Unwritten, InTx, Inserted
  <2> QED BY <2>1, <2>2
<1>5. CASE WriteFile(r)
  <2>1. pc[r] = "authorized" /\ pc'[r] = "stored"
    BY <1>0, <1>5 DEF WriteFile
  <2>2. CallInv(r)'
    BY <1>0, <1>1, <2>1, SameReading DEF CallInv, Unwritten, Checked, InTx, Inserted, db
  <2> QED BY <1>1, <2>1, <2>2, QuietData DEF Inserted
<1>6. CASE StageRows(r)
  <2>1. CASE ~Violates(r)
    <3>1. pc[r] = "begun" /\ pc'[r] = "staged" /\ ~Waits(r)
      BY <1>0, <1>6, <2>1 DEF StageRows
    <3>2. CallInv(r)'
      BY <1>0, <1>1, <2>1, <3>1, SameReading DEF CallInv, Unwritten, Checked, InTx, Inserted, db
    <3> QED BY <1>1, <3>1, <3>2, QuietData
  <2>2. CASE Violates(r)
    BY <1>0, <1>1, <1>6, <2>2, QuietData DEF StageRows, Unwritten, InTx, Inserted
  <2> QED BY <2>1, <2>2
<1>7. CASE LockChain(r) \/ ReadLastHash(r)
  <2>1. pc[r] \in {"staged", "locked"} /\ pc'[r] \in {"locked", "read"}
    BY <1>0, <1>7 DEF LockChain, ReadLastHash
  <2>2. CallInv(r)'
    BY <1>0, <1>1, <2>1, SameReading DEF CallInv, Unwritten, Checked, InTx, Inserted, db
  <2> QED BY <1>1, <2>1, <2>2, QuietData DEF Inserted
<1>8. CASE Begin(r)
  <2>1. /\ pc[r] \in {"authorized", "stored"} /\ pc'[r] = "begun"
    BY <1>0, <1>8 DEF Begin
  <2>2. CallInv(r)'
    BY <1>0, <1>1, <2>1, SameReading DEF CallInv, Unwritten, Checked, InTx, Inserted, db
  <2> QED BY <1>1, <2>1, <2>2, QuietData DEF Inserted
<1> QED BY <1>2, <1>3, <1>4, <1>5, <1>6, <1>7, <1>8

(* The steps after the commit, and those that end a call.                   *)
LEMMA EndingData ==
  ASSUME ChainInv, DataInv,
         \/ \E r \in Request :
              \/ PostToLedger(r) \/ LedgerAnswers(r) \/ LedgerCallFails(r) \/ ReadBack(r)
              \/ Fail(r) \/ Disconnect(r) \/ LedgerAppends(r) \/ PostLost(r)
         \/ Crash \/ UNCHANGED vars
         \/ \E loaded \in FileLoads : LedgerRestarts(loaded)
  PROVE  DataInv'
<1> USE DEF Step, Goto
<1>0. pc \in [Request -> PCs]
  BY DEF ChainInv, TypeInv, TypeOK
<1>1. UNCHANGED <<op, row, db>>
  BY DEF PostToLedger, LedgerAnswers, LedgerCallFails, ReadBack, Fail, Disconnect, LedgerAppends,
     PostLost, Crash, LedgerRestarts, vars, tx
<1>2. \A s \in Request : pc'[s] = pc[s] \/ pc'[s] \in {"posted", "reading", "ok", "error", "dropped"}
  BY <1>0 DEF PostToLedger, LedgerAnswers, LedgerCallFails, AfterLedger, ReadBack, Fail, Disconnect,
     LedgerAppends, PostLost, Crash, LedgerRestarts, vars
<1> QED BY <1>1, <1>2, QuietData DEF Unwritten, InTx, Inserted

(* What is said of one call, when only the others' operations change.       *)
LEMMA SameCall ==
  ASSUME NEW s \in Request, op'[s] = op[s], UNCHANGED db
  PROVE  /\ CaseOf(s)' = CaseOf(s) /\ DocOf(s)' = DocOf(s) /\ ActionOf(s)' = ActionOf(s)
         /\ Violates(s)' <=> Violates(s)
         /\ NewAssignments(s)' = NewAssignments(s)
<1>1. cases' = cases /\ assignments' = assignments /\ documents' = documents
  BY DEF db
<1>2. NewAssignments(s)' = NewAssignments(s)
  BY DEF NewAssignments
<1> QED BY <1>1, <1>2 DEF CaseOf, DocumentOf, DocOf, ActionOf, Violates

LEMMA SameTables ==
  ASSUME UNCHANGED db
  PROVE  /\ CaseIds' = CaseIds /\ DocIds' = DocIds
         /\ KeysInv' <=> KeysInv
         /\ AuditMatchesData' <=> AuditMatchesData
         /\ ChainCausal' <=> ChainCausal
         /\ InvestigatorScoped' <=> InvestigatorScoped
<1>1. cases' = cases /\ assignments' = assignments /\ documents' = documents /\ auditLog' = auditLog
  BY DEF db
<1>2. CaseIds' = CaseIds /\ DocIds' = DocIds
  BY <1>1 DEF CaseIds, DocIds
<1> QED BY <1>1, <1>2 DEF KeysInv, AuditMatchesData, RowsOf, ChainCausal, InvestigatorScoped

LEMMA ReceiveData == ASSUME ChainInv, DataInv, NEW r \in Request, Receive(r) PROVE DataInv'
<1>1. PICK o \in Ops :
        /\ op' = [op EXCEPT ![r] = o]
        /\ Goto(r, IF o.kind \in {"CREATE_CASE", "ASSIGN_USER"} /\ Role[o.actor] = "investigator"
                   THEN "error"
                   ELSE IF o.kind = "CREATE_CASE" THEN "authorized" ELSE "received")
  BY DEF Receive
<1>2. pc[r] = "idle" /\ UNCHANGED <<tx, db>>
  BY DEF Receive
<1>3. /\ op'[r] = o
      /\ pc'[r] = IF o.kind \in {"CREATE_CASE", "ASSIGN_USER"} /\ Role[o.actor] = "investigator"
                  THEN "error"
                  ELSE IF o.kind = "CREATE_CASE" THEN "authorized" ELSE "received"
      /\ \A s \in Request \ {r} : pc'[s] = pc[s] /\ op'[s] = op[s] /\ row'[s] = row[s]
  BY <1>1, <1>2 DEF Goto, tx, ChainInv, TypeInv, TypeOK
<1>4. \A s \in Request \ {r} : CallInv(s)'
  BY <1>2, <1>3, SameCall, SameTables DEF DataInv, CallInv, db
<1>5. CallInv(r)'
  <2>1. r \notin CaseIds' \cup DocIds'
    BY <1>2, SameTables DEF DataInv, CallInv, Unwritten
  <2>2. /\ op'[r] \in Ops /\ pc'[r] \in {"error", "authorized", "received"}
        /\ pc'[r] = "authorized" => op'[r].kind = "CREATE_CASE"
        /\ pc'[r] /= "error" /\ op'[r].kind \in {"CREATE_CASE", "ASSIGN_USER"} =>
             Role[op'[r].actor] /= "investigator"
    BY <1>3
  <2> QED BY <2>1, <2>2 DEF CallInv, Checked, InTx, Inserted, Unwritten
<1>6. Apart'
  <2>1. ASSUME NEW s \in Request, NEW t \in Request, s /= t, pc'[s] \in Inserted, pc'[t] \in Inserted
        PROVE  ~Conflicts(s, t)'
    <3>1. s /= r /\ t /= r
      BY <1>3, <2>1 DEF Inserted
    <3>2. ~Conflicts(s, t)
      BY <1>3, <2>1, <3>1 DEF DataInv, Apart
    <3> QED BY <1>2, <1>3, <3>1, <3>2, SameCall DEF Conflicts
  <2> QED BY <2>1 DEF Apart
<1> QED BY <1>2, <1>4, <1>5, <1>6, SameTables DEF DataInv

LEMMA InsertData == ASSUME ChainInv, DataInv, NEW r \in Request, InsertAuditRow(r) PROVE DataInv'
<1>1. PICK t \in Time : row' = [row EXCEPT ![r] = AuditRow(r, t)]
  BY DEF InsertAuditRow
<1>2. /\ pc[r] = "read" /\ pc'[r] = "logged" /\ UNCHANGED <<op, db>>
      /\ \A s \in Request \ {r} : pc'[s] = pc[s] /\ row'[s] = row[s]
      /\ row'[r] = AuditRow(r, t)
  BY <1>1 DEF InsertAuditRow, Step, Goto, ChainInv, TypeInv, TypeOK
<1>3. \A s \in Request \ {r} : CallInv(s)'
  BY <1>2, SameCall, SameTables DEF DataInv, CallInv, db
<1>4. CallInv(r)'
  <2>1. /\ row'[r].actor_id = op'[r].actor /\ row'[r].action = ActionOf(r)'
        /\ row'[r].document_id = DocOf(r)' /\ row'[r].case_id = CaseOf(r)'
    BY <1>2, SameCall DEF AuditRow
  <2>2. CallInv(r)
    BY DEF DataInv
  <2> QED BY <1>2, <2>1, <2>2, SameCall, SameTables DEF CallInv, Unwritten, Checked, InTx, Inserted, db
<1>5. Apart'
  <2>1. ASSUME NEW s \in Request, NEW u \in Request, s /= u, pc'[s] \in Inserted, pc'[u] \in Inserted
        PROVE  ~Conflicts(s, u)'
    <3>1. pc[s] \in Inserted /\ pc[u] \in Inserted
      BY <1>2, <2>1 DEF Inserted
    <3>2. ~Conflicts(s, u)
      BY <2>1, <3>1 DEF DataInv, Apart
    <3> QED BY <1>2, <3>2, SameCall DEF Conflicts
  <2> QED BY <2>1 DEF Apart
<1> QED BY <1>2, <1>3, <1>4, <1>5, SameTables DEF DataInv

-----------------------------------------------------------------------------
(* What a commit adds to the log about one action and case.                 *)
LEMMA RowsAfter ==
  ASSUME NEW e, auditLog' = auditLog \cup {e}, NEW action, NEW c
  PROVE  RowsOf(action, c)' = RowsOf(action, c)
                              \cup (IF e.action = action /\ e.case_id = c THEN {e} ELSE {})
BY DEF RowsOf

LEMMA RowsFinite ==
  ASSUME IsFiniteSet(auditLog), NEW action, NEW c PROVE IsFiniteSet(RowsOf(action, c))
BY FS_Subset DEF RowsOf

(* What a call about to commit is known to be and to write.                 *)
LEMMA Committing ==
  ASSUME ChainInv, DataInv, NEW r \in Request, pc[r] = "logged"
  PROVE  /\ op[r] \in Ops /\ op[r].actor \in User
         /\ op[r].kind \in {"CREATE_CASE", "ASSIGN_USER", "UPLOAD", "EVIDENCE", "TRANSFER"}
         /\ r \notin CaseIds \cup DocIds
         /\ row[r] \notin auditLog
         /\ row[r].actor_id = op[r].actor /\ row[r].case_id = CaseOf(r)
         /\ row[r].document_id = DocOf(r) /\ row[r].action = ActionOf(r)
         /\ op[r].kind = "CREATE_CASE" => CaseOf(r) = r /\ \A c \in cases : c.number /= op[r].on
         /\ op[r].kind /= "CREATE_CASE" => CaseOf(r) \in CaseIds
         /\ op[r].kind \in {"ASSIGN_USER", "UPLOAD", "EVIDENCE"} => CaseOf(r) = op[r].on
         /\ op[r].kind = "TRANSFER" =>
               /\ DocOf(r) = op[r].on
               /\ \E d \in documents : d.id = DocOf(r) /\ d.case_id = CaseOf(r)
         /\ op[r].kind = "ASSIGN_USER" => <<op[r].on, op[r].user>> \notin assignments
<1>1. CallInv(r) /\ "logged" \in Unwritten \cap Checked \cap Inserted /\ ~Violates(r)
  BY DEF DataInv, CallInv, Unwritten, Checked, InTx, Inserted
<1>2. op[r] \in Ops /\ op[r].actor \in User
      /\ op[r].kind \in {"CREATE_CASE", "ASSIGN_USER", "UPLOAD", "EVIDENCE", "TRANSFER"}
  BY <1>1 DEF CallInv, Ops, Unwritten
<1>3. row[r] \notin auditLog
  BY DEF ChainInv, HolderInv, TypeInv, TypeOK
<1>4. CASE op[r].kind = "CREATE_CASE"
  BY <1>1, <1>2, <1>3, <1>4 DEF CallInv, CaseOf, Violates
<1>5. CASE op[r].kind = "ASSIGN_USER"
  BY <1>1, <1>2, <1>3, <1>5 DEF CallInv, CaseOf, Violates, NewAssignments
<1>6. CASE op[r].kind \in {"UPLOAD", "EVIDENCE"}
  BY <1>1, <1>2, <1>3, <1>6 DEF CallInv, CaseOf, Violates, CaseIds
<1>7. CASE op[r].kind = "TRANSFER"
  <2>1. PICK d \in documents : d.id = op[r].on
    BY <1>1, <1>7 DEF CallInv, DocIds
  <2>2. DocumentOf(r) \in documents /\ DocumentOf(r).id = op[r].on
    BY <2>1 DEF DocumentOf
  <2>3. CaseOf(r) = DocumentOf(r).case_id /\ DocOf(r) = op[r].on
    BY <1>7 DEF CaseOf, DocOf
  <2>4. CaseOf(r) \in CaseIds
    BY <2>2, <2>3 DEF DataInv, KeysInv
  <2> QED BY <1>1, <1>2, <1>3, <1>7, <2>2, <2>3, <2>4 DEF CallInv
<1> QED BY <1>2, <1>4, <1>5, <1>6, <1>7

(* AuditMatchesData for one case.                                           *)
AssignmentsOf(k) == {a \in assignments : a[1] = k}
DocumentsOf(k) == {d \in documents : d.case_id = k}
Matches(k) ==
  /\ Cardinality(RowsOf("CREATE_CASE", k)) = 1
  /\ Cardinality(AssignmentsOf(k)) = 1 + Cardinality(RowsOf("ASSIGN_USER", k))
  /\ {d.id : d \in DocumentsOf(k)} = {e.document_id : e \in RowsOf("UPLOAD", k)}
  /\ Cardinality(DocumentsOf(k)) = Cardinality(RowsOf("UPLOAD", k))

LEMMA MatchesAll ==
  AuditMatchesData <=> /\ \A c \in cases : Matches(c.id)
                       /\ \A e \in auditLog : e.case_id \in CaseIds
BY DEF AuditMatchesData, Matches, AssignmentsOf, DocumentsOf, CaseIds

LEMMA MatchKept ==
  ASSUME NEW k, NEW e, auditLog' = auditLog \cup {e}, Matches(k),
         e.case_id /= k \/ e.action = "TRANSFER",
         AssignmentsOf(k)' = AssignmentsOf(k), DocumentsOf(k)' = DocumentsOf(k)
  PROVE  Matches(k)'
<1>1. \A action \in {"CREATE_CASE", "ASSIGN_USER", "UPLOAD"} : RowsOf(action, k)' = RowsOf(action, k)
  BY DEF RowsOf
<1> QED BY <1>1 DEF Matches

(* The case a call creates.                                                 *)
LEMMA MatchCreated ==
  ASSUME NEW k, NEW e, auditLog' = auditLog \cup {e}, NEW u,
         e.action = "CREATE_CASE", e.case_id = k,
         \A p \in auditLog : p.case_id /= k, AssignmentsOf(k)' = {<<k, u>>}, DocumentsOf(k)' = {}
  PROVE  Matches(k)'
<1>1. /\ RowsOf("CREATE_CASE", k)' = {e}
      /\ RowsOf("ASSIGN_USER", k)' = {} /\ RowsOf("UPLOAD", k)' = {}
  BY DEF RowsOf
<1>2. /\ Cardinality({e}) = 1 /\ Cardinality({<<k, u>>}) = 1
      /\ Cardinality({}) = 0
  BY FS_Singleton, FS_EmptySet
<1>3. /\ Cardinality(RowsOf("CREATE_CASE", k)') = 1
      /\ Cardinality(DocumentsOf(k)') = Cardinality(RowsOf("UPLOAD", k)')
  BY <1>1, <1>2
<1>4. Cardinality(AssignmentsOf(k)') = 1 + Cardinality(RowsOf("ASSIGN_USER", k)')
  <2>1. Cardinality(AssignmentsOf(k)') = 1 /\ Cardinality(RowsOf("ASSIGN_USER", k)') = 0
    BY <1>1, <1>2
  <2> QED BY <2>1
<1>5. {d.id : d \in DocumentsOf(k)'} = {p.document_id : p \in RowsOf("UPLOAD", k)'}
  BY <1>1
<1> QED BY <1>3, <1>4, <1>5 DEF Matches

(* A row more on each side.                                                 *)
LEMMA MatchAssigned ==
  ASSUME KeysInv, NEW k, NEW e, auditLog' = auditLog \cup {e}, e \notin auditLog, Matches(k), NEW a,
         e.action = "ASSIGN_USER", e.case_id = k, a \notin AssignmentsOf(k),
         AssignmentsOf(k)' = AssignmentsOf(k) \cup {a}, DocumentsOf(k)' = DocumentsOf(k)
  PROVE  Matches(k)'
<1>1. /\ RowsOf("CREATE_CASE", k)' = RowsOf("CREATE_CASE", k)
      /\ RowsOf("UPLOAD", k)' = RowsOf("UPLOAD", k)
      /\ RowsOf("ASSIGN_USER", k)' = RowsOf("ASSIGN_USER", k) \cup {e}
      /\ e \notin RowsOf("ASSIGN_USER", k)
  BY DEF RowsOf
<1>2. IsFiniteSet(RowsOf("ASSIGN_USER", k)) /\ IsFiniteSet(AssignmentsOf(k))
  BY RowsFinite, FS_Subset DEF KeysInv, AssignmentsOf
<1>3. /\ Cardinality(RowsOf("ASSIGN_USER", k)') = Cardinality(RowsOf("ASSIGN_USER", k)) + 1
      /\ Cardinality(AssignmentsOf(k)') = Cardinality(AssignmentsOf(k)) + 1
      /\ Cardinality(RowsOf("ASSIGN_USER", k)) \in Nat
  BY <1>1, <1>2, FS_AddElement, FS_CardinalityType
<1>4. Cardinality(AssignmentsOf(k)') = 1 + Cardinality(RowsOf("ASSIGN_USER", k)')
  BY <1>3 DEF Matches
<1>5. /\ Cardinality(RowsOf("CREATE_CASE", k)') = 1
      /\ {d.id : d \in DocumentsOf(k)'} = {p.document_id : p \in RowsOf("UPLOAD", k)'}
      /\ Cardinality(DocumentsOf(k)') = Cardinality(RowsOf("UPLOAD", k)')
  BY <1>1 DEF Matches
<1> QED BY <1>4, <1>5 DEF Matches

LEMMA MatchUploaded ==
  ASSUME KeysInv, NEW k, NEW e, auditLog' = auditLog \cup {e}, e \notin auditLog, Matches(k), NEW d,
         e.action = "UPLOAD", e.case_id = k, e.document_id = d.id, d \notin DocumentsOf(k),
         DocumentsOf(k)' = DocumentsOf(k) \cup {d}, AssignmentsOf(k)' = AssignmentsOf(k)
  PROVE  Matches(k)'
<1>1. /\ RowsOf("CREATE_CASE", k)' = RowsOf("CREATE_CASE", k)
      /\ RowsOf("ASSIGN_USER", k)' = RowsOf("ASSIGN_USER", k)
      /\ RowsOf("UPLOAD", k)' = RowsOf("UPLOAD", k) \cup {e}
      /\ e \notin RowsOf("UPLOAD", k)
  BY DEF RowsOf
<1>2. IsFiniteSet(RowsOf("UPLOAD", k)) /\ IsFiniteSet(DocumentsOf(k))
  BY RowsFinite, FS_Subset DEF KeysInv, DocumentsOf
<1>3. /\ Cardinality(RowsOf("UPLOAD", k)') = Cardinality(RowsOf("UPLOAD", k)) + 1
      /\ Cardinality(DocumentsOf(k)') = Cardinality(DocumentsOf(k)) + 1
  BY <1>1, <1>2, FS_AddElement
<1>4. Cardinality(DocumentsOf(k)') = Cardinality(RowsOf("UPLOAD", k)')
  BY <1>3 DEF Matches
<1>5. {f.id : f \in DocumentsOf(k)'} = {p.document_id : p \in RowsOf("UPLOAD", k)'}
  <2>1. {f.id : f \in DocumentsOf(k)'} = {f.id : f \in DocumentsOf(k)} \cup {d.id}
    OBVIOUS
  <2>2. {p.document_id : p \in RowsOf("UPLOAD", k)'} = {p.document_id : p \in RowsOf("UPLOAD", k)} \cup {e.document_id}
    BY <1>1
  <2> QED BY <2>1, <2>2 DEF Matches
<1>6. /\ Cardinality(RowsOf("CREATE_CASE", k)') = 1
      /\ Cardinality(AssignmentsOf(k)') = 1 + Cardinality(RowsOf("ASSIGN_USER", k)')
  BY <1>1 DEF Matches
<1> QED BY <1>4, <1>5, <1>6 DEF Matches

-----------------------------------------------------------------------------
(* The rows a commit makes visible, by the kind of the call.                *)
LEMMA TablesAfter ==
  ASSUME ChainInv, DataInv, NEW r \in Request, pc[r] = "logged", MakeVisible(r)
  PROVE  LET o == op[r]
             k == CaseOf(r)
             c == [id |-> r, number |-> o.on]
         IN  /\ auditLog' = auditLog \cup {row[r]}
             /\ o.kind = "CREATE_CASE" =>
                  /\ cases' = cases \cup {c} /\ c.id = r /\ c.number = o.on /\ CaseIds' = CaseIds \cup {r}
                  /\ assignments' = assignments \cup {<<r, o.actor>>} /\ documents' = documents
                  /\ DocIds' = DocIds
                  /\ row[r].action = "CREATE_CASE" /\ k = r /\ r \notin CaseIds
             /\ o.kind /= "CREATE_CASE" => cases' = cases /\ CaseIds' = CaseIds /\ k \in CaseIds
             /\ o.kind = "ASSIGN_USER" =>
                  /\ assignments' = assignments \cup {<<k, o.user>>} /\ documents' = documents
                  /\ DocIds' = DocIds
                  /\ row[r].action = "ASSIGN_USER" /\ <<k, o.user>> \notin assignments
             /\ o.kind \in {"UPLOAD", "EVIDENCE"} =>
                  /\ assignments' = assignments
                  /\ \E d : /\ documents' = documents \cup {d} /\ d.id = r /\ d.case_id = k
                            /\ DocIds' = DocIds \cup {r}
                  /\ row[r].action = "UPLOAD" /\ row[r].document_id = r /\ r \notin DocIds
             /\ o.kind = "TRANSFER" =>
                  /\ assignments' = assignments /\ documents' = documents /\ DocIds' = DocIds
                  /\ row[r].action = "TRANSFER"
<1>1. /\ auditLog' = auditLog \cup {row[r]} /\ cases' = cases \cup NewCases(r)
      /\ assignments' = assignments \cup NewAssignments(r)
      /\ documents' = documents \cup NewDocuments(r)
  BY DEF MakeVisible
<1>2. CASE op[r].kind = "CREATE_CASE"
  <2>1. /\ NewCases(r) = {[id |-> r, number |-> op[r].on]} /\ NewDocuments(r) = {}
        /\ NewAssignments(r) = {<<r, op[r].actor>>} /\ ActionOf(r) = "CREATE_CASE"
    BY <1>2 DEF NewCases, NewAssignments, NewDocuments, ActionOf
  <2>2. CaseIds' = CaseIds \cup {r} /\ DocIds' = DocIds
    <3> DEFINE c == [id |-> r, number |-> op[r].on]
    <3>1. NewCases(r) = {c} /\ c.id = r
      BY <2>1
    <3> HIDE DEF c
    <3> QED BY <1>1, <2>1, <3>1 DEF CaseIds, DocIds
  <2> QED BY <1>1, <1>2, <2>1, <2>2, Committing
<1>3. CASE op[r].kind = "ASSIGN_USER"
  <2>1. /\ NewCases(r) = {} /\ NewDocuments(r) = {}
        /\ NewAssignments(r) = {<<op[r].on, op[r].user>>} /\ ActionOf(r) = "ASSIGN_USER"
    BY <1>3 DEF NewCases, NewAssignments, NewDocuments, ActionOf
  <2>2. CaseIds' = CaseIds /\ DocIds' = DocIds
    BY <1>1, <2>1 DEF CaseIds, DocIds
  <2> QED BY <1>1, <1>3, <2>1, <2>2, Committing
<1>4. CASE op[r].kind \in {"UPLOAD", "EVIDENCE"}
  <2>1. PICK d : NewDocuments(r) = {d} /\ d.id = r /\ d.case_id = op[r].on
    <3>1. CASE op[r].kind = "UPLOAD"
      <4> DEFINE d == [id |-> r, case_id |-> op[r].on, file_path |-> r]
      <4>1. NewDocuments(r) = {d} /\ d.id = r /\ d.case_id = op[r].on
        BY <3>1 DEF NewDocuments
      <4> HIDE DEF d
      <4> QED BY <4>1
    <3>2. CASE op[r].kind = "EVIDENCE"
      <4> DEFINE d == [id |-> r, case_id |-> op[r].on, file_path |-> NoId]
      <4>1. NewDocuments(r) = {d} /\ d.id = r /\ d.case_id = op[r].on
        BY <3>2 DEF NewDocuments
      <4> HIDE DEF d
      <4> QED BY <4>1
    <3> QED BY <1>4, <3>1, <3>2
  <2>2. NewCases(r) = {} /\ NewAssignments(r) = {} /\ ActionOf(r) = "UPLOAD" /\ DocOf(r) = r
    BY <1>4 DEF NewCases, NewAssignments, ActionOf, DocOf
  <2>3. CaseIds' = CaseIds /\ DocIds' = DocIds \cup {r}
    BY <1>1, <2>1, <2>2 DEF CaseIds, DocIds
  <2> QED BY <1>1, <1>4, <2>1, <2>2, <2>3, Committing
<1>5. CASE op[r].kind = "TRANSFER"
  <2>1. NewCases(r) = {} /\ NewAssignments(r) = {} /\ NewDocuments(r) = {} /\ ActionOf(r) = "TRANSFER"
    BY <1>5 DEF NewCases, NewAssignments, NewDocuments, ActionOf
  <2>2. CaseIds' = CaseIds /\ DocIds' = DocIds
    BY <1>1, <2>1 DEF CaseIds, DocIds
  <2> QED BY <1>1, <1>5, <2>1, <2>2, Committing
<1> QED BY <1>2, <1>3, <1>4, <1>5, Committing

LEMMA CommitKeys ==
  ASSUME ChainInv, DataInv, NEW r \in Request, pc[r] = "logged", MakeVisible(r)
  PROVE  KeysInv'
<1> DEFINE e == row[r]
           o == op[r]
           k == CaseOf(r)
<1>1. KeysInv /\ auditLog' = auditLog \cup {e} /\ CaseIds \subseteq CaseIds'
  BY TablesAfter, Committing DEF DataInv
<1>2. /\ \A p \in auditLog : p.seq < e.seq /\ p.seq \in Nat
      /\ e.seq \in Nat /\ e.actor_id \in User /\ e.case_id = k
  <2>1. e.actor_id \in User /\ e.case_id = k
    BY Committing
  <2>2. /\ \A p \in auditLog : p.seq < e.seq /\ p.seq \in 1..lastSeq
        /\ e.seq \in 1..lastSeq /\ lastSeq \in Nat
    BY DEF ChainInv, HolderInv, TypeInv, TypeOK
  <2> QED BY <2>1, <2>2
<1>3. k \in CaseIds'
  <2>1. CASE o.kind = "CREATE_CASE"
    BY <2>1, TablesAfter
  <2>2. CASE o.kind /= "CREATE_CASE"
    BY <2>2, TablesAfter
  <2> QED BY <2>1, <2>2
<1>4. IsFiniteSet(auditLog')
  BY <1>1, FS_AddElement DEF KeysInv
<1>5. \A p \in auditLog' : p.case_id \in CaseIds' /\ p.actor_id \in User
  BY <1>1, <1>2, <1>3 DEF KeysInv
<1>6. \A p, q \in auditLog' : p.seq = q.seq => p = q
  BY <1>1, <1>2 DEF KeysInv
<1>7. CASE o.kind = "CREATE_CASE"
  <2> DEFINE c == [id |-> r, number |-> o.on]
  <2>1. cases' = cases \cup {c} /\ c.id = r /\ c.number = o.on
    BY <1>7, TablesAfter
  <2> HIDE DEF c
  <2>2. r \notin CaseIds /\ \A d \in cases : d.number /= o.on
    BY <1>7, Committing
  <2>3. \A c1, c2 \in cases' : c1.id = c2.id \/ c1.number = c2.number => c1 = c2
    BY <1>1, <2>1, <2>2 DEF KeysInv, CaseIds
  <2>4. documents' = documents /\ assignments' = assignments \cup {<<r, o.actor>>} /\ r \in CaseIds'
    <3>1. /\ documents' = documents /\ assignments' = assignments \cup {<<r, o.actor>>}
          /\ CaseIds' = CaseIds \cup {r}
      BY <1>7, TablesAfter
    <3> QED BY <3>1
  <2>5. IsFiniteSet(assignments')
    BY <1>1, <2>4, FS_AddElement DEF KeysInv
  <2> QED BY <1>1, <1>4, <1>5, <1>6, <2>3, <2>4, <2>5 DEF KeysInv
<1>8. CASE o.kind = "ASSIGN_USER"
  <2>1. /\ cases' = cases /\ documents' = documents /\ assignments' = assignments \cup {<<k, o.user>>}
        /\ k \in CaseIds'
    BY <1>3, <1>8, TablesAfter
  <2>2. IsFiniteSet(assignments')
    BY <1>1, <2>1, FS_AddElement DEF KeysInv
  <2> QED BY <1>1, <1>4, <1>5, <1>6, <2>1, <2>2 DEF KeysInv
<1>9. CASE o.kind \in {"UPLOAD", "EVIDENCE"}
  <2>1. cases' = cases /\ assignments' = assignments /\ k \in CaseIds' /\ r \notin DocIds
    BY <1>3, <1>9, TablesAfter
  <2>2. PICK d : documents' = documents \cup {d} /\ d.id = r /\ d.case_id = k
    BY <1>9, TablesAfter
  <2>3. IsFiniteSet(documents')
    BY <1>1, <2>2, FS_AddElement DEF KeysInv
  <2>4. \A d1, d2 \in documents' : d1.id = d2.id => d1 = d2
    BY <1>1, <2>1, <2>2 DEF KeysInv, DocIds
  <2>5. \A f \in documents' : f.case_id \in CaseIds'
    BY <1>1, <2>1, <2>2 DEF KeysInv
  <2> QED BY <1>1, <1>4, <1>5, <1>6, <2>1, <2>3, <2>4, <2>5 DEF KeysInv
<1>10. CASE o.kind = "TRANSFER"
  <2>1. cases' = cases /\ assignments' = assignments /\ documents' = documents
    BY <1>10, TablesAfter
  <2> QED BY <1>1, <1>4, <1>5, <1>6, <2>1 DEF KeysInv
<1> QED BY <1>7, <1>8, <1>9, <1>10, Committing

LEMMA CommitMatches ==
  ASSUME ChainInv, DataInv, NEW r \in Request, pc[r] = "logged", MakeVisible(r)
  PROVE  AuditMatchesData'
<1> DEFINE o == op[r]
<1>0. PICK e, k : e = row[r] /\ k = CaseOf(r)
  OBVIOUS
<1>1. KeysInv /\ (\A c \in CaseIds : Matches(c)) /\ auditLog' = auditLog \cup {e}
      /\ e \notin auditLog /\ e.case_id = k
  <2>1. \A c \in CaseIds : Matches(c)
    BY MatchesAll DEF DataInv, CaseIds
  <2>2. auditLog' = auditLog \cup {e}
    BY <1>0 DEF MakeVisible
  <2> QED BY <1>0, <2>1, <2>2, Committing DEF DataInv
<1>2. KeysInv'
  BY CommitKeys
<1>3. SUFFICES \A c \in CaseIds' : Matches(c)'
  <2>1. ASSUME \A c \in CaseIds' : Matches(c)' PROVE \A c \in cases' : Matches(c.id)'
    BY <2>1 DEF CaseIds
  <2>2. \A p \in auditLog' : p.case_id \in CaseIds'
    BY <1>2 DEF KeysInv
  <2>3. AuditMatchesData' <=> /\ \A c \in cases' : Matches(c.id)'
                             /\ \A p \in auditLog' : p.case_id \in CaseIds'
    BY DEF AuditMatchesData, Matches, AssignmentsOf, DocumentsOf, CaseIds
  <2> QED BY <1>3, <2>1, <2>2, <2>3
<1>4. CASE o.kind = "CREATE_CASE"
  <2>1. /\ assignments' = assignments \cup {<<r, o.actor>>} /\ documents' = documents
        /\ CaseIds' = CaseIds \cup {r} /\ e.action = "CREATE_CASE" /\ k = r /\ r \notin CaseIds
    BY <1>0, <1>4, TablesAfter
  <2>2. ASSUME NEW c \in CaseIds PROVE Matches(c)'
    <3>1. c /= r /\ AssignmentsOf(c)' = AssignmentsOf(c) /\ DocumentsOf(c)' = DocumentsOf(c)
      BY <2>1 DEF AssignmentsOf, DocumentsOf
    <3> QED BY <1>1, <2>1, <3>1, MatchKept
  <2>3. Matches(r)'
    <3>1. AssignmentsOf(r)' = {<<r, o.actor>>}
      BY <1>1, <2>1 DEF AssignmentsOf, KeysInv
    <3>2. DocumentsOf(r)' = {}
      BY <1>1, <2>1 DEF DocumentsOf, KeysInv
    <3>3. \A p \in auditLog : p.case_id /= r
      BY <1>1, <2>1 DEF KeysInv
    <3> QED BY <1>1, <2>1, <3>1, <3>2, <3>3, MatchCreated
  <2> QED BY <2>1, <2>2, <2>3
<1>5. CASE o.kind = "ASSIGN_USER"
  <2>1. /\ assignments' = assignments \cup {<<k, o.user>>} /\ documents' = documents
        /\ CaseIds' = CaseIds /\ e.action = "ASSIGN_USER" /\ <<k, o.user>> \notin assignments
    BY <1>0, <1>5, TablesAfter
  <2>2. ASSUME NEW c \in CaseIds, c /= k PROVE Matches(c)'
    <3>1. AssignmentsOf(c)' = AssignmentsOf(c) /\ DocumentsOf(c)' = DocumentsOf(c)
      BY <2>1, <2>2 DEF AssignmentsOf, DocumentsOf
    <3> QED BY <1>1, <2>2, <3>1, MatchKept
  <2>3. ASSUME k \in CaseIds PROVE Matches(k)'
    <3> DEFINE a == <<k, o.user>>
    <3>1. /\ AssignmentsOf(k)' = AssignmentsOf(k) \cup {a} /\ a \notin AssignmentsOf(k)
          /\ DocumentsOf(k)' = DocumentsOf(k)
      BY <2>1 DEF AssignmentsOf, DocumentsOf
    <3> HIDE DEF a
    <3> QED BY <1>1, <2>1, <2>3, <3>1, MatchAssigned
  <2> QED BY <2>1, <2>2, <2>3
<1>6. CASE o.kind \in {"UPLOAD", "EVIDENCE"}
  <2>1. /\ assignments' = assignments /\ CaseIds' = CaseIds
        /\ e.action = "UPLOAD" /\ e.document_id = r /\ r \notin DocIds
    BY <1>0, <1>6, TablesAfter
  <2>2. PICK d : documents' = documents \cup {d} /\ d.id = r /\ d.case_id = k
    BY <1>0, <1>6, TablesAfter
  <2>3. ASSUME NEW c \in CaseIds, c /= k PROVE Matches(c)'
    <3>1. AssignmentsOf(c)' = AssignmentsOf(c) /\ DocumentsOf(c)' = DocumentsOf(c)
      BY <2>1, <2>2, <2>3 DEF AssignmentsOf, DocumentsOf
    <3> QED BY <1>1, <2>3, <3>1, MatchKept
  <2>4. ASSUME k \in CaseIds PROVE Matches(k)'
    <3>1. /\ DocumentsOf(k)' = DocumentsOf(k) \cup {d} /\ d \notin DocumentsOf(k)
          /\ AssignmentsOf(k)' = AssignmentsOf(k) /\ e.document_id = d.id
      BY <2>1, <2>2 DEF AssignmentsOf, DocumentsOf, DocIds
    <3> QED BY <1>1, <2>1, <2>4, <3>1, MatchUploaded
  <2> QED BY <2>1, <2>3, <2>4
<1>7. CASE o.kind = "TRANSFER"
  <2>1. /\ assignments' = assignments /\ documents' = documents /\ CaseIds' = CaseIds
        /\ e.action = "TRANSFER"
    BY <1>0, <1>7, TablesAfter
  <2>2. ASSUME NEW c \in CaseIds PROVE Matches(c)'
    <3>1. AssignmentsOf(c)' = AssignmentsOf(c) /\ DocumentsOf(c)' = DocumentsOf(c)
      BY <2>1 DEF AssignmentsOf, DocumentsOf
    <3> QED BY <1>1, <2>1, <2>2, <3>1, MatchKept
  <2> QED BY <2>1, <2>2
<1> QED BY <1>4, <1>5, <1>6, <1>7, Committing

(* The row comes after those it depends on, which are there already.        *)
LEMMA CommitCausal ==
  ASSUME ChainInv, DataInv, NEW r \in Request, pc[r] = "logged", MakeVisible(r)
  PROVE  ChainCausal' /\ InvestigatorScoped'
<1>0. PICK e, k : e = row[r] /\ k = CaseOf(r)
  OBVIOUS
<1>1. /\ auditLog' = auditLog \cup {e} /\ assignments \subseteq assignments'
      /\ e.case_id = k /\ e.actor_id = op[r].actor /\ e.document_id = DocOf(r) /\ e.action = ActionOf(r)
  BY <1>0, Committing DEF MakeVisible
<1>2. \A p \in auditLog : p.seq < e.seq
  BY <1>0 DEF ChainInv, HolderInv
<1>3. \A action, c : RowsOf(action, c) \subseteq RowsOf(action, c)'
  BY <1>1 DEF RowsOf
<1>4. ASSUME NEW action \in {"CREATE_CASE", "UPLOAD"}, NEW p \in RowsOf(action, k)
      PROVE  p \in RowsOf(action, k)' /\ p.seq < e.seq
  BY <1>2, <1>3 DEF RowsOf
<1>5. e.action /= "CREATE_CASE" => \E p \in RowsOf("CREATE_CASE", e.case_id)' : p.seq < e.seq
  <2>1. SUFFICES ASSUME op[r].kind /= "CREATE_CASE"
                 PROVE  \E p \in RowsOf("CREATE_CASE", k)' : p.seq < e.seq
    BY <1>1 DEF ActionOf
  <2>2. k \in CaseIds
    BY <1>0, <2>1, Committing
  <2>3. Cardinality(RowsOf("CREATE_CASE", k)) = 1
    BY <2>2 DEF DataInv, AuditMatchesData, CaseIds
  <2>4. RowsOf("CREATE_CASE", k) /= {}
    BY <2>3, FS_EmptySet
  <2>5. PICK p : p \in RowsOf("CREATE_CASE", k)
    BY <2>4
  <2> QED BY <1>4, <2>5
<1>6. e.action = "TRANSFER" =>
        \E p \in RowsOf("UPLOAD", e.case_id)' : p.document_id = e.document_id /\ p.seq < e.seq
  <2>1. SUFFICES ASSUME op[r].kind = "TRANSFER"
                 PROVE  \E p \in RowsOf("UPLOAD", k)' : p.document_id = DocOf(r) /\ p.seq < e.seq
    BY <1>1, <1>0, Committing DEF ActionOf
  <2>2. k \in CaseIds /\ \E d \in documents : d.id = DocOf(r) /\ d.case_id = k
    BY <1>0, <2>1, Committing
  <2>3. {d.id : d \in {d \in documents : d.case_id = k}} = {p.document_id : p \in RowsOf("UPLOAD", k)}
    <3>1. Matches(k)
      BY <2>2, MatchesAll DEF DataInv, CaseIds
    <3> QED BY <3>1 DEF Matches, DocumentsOf
  <2>4. PICK p \in RowsOf("UPLOAD", k) : p.document_id = DocOf(r)
    BY <2>2, <2>3
  <2> QED BY <1>4, <2>4
<1>7. ASSUME NEW p \in auditLog
      PROVE  /\ p.action /= "CREATE_CASE" =>
                  \E q \in RowsOf("CREATE_CASE", p.case_id)' : q.seq < p.seq
             /\ p.action = "TRANSFER" =>
                  \E q \in RowsOf("UPLOAD", p.case_id)' : q.document_id = p.document_id /\ q.seq < p.seq
  BY <1>3 DEF DataInv, ChainCausal
<1>8. ChainCausal'
  BY <1>1, <1>5, <1>6, <1>7 DEF ChainCausal
<1>9. Role[e.actor_id] = "investigator" => <<e.case_id, e.actor_id>> \in assignments'
  BY <1>1, <1>0 DEF DataInv, CallInv, Checked, InTx, Inserted
<1>10. InvestigatorScoped'
  BY <1>1, <1>9 DEF DataInv, InvestigatorScoped
<1> QED BY <1>8, <1>10

(* The other open calls lose nothing by a commit: ids only join the tables, *)
(* and its keys are not theirs.                                             *)
LEMMA CommitCalls ==
  ASSUME ChainInv, DataInv, NEW r \in Request, pc[r] = "logged", MakeVisible(r),
         UNCHANGED <<op, row>>, pc'[r] \in {"committed", "error", "dropped"},
         \A s \in Request \ {r} : pc'[s] = pc[s]
  PROVE  (\A s \in Request : CallInv(s)') /\ Apart'
<1>1. /\ cases' = cases \cup NewCases(r) /\ assignments' = assignments \cup NewAssignments(r)
      /\ documents \subseteq documents'
  BY DEF MakeVisible
<1>2. /\ CaseIds \subseteq CaseIds' /\ DocIds \subseteq DocIds'
      /\ CaseIds' \cup DocIds' \subseteq CaseIds \cup DocIds \cup {r}
  <2>1. \A c \in NewCases(r) : c.id = r
    BY DEF NewCases
  <2>2. \A d \in NewDocuments(r) : d.id = r
    BY DEF NewDocuments
  <2> QED BY <2>1, <2>2 DEF MakeVisible, CaseIds, DocIds
<1>3. \A d, f \in documents' : d.id = f.id => d = f
  BY CommitKeys DEF KeysInv
<1>4. ASSUME NEW s \in Request \ {r} PROVE CallInv(s)'
  <2>1. CallInv(s) /\ pc'[s] = pc[s] /\ op'[s] = op[s] /\ row'[s] = row[s]
    BY <1>4 DEF DataInv
  <2>2. DocOf(s)' = DocOf(s) /\ ActionOf(s)' = ActionOf(s) /\ NewAssignments(s)' = NewAssignments(s)
    BY <2>1 DEF DocOf, ActionOf, NewAssignments
  <2>3. pc[s] \in Checked => CaseOf(s)' = CaseOf(s)
    <3>1. CASE op[s].kind = "TRANSFER"
      <4>1. SUFFICES ASSUME pc[s] \in Checked PROVE DocumentOf(s)' = DocumentOf(s)
        BY <2>1, <3>1 DEF CaseOf
      <4>2. PICK d \in documents : d.id = op[s].on
        BY <2>1, <3>1, <4>1 DEF CallInv, DocIds
      <4>3. DocumentOf(s) = d
        BY <1>1, <1>3, <4>2 DEF DocumentOf
      <4>4. DocumentOf(s)' = d
        BY <1>1, <1>3, <2>1, <4>2 DEF DocumentOf
      <4> QED BY <4>3, <4>4
    <3>2. CASE op[s].kind /= "TRANSFER"
      BY <2>1, <3>2 DEF CaseOf
    <3> QED BY <3>1, <3>2
  <2>4. pc[s] \in Inserted => ~Violates(s)'
    <3>1. SUFFICES ASSUME pc[s] \in Inserted PROVE ~Violates(s)'
      OBVIOUS
    <3>2. ~Violates(s) /\ ~Conflicts(s, r)
      BY <1>4, <2>1, <3>1 DEF CallInv, DataInv, Apart, Inserted
    <3>3. op[s].kind = "CREATE_CASE" => \A c \in cases' : c.number /= op[s].on
      BY <1>1, <3>2 DEF Violates, Conflicts, NewCases
    <3>4. op[s].kind = "ASSIGN_USER" => ~(NewAssignments(s) \subseteq assignments') /\ op[s].user /= NoId
      BY <1>1, <3>2 DEF Violates, Conflicts, NewAssignments
    <3>5. op[s].kind \in {"UPLOAD", "EVIDENCE"} => \E c \in cases' : c.id = op[s].on
      BY <1>1, <3>2 DEF Violates
    <3> QED BY <2>1, <2>2, <3>3, <3>4, <3>5 DEF Violates
  <2>5. assignments \subseteq assignments' /\ "logged" \in Checked
    BY <1>1 DEF Checked, InTx, Inserted
  <2>6. /\ pc'[s] \in Unwritten => s \notin CaseIds' \cup DocIds'
        /\ pc'[s] \in Checked /\ op'[s].kind = "ASSIGN_USER" => op'[s].on \in CaseIds'
        /\ pc'[s] \in Checked \cup {"fetched"} /\ op'[s].kind = "TRANSFER" => op'[s].on \in DocIds'
    BY <1>2, <1>4, <2>1 DEF CallInv
  <2>7. /\ pc'[s] \in Checked /\ Role[op'[s].actor] = "investigator" =>
             <<CaseOf(s)', op'[s].actor>> \in assignments'
        /\ pc'[s] = "logged" => row'[s].case_id = CaseOf(s)'
    BY <2>1, <2>3, <2>5 DEF CallInv
  <2> QED BY <2>1, <2>2, <2>4, <2>6, <2>7 DEF CallInv
<1>5. CallInv(r)'
  BY DEF CallInv, Unwritten, Checked, InTx, Inserted
<1>6. Apart'
  <2>1. ASSUME NEW s \in Request, NEW u \in Request, s /= u, pc'[s] \in Inserted, pc'[u] \in Inserted
        PROVE  ~Conflicts(s, u)'
    <3>1. pc[s] \in Inserted /\ pc[u] \in Inserted
      BY <2>1 DEF Inserted
    <3>2. ~Conflicts(s, u)
      BY <2>1, <3>1 DEF DataInv, Apart
    <3>3. NewAssignments(s)' = NewAssignments(s) /\ NewAssignments(u)' = NewAssignments(u)
      BY DEF NewAssignments
    <3> QED BY <3>2, <3>3 DEF Conflicts
  <2> QED BY <2>1 DEF Apart
<1> QED BY <1>4, <1>5, <1>6

LEMMA CommitData ==
  ASSUME ChainInv, DataInv, NEW r \in Request, Commit(r) \/ CommitAnswerLost(r) PROVE DataInv'
<1>1. /\ pc[r] = "logged" /\ MakeVisible(r) /\ UNCHANGED <<op, row>>
      /\ pc'[r] \in {"committed", "error", "dropped"} /\ \A s \in Request \ {r} : pc'[s] = pc[s]
  BY DEF Commit, CommitAnswerLost, Step, Goto, tx, ChainInv, TypeInv, TypeOK
<1> QED BY <1>1, CommitKeys, CommitMatches, CommitCausal, CommitCalls DEF DataInv

LEMMA DataInit == Init => DataInv
<1> SUFFICES ASSUME Init PROVE DataInv
  OBVIOUS
<1>1. \A r \in Request : CallInv(r)
  BY DEF Init, CallInv, Unwritten, Checked, InTx, Inserted, CaseIds, DocIds
<1>2. Apart
  BY DEF Init, Apart, Inserted
<1>3. KeysInv
  BY FS_EmptySet DEF Init, KeysInv
<1> QED BY <1>1, <1>2, <1>3 DEF Init, DataInv, AuditMatchesData, ChainCausal, InvestigatorScoped

LEMMA DataNext == ChainInv /\ DataInv /\ [Next]_vars => DataInv'
BY HandlerData, EndingData, ReceiveData, InsertData, CommitData DEF Next, Handle

LEMMA DataHolds == Spec => []DataInv
BY ChainInit, ChainNext, DataInit, DataNext, PTL DEF Spec

(* The tables and the log agree: a case, an assignment and a document have  *)
(* their audit rows and no others, however transactions interleave and end. *)
THEOREM LogMatchesTables == Spec => []AuditMatchesData
<1>1. DataInv => AuditMatchesData
  BY DEF DataInv
<1> QED BY DataHolds, <1>1, PTL

(* A row comes after those it depends on: the case's CREATE_CASE, the       *)
(* document's UPLOAD.                                                       *)
THEOREM CausalOrder == Spec => []ChainCausal
<1>1. DataInv => ChainCausal
  BY DEF DataInv
<1> QED BY DataHolds, <1>1, PTL

(* assert_case_access runs before the transaction, and assignments are      *)
(* never withdrawn: no row by an investigator is about another's case.      *)
THEOREM WritesScoped == Spec => []InvestigatorScoped
<1>1. DataInv => InvestigatorScoped
  BY DEF DataInv
<1> QED BY DataHolds, <1>1, PTL

(* No case number is given twice, though the handlers check nothing and     *)
(* two inserts of it may wait for one another.                              *)
THEOREM NumbersUnique == Spec => []CaseNumbersUnique
<1>1. DataInv => CaseNumbersUnique
  BY DEF DataInv, KeysInv, CaseNumbersUnique
<1> QED BY DataHolds, <1>1, PTL

-----------------------------------------------------------------------------
(* The walk of verify_postgres_chain, on any clock.                         *)
Shaped(e) ==
  e = [seq |-> e.seq, prev_hash |-> e.prev_hash, entry_hash |-> e.entry_hash,
       actor_id |-> e.actor_id, action |-> e.action,
       document_id |-> e.document_id, case_id |-> e.case_id, created_at |-> e.created_at]

(* A row hashes what the clock gave, and keeps what the column can hold.    *)
Sealed(e) ==
  /\ Shaped(e)
  /\ \E t \in Time :
       /\ e.created_at = Stored(t)
       /\ e.entry_hash = compute_entry_hash(e.prev_hash, e.actor_id, e.action,
                                            e.document_id, e.case_id, t)

(* n is the row right after e.                                              *)
Follows(n, e) == n.seq > e.seq /\ \A m \in auditLog : m.seq > e.seq => n.seq <= m.seq

(* Every row is sealed, no hash is linked to twice, and none yet to the     *)
(* last; each row is followed at once by another or is the last.            *)
SealInv ==
  /\ \A e \in auditLog : Sealed(e) /\ e.entry_hash /= e.prev_hash
  /\ \A r \in Request : pc[r] = "logged" => Sealed(row[r])
  /\ \A e \in auditLog : e.prev_hash /= LastHash(auditLog)
  /\ \A e \in auditLog : e.prev_hash = Genesis \/ \E p \in auditLog : p.entry_hash = e.prev_hash
  /\ LastHash(auditLog) = Genesis \/ \E p \in auditLog : p.entry_hash = LastHash(auditLog)
  /\ \A e, f \in auditLog : e.prev_hash = f.prev_hash => e = f
  /\ \A e \in auditLog : (\A m \in auditLog : m.seq <= e.seq) \/ \E n \in auditLog : Follows(n, e)


LEMMA SealedHash ==
  ASSUME NEW e, Sealed(e)
  PROVE  /\ e.entry_hash.prev = e.prev_hash /\ e.entry_hash /= Genesis
         /\ e.entry_hash.at \in Time /\ e.created_at = Stored(e.entry_hash.at)
         /\ e.entry_hash = compute_entry_hash(e.prev_hash, e.actor_id, e.action,
                                              e.document_id, e.case_id, e.entry_hash.at)
<1>1. PICK t \in Time :
        /\ e.created_at = Stored(t)
        /\ e.entry_hash = compute_entry_hash(e.prev_hash, e.actor_id, e.action,
                                             e.document_id, e.case_id, t)
  BY DEF Sealed
<1>2. e.entry_hash.prev = e.prev_hash /\ e.entry_hash.at = t
  BY <1>1 DEF compute_entry_hash
<1>3. "prev" \in DOMAIN e.entry_hash /\ "prev" \notin DOMAIN Genesis
  BY <1>1 DEF compute_entry_hash, Genesis
<1> QED BY <1>1, <1>2, <1>3

LEMMA SealCommit ==
  ASSUME ChainInv, SealInv, NEW r \in Request, Commit(r) \/ CommitAnswerLost(r)
  PROVE  SealInv'
<1>1. PICK e : e = row[r]
  OBVIOUS
<1>2. /\ pc[r] = "logged" /\ auditLog' = auditLog \cup {e} /\ row' = row
      /\ \A s \in Request : pc'[s] = "logged" => pc[s] = "logged"
  BY <1>1 DEF Commit, CommitAnswerLost, Step, Goto, MakeVisible, tx, ChainInv, TypeInv, TypeOK
<1>3. /\ Sealed(e) /\ e.prev_hash = LastHash(auditLog)
      /\ e.seq \in Nat /\ \A p \in auditLog : p.seq \in Nat /\ p.seq < e.seq
  BY <1>1, <1>2 DEF SealInv, ChainInv, HolderInv, TypeInv, TypeOK
<1>4. e.entry_hash.prev = e.prev_hash /\ e.entry_hash /= Genesis
  BY <1>3, SealedHash
<1>5. \A p \in auditLog : p.entry_hash /= e.entry_hash
  <2>1. SUFFICES ASSUME NEW p \in auditLog, p.entry_hash = e.entry_hash PROVE FALSE
    OBVIOUS
  <2>2. p.entry_hash.prev = p.prev_hash
    BY SealedHash DEF SealInv
  <2> QED BY <1>3, <1>4, <2>1, <2>2 DEF SealInv
<1>6. e.entry_hash /= e.prev_hash
  BY <1>3, <1>4, <1>5 DEF SealInv
<1>7. LastHash(auditLog') = e.entry_hash
  BY <1>2, <1>3, LastOfExtended
<1>8. \A s \in Request : pc'[s] = "logged" => Sealed(row'[s])
  BY <1>2 DEF SealInv
<1>9. \A p \in auditLog' : Sealed(p) /\ p.entry_hash /= p.prev_hash
  BY <1>2, <1>3, <1>6 DEF SealInv
<1>10. \A p \in auditLog' : p.prev_hash /= LastHash(auditLog')
  BY <1>2, <1>4, <1>5, <1>6, <1>7 DEF SealInv
<1>11. /\ \A p \in auditLog' : p.prev_hash = Genesis \/ \E q \in auditLog' : q.entry_hash = p.prev_hash
       /\ \E p \in auditLog' : p.entry_hash = LastHash(auditLog')
       /\ \A p, q \in auditLog' : p.prev_hash = q.prev_hash => p = q
  BY <1>2, <1>3, <1>7 DEF SealInv
<1>12. \A p \in auditLog' :
         (\A m \in auditLog' : m.seq <= p.seq) \/ \E n \in auditLog' : Follows(n, p)'
  <2>1. SUFFICES ASSUME NEW p \in auditLog
                 PROVE  \E n \in auditLog' : Follows(n, p)'
    BY <1>2, <1>3
  <2>2. CASE \E n \in auditLog : Follows(n, p)
    BY <1>2, <1>3, <2>2 DEF Follows
  <2>3. CASE \A m \in auditLog : m.seq <= p.seq
    BY <1>2, <1>3, <2>3 DEF Follows
  <2> QED BY <2>2, <2>3 DEF SealInv
<1> QED BY <1>8, <1>9, <1>10, <1>11, <1>12 DEF SealInv, Sealed, Shaped

LEMMA SealInsert ==
  ASSUME ChainInv, SealInv, NEW r \in Request, InsertAuditRow(r)
  PROVE  SealInv'
<1>1. PICK t \in Time : row' = [row EXCEPT ![r] = AuditRow(r, t)]
  BY DEF InsertAuditRow
<1>2. /\ auditLog' = auditLog /\ row'[r] = AuditRow(r, t)
      /\ \A s \in Request \ {r} : pc'[s] = pc[s] /\ row'[s] = row[s]
  BY <1>1 DEF InsertAuditRow, Step, Goto, db, ChainInv, TypeInv, TypeOK
<1>3. Sealed(AuditRow(r, t))
  BY DEF AuditRow, Sealed, Shaped
<1>4. \A s \in Request : pc'[s] = "logged" => Sealed(row'[s])
  BY <1>2, <1>3 DEF SealInv
<1> QED BY <1>2, <1>4 DEF SealInv, Sealed, Shaped, LastHash, Follows

LEMMA SealNext == ChainInv /\ SealInv /\ [Next]_vars => SealInv'
<1>1. ASSUME ChainInv, SealInv, [Next]_vars,
             ~ \E r \in Request : Commit(r) \/ CommitAnswerLost(r) \/ InsertAuditRow(r)
      PROVE  SealInv'
  <2>1. pc \in [Request -> PCs]
    BY <1>1 DEF ChainInv, TypeInv, TypeOK
  <2>2. /\ auditLog' = auditLog /\ row' = row
        /\ \A s \in Request : pc'[s] = "logged" => pc[s] = "logged"
    BY <1>1, <2>1 DEF Next, Handle, Receive, CheckCaseExists, FetchDocument, CheckAccess, WriteFile,
       Begin, StageRows, LockChain, ReadLastHash, PostToLedger, LedgerAnswers, LedgerCallFails,
       AfterLedger, ReadBack, Fail, Disconnect, Crash, LedgerAppends, PostLost, LedgerRestarts,
       Step, Goto, db, tx, vars, Final
  <2>3. \A s \in Request : pc'[s] = "logged" => Sealed(row'[s])
    BY <1>1, <2>2 DEF SealInv
  <2>4. LastHash(auditLog') = LastHash(auditLog) /\ \A n, e : Follows(n, e)' <=> Follows(n, e)
    BY <2>2 DEF Follows
  <2>5. \A e : Sealed(e)' <=> Sealed(e)
    BY DEF Sealed, Shaped
  <2> QED BY <1>1, <2>2, <2>3, <2>4, <2>5 DEF SealInv
<1> QED BY <1>1, SealCommit, SealInsert

LEMMA SealHolds == Spec => [](ChainInv /\ DataInv /\ SealInv)
<1>1. Init => SealInv
  BY DEF Init, SealInv, LastHash
<1> QED BY ChainInit, ChainNext, DataInit, DataNext, SealNext, <1>1, PTL DEF Spec

-----------------------------------------------------------------------------
(* What the column keeps of a time is not that time when it was rounded,    *)
(* nor any other time the column can hold.                                  *)
LEMMA Rounding ==
  ASSUME NEW t \in Nat, t % TicksPerMicro /= 0
  PROVE  /\ Stored(t) + TicksPerMicro /= t
         /\ \A u \in Nat : Stored(u) /= t
<1> DEFINE n == TicksPerMicro
<1>1. n \in Nat /\ n > 0
  BY TimeAssumption
<1>2. t % n \in 0..(n - 1) /\ t = n * (t \div n) + (t % n) /\ t \div n \in Int
  BY <1>1
<1>3. Stored(t) + n /= t
  BY <1>1, <1>2 DEF Stored
<1>4. ASSUME NEW u \in Nat, Stored(u) = t PROVE FALSE
  <2>1. u % n \in 0..(n - 1) /\ u = n * (u \div n) + (u % n) /\ u \div n \in Int
    BY <1>1
  <2>2. t = n * (u \div n)
    BY <1>1, <2>1, <1>4 DEF Stored
  <2>3. PICK k \in Int : k = (u \div n) - (t \div n)
    BY <1>2, <2>1
  <2>4. n * k = t % n
    BY <1>1, <1>2, <2>1, <2>2, <2>3
  <2>5. k < 1
    BY <1>1, <1>2, <2>4
  <2>6. k > 0
    BY <1>1, <1>2, <2>4
  <2> QED BY <2>5, <2>6
<1> QED BY <1>3, <1>4

(* A row that was not touched, nor any before it, is refused exactly when   *)
(* its time was rounded.                                                    *)
LEMMA UntouchedRow ==
  ASSUME ChainInv, SealInv, NEW rows, NEW p \in auditLog,
         LastHash(Before(rows, p.seq)) = LastHash(Before(auditLog, p.seq))
  PROVE  Broken(rows, p) <=> Rounded(p)
<1>1. p.prev_hash = LastHash(Before(rows, p.seq))
  BY DEF ChainInv, ChainLinked
<1>2. PICK t \in Time : t = p.entry_hash.at /\ p.created_at = Stored(t)
        /\ p.entry_hash = compute_entry_hash(p.prev_hash, p.actor_id, p.action,
                                             p.document_id, p.case_id, t)
  BY SealedHash DEF SealInv
<1>3. p.entry_hash = HashOf(p) <=> Stored(t) = t
  <2>1. HashOf(p) = compute_entry_hash(p.prev_hash, p.actor_id, p.action,
                                       p.document_id, p.case_id, Stored(t))
    BY <1>2 DEF HashOf
  <2>2. HashOf(p).at = Stored(t) /\ p.entry_hash.at = t
    BY <1>2, <2>1 DEF compute_entry_hash
  <2>3. ASSUME Stored(t) = t PROVE p.entry_hash = HashOf(p)
    BY <1>2, <2>1, <2>3
  <2> QED BY <2>2, <2>3
<1>4. Stored(t) = t <=> t % TicksPerMicro = 0
  BY TimeAssumption DEF Stored
<1> QED BY <1>1, <1>2, <1>3, <1>4 DEF Broken, Rounded

(* The first of two sets is the same, when they agree up to a seq both have *)
LEMMA SameFirst ==
  ASSUME NEW A \in SUBSET Nat, NEW B \in SUBSET Nat, NEW n \in A \cap B,
         \A m \in Nat : m < n => (m \in A <=> m \in B)
  PROVE  First(A) = First(B)
<1>1. \A x : (x \in A /\ \A m \in A : x <= m) => (x \in B /\ \A m \in B : x <= m)
  OBVIOUS
<1>2. \A x : (x \in B /\ \A m \in B : x <= m) => (x \in A /\ \A m \in A : x <= m)
  OBVIOUS
<1>3. CASE \E x \in A : \A m \in A : x <= m
  <2>1. PICK x : x \in A /\ \A m \in A : x <= m
    BY <1>3
  <2>2. x \in B /\ \A m \in B : x <= m
    BY <1>1, <2>1
  <2>3. First(A) = x
    <3>1. \A y \in A : (\A m \in A : y <= m) => y = x
      BY <2>1
    <3> QED BY <2>1, <3>1 DEF First
  <2>4. First(B) = x
    <3>1. \A y \in B : (\A m \in B : y <= m) => y = x
      BY <2>2
    <3> QED BY <2>2, <3>1 DEF First
  <2> QED BY <2>3, <2>4
<1>4. CASE ~ \E x \in A : \A m \in A : x <= m
  BY <1>2, <1>4 DEF First
<1> QED BY <1>3, <1>4

BrokenSeqs(rows) == {e.seq : e \in BrokenRows(rows)}

LEMMA RoundingAccused == ChainInv /\ SealInv => OnlyRoundingAccused
<1>1. ASSUME ChainInv, SealInv PROVE BrokenRows(auditLog) = {e \in auditLog : Rounded(e)}
  BY <1>1, UntouchedRow DEF BrokenRows
<1> QED BY <1>1 DEF OnlyRoundingAccused, RoundedSeqs, verify_postgres_chain

LEMMA PairConcat == ASSUME NEW x, NEW y PROVE <<x>> \o <<y>> = <<x, y>>
<1> DEFINE S == {x, y}
<1>1. <<x>> \in Seq(S) /\ <<y>> \in Seq(S) /\ <<x, y>> \in Seq(S)
  OBVIOUS
<1>2. Len(<<x>> \o <<y>>) = 2 /\ (<<x>> \o <<y>>)[1] = x /\ (<<x>> \o <<y>>)[2] = y
  BY <1>1
<1>3. <<x>> \o <<y>> \in Seq(S)
  BY <1>1
<1>4. Len(<<x, y>>) = 2 /\ <<x, y>>[1] = x /\ <<x, y>>[2] = y /\ 1..2 = {1, 2}
  OBVIOUS
<1>5. \A i \in 1..Len(<<x>> \o <<y>>) : (<<x>> \o <<y>>)[i] = <<x, y>>[i]
  BY <1>2, <1>4, Zenon
<1>6. PICK s : s = <<x>> \o <<y>>
  OBVIOUS
<1>7. PICK t : t = <<x, y>>
  OBVIOUS
<1>8. \A u, v \in Seq(S) : Len(u) = Len(v) /\ (\A i \in 1..Len(u) : u[i] = v[i]) => u = v
  BY SeqEqual
<1> HIDE DEF S
<1>9. s = t
  BY <1>1, <1>2, <1>3, <1>4, <1>5, <1>6, <1>7, <1>8, Zenon
<1> QED BY <1>6, <1>7, <1>9

(* The ids hashed tell a changed id, as long as the case id was there.      *)
LEMMA IdsTell ==
  ASSUME NEW d, NEW c, c /= NoId, NEW other
  PROVE  /\ other /= d => Present(other) \o Present(c) /= Present(d) \o Present(c)
         /\ other /= c => Present(d) \o Present(other) /= Present(d) \o Present(c)
<1>1. ASSUME NEW x, NEW y
      PROVE  /\ x = NoId /\ y = NoId => Present(x) \o Present(y) = <<>>
             /\ x = NoId /\ y /= NoId => Present(x) \o Present(y) = <<y>>
             /\ x /= NoId /\ y = NoId => Present(x) \o Present(y) = <<x>>
             /\ x /= NoId /\ y /= NoId => Present(x) \o Present(y) = <<x, y>>
  <2>1. <<>> \o <<>> = <<>> /\ <<>> \o <<y>> = <<y>>
    OBVIOUS
  <2>2. <<x>> \o <<>> = <<x>>
    <3>1. <<x>> \in Seq({x}) /\ <<>> \in Seq({x})
      OBVIOUS
    <3> QED BY <3>1
  <2>3. <<x>> \o <<y>> = <<x, y>>
    BY PairConcat
  <2>4. /\ x = NoId => Present(x) = <<>>
        /\ x /= NoId => Present(x) = <<x>>
        /\ y = NoId => Present(y) = <<>>
        /\ y /= NoId => Present(y) = <<y>>
    BY DEF Present
  <2> QED BY <2>1, <2>2, <2>3, <2>4, Zenon
<1>2. ASSUME NEW x, NEW y, NEW z, NEW u
      PROVE  <<x, y>> /= <<z>> /\ <<x, y>> /= <<>> /\ <<x>> /= <<>>
             /\ (<<x, y>> = <<z, u>> => x = z /\ y = u) /\ (<<x>> = <<y>> => x = y)
  <2>1. Len(<<x, y>>) = 2 /\ Len(<<z>>) = 1 /\ Len(<<x>>) = 1 /\ Len(<<>>) = 0
    OBVIOUS
  <2>2. <<x, y>> = <<z, u>> => x = z /\ y = u
    OBVIOUS
  <2>3. <<x>> = <<y>> => x = y
    OBVIOUS
  <2>4. <<x, y>> /= <<z>> /\ <<x, y>> /= <<>>
    BY <2>1
  <2> QED BY <2>1, <2>2, <2>3, <2>4
<1>3. other /= d => Present(other) \o Present(c) /= Present(d) \o Present(c)
  <2>1. CASE other = NoId /\ d /= NoId
    <3>1. Present(other) \o Present(c) = <<c>> /\ Present(d) \o Present(c) = <<d, c>>
      BY <1>1, <2>1, Zenon
    <3> QED BY <1>2, <3>1, Zenon
  <2>2. CASE other /= NoId /\ d = NoId
    <3>1. Present(other) \o Present(c) = <<other, c>> /\ Present(d) \o Present(c) = <<c>>
      BY <1>1, <2>2, Zenon
    <3> QED BY <1>2, <3>1, Zenon
  <2>3. CASE other /= NoId /\ d /= NoId
    <3>1. Present(other) \o Present(c) = <<other, c>> /\ Present(d) \o Present(c) = <<d, c>>
      BY <1>1, <2>3, Zenon
    <3>2. other /= d => <<other, c>> /= <<d, c>>
      OBVIOUS
    <3> QED BY <3>1, <3>2, Zenon
  <2> QED BY <2>1, <2>2, <2>3, Zenon
<1>4. other /= c => Present(d) \o Present(other) /= Present(d) \o Present(c)
  <2>1. CASE d = NoId /\ other = NoId
    <3>1. Present(d) \o Present(other) = <<>> /\ Present(d) \o Present(c) = <<c>>
      BY <1>1, <2>1, Zenon
    <3> QED BY <1>2, <3>1, Zenon
  <2>2. CASE d = NoId /\ other /= NoId
    <3>1. Present(d) \o Present(other) = <<other>> /\ Present(d) \o Present(c) = <<c>>
      BY <1>1, <2>2, Zenon
    <3> QED BY <1>2, <3>1, Zenon
  <2>3. CASE d /= NoId /\ other = NoId
    <3>1. Present(d) \o Present(other) = <<d>> /\ Present(d) \o Present(c) = <<d, c>>
      BY <1>1, <2>3, Zenon
    <3> QED BY <1>2, <3>1, Zenon
  <2>4. CASE d /= NoId /\ other /= NoId
    <3>1. Present(d) \o Present(other) = <<d, other>> /\ Present(d) \o Present(c) = <<d, c>>
      BY <1>1, <2>4, Zenon
    <3>2. other /= c => <<d, other>> /= <<d, c>>
      OBVIOUS
    <3> QED BY <3>1, <3>2, Zenon
  <2> QED BY <2>1, <2>2, <2>3, <2>4, Zenon
<1> QED BY <1>3, <1>4

(* One field changed is told by the row's own hash.                         *)
LEMMA FieldTells ==
  ASSUME ChainInv, SealInv, KeysInv, NEW e \in auditLog, NEW f \in FieldEdits(e)
  PROVE  /\ f.seq = e.seq /\ f.prev_hash = e.prev_hash /\ f.entry_hash = e.entry_hash
         /\ f.entry_hash /= HashOf(f) /\ Shaped(f)
<1>1. PICK t \in Time : /\ Shaped(e) /\ t = e.entry_hash.at /\ e.created_at = Stored(t)
                        /\ e.entry_hash = compute_entry_hash(e.prev_hash, e.actor_id, e.action,
                                                             e.document_id, e.case_id, t)
  BY SealedHash DEF SealInv, Sealed
<1>2. e.case_id /= NoId
  BY NoIdAssumption DEF KeysInv, CaseIds, ChainInv, TypeInv, TypeOK
<1>3. CASE \E u \in User \ {e.actor_id} : f = [e EXCEPT !.actor_id = u]
  BY <1>1, <1>3 DEF Shaped, HashOf, compute_entry_hash
<1>4. CASE \E a \in Mutations \ {e.action} : f = [e EXCEPT !.action = a]
  BY <1>1, <1>4 DEF Shaped, HashOf, compute_entry_hash
<1>5. CASE \E d \in (Request \cup {NoId}) \ {e.document_id} : f = [e EXCEPT !.document_id = d]
  <2>1. PICK d : d /= e.document_id /\ f = [e EXCEPT !.document_id = d]
    BY <1>5
  <2>2. /\ f.seq = e.seq /\ f.document_id = d /\ f.case_id = e.case_id /\ Shaped(f)
        /\ f.prev_hash = e.prev_hash /\ f.entry_hash = e.entry_hash
    BY <1>1, <2>1 DEF Shaped
  <2>3. Present(f.document_id) \o Present(f.case_id)
          /= Present(e.document_id) \o Present(e.case_id)
    BY <1>2, <2>1, <2>2, IdsTell
  <2>4. f.entry_hash.ids /= HashOf(f).ids
    BY <1>1, <2>2, <2>3 DEF HashOf, compute_entry_hash
  <2> QED BY <2>2, <2>4
<1>6. CASE \E c \in (Request \cup {NoId}) \ {e.case_id} : f = [e EXCEPT !.case_id = c]
  <2>1. PICK c : c /= e.case_id /\ f = [e EXCEPT !.case_id = c]
    BY <1>6
  <2>2. /\ f.seq = e.seq /\ f.document_id = e.document_id /\ f.case_id = c /\ Shaped(f)
        /\ f.prev_hash = e.prev_hash /\ f.entry_hash = e.entry_hash
    BY <1>1, <2>1 DEF Shaped
  <2>3. Present(f.document_id) \o Present(f.case_id)
          /= Present(e.document_id) \o Present(e.case_id)
    BY <1>2, <2>1, <2>2, IdsTell
  <2>4. f.entry_hash.ids /= HashOf(f).ids
    BY <1>1, <2>2, <2>3 DEF HashOf, compute_entry_hash
  <2> QED BY <2>2, <2>4
<1>7. CASE \E u \in ({Stored(u) : u \in Time} \cup {e.created_at + TicksPerMicro}) \ {e.created_at} :
             f = [e EXCEPT !.created_at = u]
  <2>1. PICK u \in {Stored(v) : v \in Time} \cup {e.created_at + TicksPerMicro} :
               u /= e.created_at /\ f = [e EXCEPT !.created_at = u]
    BY <1>7
  <2>2. /\ f.seq = e.seq /\ f.created_at = u /\ Shaped(f)
        /\ f.prev_hash = e.prev_hash /\ f.entry_hash = e.entry_hash
    BY <1>1, <2>1 DEF Shaped
  <2>3. u /= t
    <3>1. CASE t % TicksPerMicro = 0
      <4>1. Stored(t) = t
        BY <3>1, TimeAssumption DEF Stored
      <4> QED BY <1>1, <2>1, <4>1
    <3>2. CASE t % TicksPerMicro /= 0
      BY <1>1, <2>1, <3>2, Rounding, TimeAssumption
    <3> QED BY <3>1, <3>2
  <2>4. f.entry_hash.at /= HashOf(f).at
    BY <1>1, <2>2, <2>3 DEF HashOf, compute_entry_hash
  <2> QED BY <2>2, <2>4
<1> QED BY <1>3, <1>4, <1>5, <1>6, <1>7 DEF FieldEdits

(* A hash changed is told by the link or by the row's own hash, whichever   *)
(* hash of the chain takes its place.                                       *)
LEMMA HashTells ==
  ASSUME ChainInv, SealInv, NEW e \in auditLog, NEW f \in HashEdits(e)
  PROVE  f.seq = e.seq /\ (f.prev_hash /= e.prev_hash \/ f.entry_hash /= HashOf(f))
<1>1. Shaped(e)
  BY DEF SealInv, Sealed
<1>2. CASE \E h \in Digests(auditLog) \ {e.prev_hash} : f = [e EXCEPT !.prev_hash = h]
  BY <1>1, <1>2 DEF Shaped
<1>3. CASE \E h \in Digests(auditLog) \ {e.entry_hash} : f = [e EXCEPT !.entry_hash = h]
  <2>1. PICK h \in Digests(auditLog) : h /= e.entry_hash /\ f = [e EXCEPT !.entry_hash = h]
    BY <1>3
  <2>2. f.seq = e.seq /\ f.prev_hash = e.prev_hash /\ f.entry_hash = h
    BY <1>1, <2>1 DEF Shaped
  <2>3. HashOf(f).prev = e.prev_hash /\ HashOf(f) /= Genesis
    <3>1. "prev" \in DOMAIN HashOf(f) /\ "prev" \notin DOMAIN Genesis
      BY DEF HashOf, compute_entry_hash, Genesis
    <3> QED BY <2>2, <3>1 DEF HashOf, compute_entry_hash
  <2>4. CASE h = Genesis
    BY <2>2, <2>3, <2>4
  <2>5. ASSUME NEW p \in auditLog, h = p.entry_hash PROVE h /= HashOf(f)
    <3>1. h.prev = p.prev_hash
      BY <2>5, SealedHash DEF SealInv
    <3> QED BY <2>1, <2>3, <2>5, <3>1 DEF SealInv
  <2> QED BY <2>1, <2>2, <2>4, <2>5 DEF Digests
<1> QED BY <1>2, <1>3 DEF HashEdits

(* A row changed so that it no longer verifies is where the walk stops,     *)
(* unless a rounded one comes first.                                        *)
LEMMA EditFound ==
  ASSUME ChainInv, SealInv, KeysInv, NEW e \in auditLog, NEW f, f.seq = e.seq,
         f.prev_hash /= e.prev_hash \/ f.entry_hash /= HashOf(f)
  PROVE  verify_postgres_chain((auditLog \ {e}) \cup {f}).broken_at_seq
           = First({e.seq} \cup RoundedSeqs(auditLog \ {e}))
<1> DEFINE others == auditLog \ {e}
           rows == others \cup {f}
           A == BrokenSeqs(rows)
           B == {e.seq} \cup RoundedSeqs(others)
<1>1. \A q \in auditLog \cup rows : q.seq \in Nat
  BY DEF ChainInv, TypeInv, TypeOK
<1>2. ASSUME NEW p \in auditLog, p.seq <= e.seq
      PROVE  Before(rows, p.seq) = Before(auditLog, p.seq)
  BY <1>1, <1>2 DEF Before
<1>3. Broken(rows, f)
  <2>1. Before(rows, f.seq) = Before(auditLog, e.seq)
    BY <1>1, <1>2
  <2>2. e.prev_hash = LastHash(Before(auditLog, e.seq))
    BY DEF ChainInv, ChainLinked
  <2> QED BY <2>1, <2>2 DEF Broken
<1>4. e.seq \in A
  BY <1>3 DEF BrokenSeqs, BrokenRows
<1>5. ASSUME NEW p \in rows, p.seq < e.seq
      PROVE  p \in others /\ (Broken(rows, p) <=> Rounded(p))
  <2>1. p \in others /\ p \in auditLog
    BY <1>1, <1>5
  <2>2. Before(rows, p.seq) = Before(auditLog, p.seq)
    BY <1>1, <1>2, <1>5, <2>1
  <2> HIDE DEF rows
  <2> QED BY <2>1, <2>2, UntouchedRow
<1>6. ASSUME NEW m \in Nat, m < e.seq PROVE m \in A <=> m \in B
  BY <1>5, <1>6 DEF BrokenSeqs, BrokenRows, RoundedSeqs
<1>7. A \in SUBSET Nat /\ B \in SUBSET Nat /\ e.seq \in B
  BY <1>1 DEF BrokenSeqs, BrokenRows, RoundedSeqs
<1> HIDE DEF A, B
<1>8. First(A) = First(B)
  BY <1>1, <1>4, <1>6, <1>7, SameFirst
<1> QED BY <1>8 DEF A, B, BrokenSeqs, verify_postgres_chain

(* Where a row is gone, or another stands in its place that verifies, the   *)
(* walk stops at the row that followed it, if there is one, again unless a  *)
(* rounded row comes first.                                                 *)
LEMMA GapFound ==
  ASSUME ChainInv, SealInv, KeysInv, NEW e \in auditLog, NEW rows,
         auditLog \ {e} \subseteq rows,
         \A q \in rows \ (auditLog \ {e}) : q.seq = e.seq /\ ~Broken(rows, q),
         \A n \in auditLog : Follows(n, e) => LastHash(Before(rows, n.seq)) /= e.entry_hash
  PROVE  verify_postgres_chain(rows).broken_at_seq
           = First({n.seq : n \in {n \in auditLog \ {e} : n.seq > e.seq}}
                     \cup RoundedSeqs(auditLog \ {e}))
<1> DEFINE others == auditLog \ {e}
           after == {n.seq : n \in {n \in others : n.seq > e.seq}}
           A == BrokenSeqs(rows)
           B == after \cup RoundedSeqs(others)
<1>1. \A q \in auditLog \cup rows : q.seq \in Nat
  BY DEF ChainInv, TypeInv, TypeOK
<1>2. \A q \in others : q.seq /= e.seq
  BY DEF KeysInv
<1>3. ASSUME NEW p \in others, p.seq < e.seq
      PROVE  Broken(rows, p) <=> Rounded(p)
  <2>1. Before(rows, p.seq) = Before(auditLog, p.seq)
    BY <1>1, <1>3 DEF Before
  <2> QED BY <2>1, UntouchedRow
<1>4. ASSUME NEW m \in Nat, m <= e.seq PROVE m \in A <=> m \in B
  BY <1>1, <1>2, <1>3, <1>4 DEF BrokenSeqs, BrokenRows, RoundedSeqs
<1>5. A \in SUBSET Nat /\ B \in SUBSET Nat
  BY <1>1 DEF BrokenSeqs, BrokenRows, RoundedSeqs
<1>6. CASE \A m \in auditLog : m.seq <= e.seq
  <2>1. \A m \in A \cup B : m <= e.seq
    BY <1>1, <1>6 DEF BrokenSeqs, BrokenRows, RoundedSeqs
  <2>2. A = B
    <3> HIDE DEF A, B
    <3> QED BY <1>4, <1>5, <2>1
  <2> QED BY <2>2 DEF BrokenSeqs, verify_postgres_chain
<1>7. ASSUME NEW n \in auditLog, Follows(n, e) PROVE First(A) = First(B)
  <2>1. n \in others /\ n.seq \in Nat /\ n.seq > e.seq
        /\ \A m \in auditLog : m.seq > e.seq => n.seq <= m.seq
    BY <1>1, <1>7 DEF Follows
  <2>2. Before(auditLog, n.seq) = Before(auditLog, e.seq) \cup {e}
    <3>1. \A q \in auditLog : q.seq < n.seq <=> q.seq < e.seq \/ q = e
      BY <1>1, <1>2, <2>1
    <3> QED BY <3>1 DEF Before
  <2>3. n.prev_hash = e.entry_hash
    <3>1. \A q \in Before(auditLog, e.seq) : q.seq \in Nat /\ q.seq < e.seq
      BY <1>1 DEF Before
    <3>2. LastHash(Before(auditLog, e.seq) \cup {e}) = e.entry_hash
      BY <1>1, <3>1, LastOfExtended
    <3> QED BY <2>2, <3>2 DEF ChainInv, ChainLinked
  <2>4. n \in rows /\ Broken(rows, n)
    BY <1>7, <2>1, <2>3 DEF Broken
  <2>5. n.seq \in A /\ n.seq \in B
    BY <2>1, <2>4 DEF BrokenSeqs, BrokenRows
  <2>6. ASSUME NEW m \in Nat, m < n.seq PROVE m \in A <=> m \in B
    <3>1. CASE m <= e.seq
      BY <1>4, <3>1
    <3>2. CASE m > e.seq
      <4>1. \A q \in auditLog \cup rows : q.seq /= m
        BY <1>1, <2>1, <2>6, <3>2
      <4> QED BY <4>1 DEF BrokenSeqs, BrokenRows, RoundedSeqs
    <3> QED BY <1>1, <3>1, <3>2
  <2> HIDE DEF A, B
  <2> QED BY <1>5, <2>1, <2>5, <2>6, SameFirst
<1>8. CASE \E n \in auditLog : Follows(n, e)
  BY <1>7, <1>8 DEF BrokenSeqs, verify_postgres_chain
<1> QED BY <1>6, <1>8 DEF SealInv

LEMMA ResealFound ==
  ASSUME ChainInv, SealInv, KeysInv, NEW e \in auditLog, NEW f \in FieldEdits(e)
  PROVE  verify_postgres_chain((auditLog \ {e}) \cup {Resealed(f)}).broken_at_seq
           = First({n.seq : n \in {n \in auditLog \ {e} : n.seq > e.seq}}
                     \cup RoundedSeqs(auditLog \ {e}))
<1>1. /\ f.seq = e.seq /\ f.prev_hash = e.prev_hash /\ f.entry_hash = e.entry_hash
      /\ f.entry_hash /= HashOf(f) /\ Shaped(f)
  BY FieldTells
<1>2. PICK g : g = Resealed(f)
  OBVIOUS
<1>3. /\ g.seq = e.seq /\ g.prev_hash = e.prev_hash /\ g.entry_hash = HashOf(g)
      /\ g.entry_hash /= e.entry_hash
  BY <1>1, <1>2 DEF Resealed, Shaped, HashOf
<1>4. PICK rows : rows = (auditLog \ {e}) \cup {g}
  OBVIOUS
<1>5. \A q \in auditLog \cup rows : q.seq \in Nat
  BY <1>3, <1>4 DEF ChainInv, TypeInv, TypeOK
<1>6. Before(rows, e.seq) = Before(auditLog, e.seq)
  BY <1>3, <1>4, <1>5 DEF Before
<1>7. ~Broken(rows, g)
  BY <1>3, <1>6 DEF Broken, ChainInv, ChainLinked
<1>8. ASSUME NEW n \in auditLog, Follows(n, e)
      PROVE  LastHash(Before(rows, n.seq)) /= e.entry_hash
  <2>1. Before(rows, n.seq) = Before(rows, e.seq) \cup {g}
    <3>1. \A q \in rows : q.seq < n.seq <=> q.seq < e.seq \/ q = g
      BY <1>3, <1>4, <1>5, <1>8 DEF Follows, KeysInv
    <3> QED BY <1>4, <3>1 DEF Before
  <2>2. \A q \in Before(rows, e.seq) : q.seq \in Nat /\ q.seq < g.seq
    BY <1>3, <1>5 DEF Before
  <2>3. LastHash(Before(rows, n.seq)) = g.entry_hash
    BY <1>3, <1>5, <2>1, <2>2, LastOfExtended
  <2> QED BY <1>3, <2>3
<1>9. /\ auditLog \ {e} \subseteq rows
      /\ \A q \in rows \ (auditLog \ {e}) : q.seq = e.seq /\ ~Broken(rows, q)
  BY <1>3, <1>4, <1>7
<1> QED BY <1>2, <1>4, <1>8, <1>9, GapFound

LEMMA RemovalFound ==
  ASSUME ChainInv, SealInv, KeysInv, NEW e \in auditLog
  PROVE  verify_postgres_chain(auditLog \ {e}).broken_at_seq
           = First({n.seq : n \in {n \in auditLog \ {e} : n.seq > e.seq}}
                     \cup RoundedSeqs(auditLog \ {e}))
<1>1. PICK rows : rows = auditLog \ {e}
  OBVIOUS
<1>2. \A q \in auditLog : q.seq \in Nat
  BY DEF ChainInv, TypeInv, TypeOK
<1>3. ASSUME NEW n \in auditLog, Follows(n, e)
      PROVE  LastHash(Before(rows, n.seq)) /= e.entry_hash
  <2>1. Before(rows, n.seq) = Before(auditLog, e.seq)
    <3>1. \A q \in auditLog : q \in rows /\ q.seq < n.seq <=> q.seq < e.seq
      BY <1>1, <1>2, <1>3 DEF Follows, KeysInv
    <3> QED BY <1>1, <3>1 DEF Before
  <2>2. LastHash(Before(auditLog, e.seq)) = e.prev_hash /\ e.entry_hash /= e.prev_hash
    BY DEF ChainInv, ChainLinked, SealInv
  <2> QED BY <2>1, <2>2
<1> QED BY <1>1, <1>3, GapFound

(* GET /audit/verify-chain accuses the log nobody touched exactly where a   *)
(* clock reading was rounded, and of nothing else, on every clock.          *)
THEOREM WalkVerdict == Spec => []OnlyRoundingAccused
BY SealHolds, RoundingAccused, PTL

(* It reports a row with a field or a hash changed at that row, and one     *)
(* whose hash was computed anew, or that was removed, at the row after it,  *)
(* on every clock: what a rounded row in front hides is said too.           *)
THEOREM WalkExact == Spec => []TamperLocated
<1>1. ASSUME ChainInv, SealInv, KeysInv, NEW e \in auditLog
      PROVE  \A f \in FieldEdits(e) \cup HashEdits(e) :
               verify_postgres_chain((auditLog \ {e}) \cup {f}).broken_at_seq
                 = First({e.seq} \cup RoundedSeqs(auditLog \ {e}))
  <2>1. ASSUME NEW f \in FieldEdits(e)
        PROVE  f.seq = e.seq /\ (f.prev_hash /= e.prev_hash \/ f.entry_hash /= HashOf(f))
    BY <1>1, FieldTells
  <2>2. ASSUME NEW f \in HashEdits(e)
        PROVE  f.seq = e.seq /\ (f.prev_hash /= e.prev_hash \/ f.entry_hash /= HashOf(f))
    BY <1>1, HashTells
  <2> QED BY <1>1, <2>1, <2>2, EditFound
<1>2. ChainInv /\ SealInv /\ DataInv => TamperLocated
  BY <1>1, ResealFound, RemovalFound DEF TamperLocated, DataInv
<1> QED BY SealHolds, <1>2, PTL
==============================================================================
