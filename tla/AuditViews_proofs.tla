--------------------------- MODULE AuditViews_proofs ---------------------------
(***************************************************************************)
(* What every GET of the backend shows, for any number of readers, calls,  *)
(* users and cases.  The argument: the tables only grow, and the log at    *)
(* its end (WritesAdd), so what one SELECT found is still so when the next *)
(* one runs (ReaderInv).                                                   *)
(***************************************************************************)
EXTENDS AuditViews, AuditTrail_proofs

(* A row names no document, or one of the case it is about; an upload's     *)
(* file is there when its transaction opens, and stays.                     *)
RowsRefer ==
  \A e \in auditLog :
    e.document_id = NoId \/ \E d \in documents : d.id = e.document_id /\ d.case_id = e.case_id
FilesKept ==
  /\ \A r \in Request : pc[r] \in {"stored"} \cup InTx /\ op[r].kind = "UPLOAD" => r \in files
  /\ \A d \in documents : d.file_path = NoId \/ d.file_path \in files
RefInv == RowsRefer /\ FilesKept

(* All that is known of the write path.                                     *)
WriteInv == ChainInv /\ DataInv /\ RecordInv /\ RefInv

-----------------------------------------------------------------------------
LEMMA RefCommit ==
  ASSUME ChainInv, DataInv, RefInv, NEW r \in Request, Commit(r) \/ CommitAnswerLost(r)
  PROVE  RefInv'
<1>1. PICK e : e = row[r]
  OBVIOUS
<1>2. /\ pc[r] = "logged" /\ auditLog' = auditLog \cup {e} /\ UNCHANGED <<op, files>>
      /\ documents' = documents \cup NewDocuments(r)
      /\ \A s \in Request : pc'[s] \in {"stored"} \cup InTx => pc[s] = pc'[s]
  BY <1>1 DEF Commit, CommitAnswerLost, Step, Goto, MakeVisible, tx, ChainInv, TypeInv, TypeOK, InTx, Inserted
<1>3. e.document_id = NoId \/ \E d \in documents' : d.id = e.document_id /\ d.case_id = e.case_id
  <2>1. CASE op[r].kind \in {"CREATE_CASE", "ASSIGN_USER"}
    BY <1>1, <1>2, <2>1, Committing DEF DocOf
  <2>2. CASE op[r].kind \in {"UPLOAD", "EVIDENCE"}
    <3>1. e.document_id = r /\ e.case_id = op[r].on
      BY <1>1, <1>2, <2>2, Committing DEF DocOf
    <3>2. \E d \in NewDocuments(r) : d.id = r /\ d.case_id = op[r].on
      BY <2>2 DEF NewDocuments
    <3> QED BY <1>2, <3>1, <3>2
  <2>3. CASE op[r].kind = "TRANSFER"
    BY <1>1, <1>2, <2>3, Committing
  <2> QED BY <1>2, <2>1, <2>2, <2>3, Committing
<1>4. RowsRefer'
  BY <1>2, <1>3 DEF RefInv, RowsRefer
<1>5. \A d \in NewDocuments(r) : d.file_path = NoId \/ d.file_path \in files
  BY <1>2 DEF NewDocuments, RefInv, FilesKept, InTx, Inserted
<1>6. FilesKept'
  BY <1>2, <1>5 DEF RefInv, FilesKept
<1> QED BY <1>4, <1>6 DEF RefInv

LEMMA RefNext == ChainInv /\ DataInv /\ RefInv /\ [Next]_vars => RefInv'
<1> SUFFICES ASSUME ChainInv, DataInv, RefInv, [Next]_vars PROVE RefInv'
  OBVIOUS
<1>0. pc \in [Request -> PCs] /\ op \in [Request -> Ops \cup {NoOp}]
  BY DEF ChainInv, TypeInv, TypeOK
<1>1. ASSUME ~ \E r \in Request : Commit(r) \/ CommitAnswerLost(r)
      PROVE  RefInv'
  <2>1. /\ UNCHANGED <<auditLog, documents>> /\ files \subseteq files'
        /\ \A s \in Request : pc'[s] \in {"stored"} \cup InTx => op'[s] = op[s]
        /\ \A s \in Request :
             pc'[s] \in {"stored"} \cup InTx /\ op[s].kind = "UPLOAD" =>
               pc[s] \in {"stored"} \cup InTx \/ s \in files'
    BY <1>0, <1>1 DEF Step, Goto, InTx, Inserted, db, tx, Next, Handle, Receive, CheckCaseExists, FetchDocument,
       CheckAccess, WriteFile, Begin, StageRows, LockChain, ReadLastHash, InsertAuditRow, PostToLedger,
       LedgerAnswers, LedgerCallFails, AfterLedger, ReadBack, Fail, Disconnect, Crash, LedgerAppends,
       PostLost, LedgerRestarts, vars, Final
  <2> QED BY <2>1 DEF RefInv, RowsRefer, FilesKept
<1> QED BY <1>1, RefCommit

-----------------------------------------------------------------------------
(* Opened, with the call it answered and that call's audit row by name.     *)
OpenedBy(u, n, t, call, entry) ==
  /\ call = [kind |-> "CREATE_CASE", actor |-> u, on |-> n, user |-> NoId]
  /\ entry = [seq |-> 1, prev_hash |-> Genesis,
              entry_hash |-> compute_entry_hash(Genesis, u, "CREATE_CASE", NoId, Opening, t),
              actor_id |-> u, action |-> "CREATE_CASE",
              document_id |-> NoId, case_id |-> Opening, created_at |-> Stored(t)]
  /\ Role[u] /= "investigator"
  /\ pc = [r \in Request |-> IF r = Opening THEN "ok" ELSE "idle"]
  /\ op = [r \in Request |-> IF r = Opening THEN call ELSE NoOp]
  /\ prev = [r \in Request |-> Genesis]
  /\ row = [r \in Request |-> IF r = Opening THEN entry ELSE NoRow]
  /\ cases = {[id |-> Opening, number |-> n]} /\ assignments = {<<Opening, u>>}
  /\ documents = {} /\ auditLog = {entry} /\ lastSeq = 1
  /\ files = {} /\ inFlight = {} /\ alarms = {Opening}
  /\ ledger = {} /\ ledgerFile = {} /\ lost = {}

(* The state a behaviour starts from is one the write path allows.          *)
LEMMA OpenedFits == ASSUME "CREATE_CASE" \in Kind, Opened PROVE WriteInv
<1> USE DEF OpenedBy
<1>0. PICK u \in User, n \in CaseNumber, t \in Time : \E call, entry : OpenedBy(u, n, t, call, entry)
  BY DEF Opened
<1>1. PICK call, entry : OpenedBy(u, n, t, call, entry)
  BY <1>0
<1>2. /\ entry.seq = 1 /\ entry.prev_hash = Genesis /\ entry.action = "CREATE_CASE"
      /\ entry.case_id = Opening /\ entry.actor_id = u /\ entry.document_id = NoId
  BY <1>1
<1>3. Opening \in Request
  BY OpeningAssumption
<1>4. ChainInv
  <2>1. \A e \in auditLog : Before(auditLog, e.seq) = {}
    BY <1>1, <1>2 DEF Before
  <2>2. ChainLinked
    BY <1>1, <1>2, <2>1 DEF ChainLinked, LastHash
  <2>3. TypeOK
    <3>1. call \in Ops \cup {NoOp}
      BY <1>1 DEF Ops
    <3> QED BY <1>1, <1>2, <1>3, <3>1 DEF TypeOK, PCs, Final
  <2>4. AssigneeKnown /\ LockInv /\ HolderInv
    BY <1>1 DEF AssigneeKnown, LockInv, HolderInv, Inserted, HoldsLock
  <2>5. OpKnown
    BY <1>1 DEF OpKnown, Ops
  <2> QED BY <2>2, <2>3, <2>4, <2>5 DEF ChainInv, TypeInv
<1>5. CaseIds = {Opening} /\ DocIds = {}
  BY <1>1 DEF CaseIds, DocIds
<1>6. DataInv
  <2>1. \A r \in Request : CallInv(r)
    BY <1>1, <1>5 DEF CallInv, Unwritten, Checked, InTx, Inserted
  <2>2. Apart
    BY <1>1 DEF Apart, Inserted
  <2>3. KeysInv
    <3>1. IsFiniteSet(auditLog) /\ IsFiniteSet(assignments) /\ IsFiniteSet(documents)
      BY <1>1, FS_EmptySet, FS_Singleton
    <3> QED BY <1>1, <1>2, <1>5, <3>1 DEF KeysInv
  <2>4. AuditMatchesData
    <3>1. RowsOf("CREATE_CASE", Opening) = {entry} /\ RowsOf("ASSIGN_USER", Opening) = {}
          /\ RowsOf("UPLOAD", Opening) = {}
      BY <1>1, <1>2 DEF RowsOf
    <3>2. {a \in assignments : a[1] = Opening} = {<<Opening, u>>}
      BY <1>1
    <3>3. Cardinality({entry}) = 1 /\ Cardinality({<<Opening, u>>}) = 1 /\ Cardinality({}) = 0
      BY FS_EmptySet, FS_Singleton
    <3>4. /\ {d \in documents : d.case_id = Opening} = {}
          /\ {d.id : d \in {d \in documents : d.case_id = Opening}} = {}
          /\ {e.document_id : e \in RowsOf("UPLOAD", Opening)} = {}
      BY <1>1, <3>1
    <3>5. \A c \in cases : c.id = Opening
      BY <1>1
    <3>6. \A e \in auditLog : \E c \in cases : c.id = e.case_id
      BY <1>1, <1>2
    <3>7. ASSUME NEW c \in cases
          PROVE  /\ Cardinality(RowsOf("CREATE_CASE", c.id)) = 1
                 /\ Cardinality({a \in assignments : a[1] = c.id})
                      = 1 + Cardinality(RowsOf("ASSIGN_USER", c.id))
                 /\ {d.id : d \in {d \in documents : d.case_id = c.id}}
                      = {e.document_id : e \in RowsOf("UPLOAD", c.id)}
                 /\ Cardinality({d \in documents : d.case_id = c.id})
                      = Cardinality(RowsOf("UPLOAD", c.id))
      <4>1. PICK o : o = c.id
        OBVIOUS
      <4>2. o = Opening
        BY <3>5, <4>1
      <4>3. Cardinality(RowsOf("CREATE_CASE", o)) = 1
        BY <3>1, <3>3, <4>2
      <4>4. Cardinality({a \in assignments : a[1] = o}) = 1 + Cardinality(RowsOf("ASSIGN_USER", o))
        <5>1. Cardinality({a \in assignments : a[1] = o}) = 1
          BY <3>2, <3>3, <4>2
        <5>2. Cardinality(RowsOf("ASSIGN_USER", o)) = 0
          BY <3>1, <3>3, <4>2
        <5> QED BY <5>1, <5>2
      <4>5. {d.id : d \in {d \in documents : d.case_id = o}} = {e.document_id : e \in RowsOf("UPLOAD", o)}
        BY <3>4, <4>2
      <4>6. Cardinality({d \in documents : d.case_id = o}) = Cardinality(RowsOf("UPLOAD", o))
        BY <3>1, <3>4, <4>2
      <4> QED BY <4>1, <4>3, <4>4, <4>5, <4>6, Zenon
    <3> QED BY <3>6, <3>7, Zenon DEF AuditMatchesData
  <2>5. ChainCausal /\ InvestigatorScoped
    BY <1>1, <1>2 DEF ChainCausal, InvestigatorScoped
  <2> QED BY <2>1, <2>2, <2>3, <2>4, <2>5 DEF DataInv
<1>7. RecordInv
  BY <1>1, <1>3, <1>4 DEF RecordInv, RecordAt, Accepted, ChainInv, TypeInv
<1>8. RefInv
  BY <1>1, <1>2 DEF RefInv, RowsRefer, FilesKept, InTx, Inserted
<1> QED BY <1>4, <1>6, <1>7, <1>8 DEF WriteInv

LEMMA WriteNext == WriteInv /\ [Next]_vars => WriteInv'
<1>1. ChainInv /\ [Next]_vars => TypeOK'
  BY ChainNext DEF ChainInv, TypeInv
<1> QED BY <1>1, ChainNext, DataNext, RecordNext, RefNext DEF WriteInv

(* A step of a writer adds to the tables and to the end of the log, and     *)
(* leaves what was answered as it was.                                      *)
WritesAdd ==
  /\ cases \subseteq cases' /\ assignments \subseteq assignments' /\ documents \subseteq documents'
  /\ auditLog \subseteq auditLog' /\ files \subseteq files'
  /\ alarms \subseteq alarms' /\ lost \subseteq lost'
  /\ \A e \in auditLog' \ auditLog, p \in auditLog : p.seq \in Nat /\ e.seq \in Nat /\ p.seq < e.seq
  /\ \A w \in Request : pc[w] = "ok" => pc'[w] = "ok" /\ row'[w] = row[w]

LEMMA WritersAdd == ASSUME WriteInv, [Next]_vars PROVE WritesAdd
<1>0. pc \in [Request -> PCs] /\ DOMAIN row = Request
  BY DEF WriteInv, ChainInv, TypeInv, TypeOK
<1>1. \A e \in auditLog' \ auditLog, p \in auditLog : p.seq \in Nat /\ e.seq \in Nat /\ p.seq < e.seq
  BY LogStep DEF WriteInv
<1>2. \A w \in Request : pc[w] = "ok" => pc'[w] = "ok" /\ row'[w] = row[w]
  BY <1>0 DEF Step, Goto, InTx, Inserted, db, tx, Next, Handle, Receive, CheckCaseExists, FetchDocument,
     CheckAccess, WriteFile, Begin, StageRows, LockChain, ReadLastHash, InsertAuditRow, PostToLedger,
     LedgerAnswers, LedgerCallFails, AfterLedger, ReadBack, Fail, Disconnect, Crash, LedgerAppends,
     PostLost, LedgerRestarts, vars, Final, Fallible, Commit, CommitAnswerLost
<1>3. /\ cases \subseteq cases' /\ assignments \subseteq assignments'
      /\ documents \subseteq documents' /\ auditLog \subseteq auditLog'
      /\ files \subseteq files' /\ alarms \subseteq alarms' /\ lost \subseteq lost'
  BY DEF db, service, store, Next, Handle, Receive, CheckCaseExists, FetchDocument,
     CheckAccess, WriteFile, Begin, StageRows, LockChain, ReadLastHash, InsertAuditRow, PostToLedger,
     LedgerAnswers, LedgerCallFails, ReadBack, Fail, Disconnect, Crash, LedgerAppends,
     PostLost, LedgerRestarts, vars, Commit, CommitAnswerLost, MakeVisible
<1> QED BY <1>1, <1>2, <1>3 DEF WritesAdd

-----------------------------------------------------------------------------
(* What one query has found and may still rely on.                          *)
PastCheck == {"allowed", "events", "mirror", "ok", "missing"}
Custody == {"evidence", "case_evidence", "all_evidence"}
Entitled(r, c) == Role[query[r].actor] = "investigator" => <<c, query[r].actor>> \in assignments

ShapeInv(r) ==
  /\ rpc[r] \in {"idle", "received", "found", "error"} \cup PastCheck
  /\ rpc[r] /= "idle" => query[r] \in Queries
  /\ rpc[r] = "idle" => shown[r] = Nothing
  /\ rpc[r] \in {"idle", "received", "found", "allowed", "mirror"} => todo[r] = {}
  /\ rpc[r] = "found" => query[r].kind \in DocumentViews \cup {"case"}
  /\ rpc[r] = "allowed" => query[r].kind \in {"trail", "documents", "case_evidence", "download"}
  /\ rpc[r] = "events" => query[r].kind \in Custody
  /\ rpc[r] = "mirror" => query[r].kind = "trail"
  /\ rpc[r] = "missing" => query[r].kind = "download"
  /\ shown[r] \in [cases : SUBSET Request, docs : SUBSET DocIds, events : SUBSET auditLog,
                   source : {"postgres", "ledger"}]
  /\ todo[r] \subseteq shown[r].docs
  /\ before[r] \subseteq {w \in Request : pc[w] = "ok"}

(* The document it found is there, and the case it is about may be seen.    *)
CheckInv(r) ==
  /\ rpc[r] \in {"found"} \cup PastCheck /\ query[r].kind \in DocumentViews => Asked(r) \in DocIds
  /\ rpc[r] \in PastCheck /\ query[r].kind \notin Lists => Entitled(r, CaseAsked(r))

ScopeInv(r) ==
  /\ \A c \in shown[r].cases : Entitled(r, c)
  /\ \A d \in documents : d.id \in shown[r].docs => Entitled(r, d.case_id)
  /\ \A e \in shown[r].events : Entitled(r, e.case_id)

(* Of what it shows events of, it shows the first ones.                     *)
Contiguous(r) ==
  shown[r].source = "postgres" =>
    \A e \in shown[r].events, p \in auditLog :
      /\ p.seq < e.seq
      /\ IF query[r].kind = "trail" THEN p.case_id = e.case_id ELSE p.document_id = e.document_id
      => p \in shown[r].events
Originated(r) ==
  query[r].kind \in Custody =>
    /\ rpc[r] \in {"events", "ok"} =>
         \A d \in shown[r].docs \ todo[r] :
           \E e \in shown[r].events : e.document_id = d /\ e.action = "UPLOAD"
    /\ rpc[r] = "ok" => todo[r] = {}
Answered(r) ==
  /\ query[r].kind = "trail" /\ rpc[r] = "ok" =>
       \A w \in before[r] : row[w].case_id = Asked(r) =>
         \/ row[w] \in shown[r].events
         \/ (shown[r].source = "ledger" /\ w \in alarms \cup lost)
  /\ rpc[r] = "missing" => \E d \in documents : d.id = Asked(r) /\ d.file_path = NoId

ReaderInv(r) ==
  ShapeInv(r) /\ CheckInv(r) /\ ScopeInv(r) /\ Contiguous(r) /\ Originated(r) /\ Answered(r)
ReadersInv ==
  /\ DOMAIN rpc = Reader /\ DOMAIN query = Reader /\ DOMAIN shown = Reader
  /\ DOMAIN todo = Reader /\ DOMAIN before = Reader
  /\ \A r \in Reader : ReaderInv(r)

-----------------------------------------------------------------------------
(* A document is told by its id.                                            *)
LEMMA DocumentFound ==
  ASSUME KeysInv, NEW d \in documents
  PROVE  (CHOOSE x \in documents : x.id = d.id) = d
BY DEF KeysInv

LEMMA WriterReaders ==
  ASSUME WriteInv, WriteInv', WritesAdd, UNCHANGED views, NEW r \in Reader, ReaderInv(r)
  PROVE  ReaderInv(r)'
<1>1. /\ rpc' = rpc /\ query' = query /\ shown' = shown /\ todo' = todo /\ before' = before
      /\ Asked(r)' = Asked(r)
  BY DEF views, Asked
<1>2. KeysInv /\ KeysInv' /\ documents \subseteq documents' /\ DocIds \subseteq DocIds'
  BY DEF WriteInv, DataInv, WritesAdd, DocIds
<1>3. \A c : Entitled(r, c) => Entitled(r, c)'
  BY <1>1 DEF Entitled, WritesAdd
<1>4. ShapeInv(r)'
  <2>1. auditLog \subseteq auditLog' /\ \A w \in Request : pc[w] = "ok" => pc'[w] = "ok"
    BY DEF WritesAdd
  <2>2. /\ rpc[r] \in {"idle", "received", "found", "error"} \cup PastCheck
        /\ rpc[r] /= "idle" => query[r] \in Queries
        /\ rpc[r] = "idle" => shown[r] = Nothing
        /\ rpc[r] \in {"idle", "received", "found", "allowed", "mirror"} => todo[r] = {}
        /\ rpc[r] = "found" => query[r].kind \in DocumentViews \cup {"case"}
        /\ rpc[r] = "allowed" => query[r].kind \in {"trail", "documents", "case_evidence", "download"}
        /\ rpc[r] = "events" => query[r].kind \in Custody
        /\ rpc[r] = "mirror" => query[r].kind = "trail"
        /\ rpc[r] = "missing" => query[r].kind = "download"
        /\ todo[r] \subseteq shown[r].docs
    BY DEF ReaderInv, ShapeInv
  <2>3. shown[r] \in [cases : SUBSET Request, docs : SUBSET DocIds', events : SUBSET auditLog',
                     source : {"postgres", "ledger"}]
    <3>1. shown[r] \in [cases : SUBSET Request, docs : SUBSET DocIds, events : SUBSET auditLog,
                       source : {"postgres", "ledger"}]
      BY DEF ReaderInv, ShapeInv
    <3> QED BY <1>2, <2>1, <3>1
  <2>4. before[r] \subseteq {w \in Request : pc'[w] = "ok"}
    BY <2>1 DEF ReaderInv, ShapeInv
  <2> QED BY <1>1, <2>2, <2>3, <2>4 DEF ShapeInv, Nothing, Queries
<1>5. CheckInv(r)'
  <2>1. ASSUME query[r].kind \in DocumentViews, Asked(r) \in DocIds
        PROVE  CaseAsked(r)' = CaseAsked(r)
    <3>1. PICK d \in documents : d.id = Asked(r)
      BY <2>1 DEF DocIds
    <3>2. CaseAsked(r) = d.case_id
      <4>1. (CHOOSE x \in documents : x.id = d.id) = d
        BY <1>2, DocumentFound
      <4> QED BY <2>1, <3>1, <4>1 DEF CaseAsked
    <3>3. CaseAsked(r)' = d.case_id
      <4>1. (CHOOSE x \in documents' : x.id = d.id) = d
        BY <1>2 DEF KeysInv
      <4> QED BY <1>1, <2>1, <3>1, <4>1 DEF CaseAsked
    <3> QED BY <3>2, <3>3
  <2>2. query[r].kind \notin DocumentViews => CaseAsked(r)' = CaseAsked(r)
    BY <1>1 DEF CaseAsked
  <2>3. CheckInv(r)
    BY DEF ReaderInv
  <2>4. rpc[r] \in {"found"} \cup PastCheck /\ query[r].kind \in DocumentViews => Asked(r)' \in DocIds'
    BY <1>1, <1>2, <2>3 DEF CheckInv
  <2>5. rpc[r] \in PastCheck /\ query[r].kind \notin Lists => Entitled(r, CaseAsked(r))'
    <3>1. ASSUME rpc[r] \in PastCheck, query[r].kind \notin Lists
          PROVE  Entitled(r, CaseAsked(r)) /\ CaseAsked(r)' = CaseAsked(r)
      BY <2>1, <2>2, <2>3, <3>1 DEF CheckInv
    <3>2. ASSUME rpc[r] \in PastCheck, query[r].kind \notin Lists
          PROVE  Entitled(r, CaseAsked(r))'
      BY <1>1, <3>1, <3>2 DEF Entitled, WritesAdd
    <3> QED BY <3>2
  <2> QED BY <1>1, <2>4, <2>5 DEF CheckInv
<1>6. ScopeInv(r)'
  <2>1. ScopeInv(r) /\ shown[r].docs \subseteq DocIds
    BY DEF ReaderInv, ShapeInv
  <2>2. \A d \in documents' : d.id \in shown[r].docs => d \in documents
    BY <1>2, <2>1 DEF DocIds, KeysInv
  <2> QED BY <1>1, <2>1, <2>2 DEF ScopeInv, Entitled, WritesAdd
<1>7. Contiguous(r)'
  <2>1. Contiguous(r) /\ shown[r].events \subseteq auditLog
    BY DEF ReaderInv, ShapeInv
  <2>2. \A e \in shown[r].events, p \in auditLog' : p.seq < e.seq => p \in auditLog
    BY <2>1 DEF WritesAdd
  <2> QED BY <1>1, <2>1, <2>2 DEF Contiguous
<1>8. Originated(r)'
  BY <1>1 DEF ReaderInv, Originated
<1>9. Answered(r)'
  <2>1. Answered(r) /\ before[r] \subseteq {w \in Request : pc[w] = "ok"}
    BY DEF ReaderInv, ShapeInv
  <2> QED BY <1>1, <1>2, <2>1 DEF Answered, WritesAdd
<1> QED BY <1>4, <1>5, <1>6, <1>7, <1>8, <1>9 DEF ReaderInv

-----------------------------------------------------------------------------
(* What a query may rely on when it looks at the tables.                    *)
LEMMA TablesKnown ==
  ASSUME WriteInv
  PROVE  /\ KeysInv /\ DocIds \subseteq Request /\ CaseIds \subseteq Request
         /\ \A d \in documents : (CHOOSE x \in documents : x.id = d.id) = d
         /\ \A e \in auditLog, d \in documents : e.document_id = d.id => e.case_id = d.case_id
         /\ \A d \in documents : \E e \in auditLog : e.document_id = d.id /\ e.action = "UPLOAD"
         /\ \A d \in documents : d.file_path \notin files => d.file_path = NoId
         /\ {row[s] : s \in ledger} \subseteq auditLog
         /\ \A w \in Request : pc[w] = "ok" => row[w] \in auditLog /\ w \in ledger \cup lost \cup alarms
<1>1. KeysInv /\ AuditMatchesData /\ RowsRefer /\ FilesKept /\ TypeOK /\ RecordInv
  BY DEF WriteInv, DataInv, ChainInv, TypeInv, RefInv
<1>2. DocIds \subseteq Request /\ CaseIds \subseteq Request /\ ledger \subseteq Request
  BY <1>1 DEF DocIds, CaseIds, TypeOK
<1>3. \A d \in documents : (CHOOSE x \in documents : x.id = d.id) = d
  BY <1>1, DocumentFound
<1>4. \A e \in auditLog, d \in documents : e.document_id = d.id => e.case_id = d.case_id
  BY <1>1, NoIdAssumption DEF RowsRefer, KeysInv, TypeOK
<1>5. ASSUME NEW d \in documents
      PROVE  \E e \in auditLog : e.document_id = d.id /\ e.action = "UPLOAD"
  <2>1. PICK c \in cases : c.id = d.case_id
    BY <1>1 DEF KeysInv, CaseIds
  <2>2. d.id \in {e.document_id : e \in RowsOf("UPLOAD", c.id)}
    <3>1. d.id \in {x.id : x \in {x \in documents : x.case_id = c.id}}
      BY <2>1
    <3> QED BY <1>1, <3>1, Zenon DEF AuditMatchesData
  <2> QED BY <2>2 DEF RowsOf
<1>6. \A d \in documents : d.file_path \notin files => d.file_path = NoId
  BY <1>1 DEF FilesKept
<1>7. {row[s] : s \in ledger} \subseteq auditLog
  BY <1>1, <1>2 DEF RecordInv, RecordAt, Accepted
<1>8. \A w \in Request : pc[w] = "ok" => row[w] \in auditLog /\ w \in ledger \cup lost \cup alarms
  BY <1>1 DEF RecordInv, RecordAt, Accepted
<1> QED BY <1>1, <1>2, <1>3, <1>4, <1>5, <1>6, <1>7, <1>8

(* Queries do not touch the tables, nor one another.                        *)
LEMMA SameTablesRead ==
  ASSUME UNCHANGED vars
  PROVE  /\ pc' = pc /\ row' = row /\ documents' = documents /\ auditLog' = auditLog
         /\ assignments' = assignments /\ alarms' = alarms /\ lost' = lost /\ files' = files
         /\ DocIds' = DocIds
BY DEF vars, db, tx, service, store, DocIds

LEMMA OtherReaders ==
  ASSUME UNCHANGED vars, NEW r \in Reader, ReaderInv(r),
         rpc'[r] = rpc[r], query'[r] = query[r], shown'[r] = shown[r],
         todo'[r] = todo[r], before'[r] = before[r]
  PROVE  ReaderInv(r)'
<1>1. /\ pc' = pc /\ row' = row /\ documents' = documents /\ auditLog' = auditLog
      /\ assignments' = assignments /\ alarms' = alarms /\ lost' = lost /\ files' = files
      /\ DocIds' = DocIds
  BY SameTablesRead
<1>2. Asked(r)' = Asked(r) /\ CaseAsked(r)' = CaseAsked(r)
  BY <1>1 DEF Asked, CaseAsked
<1>3. \A c : Entitled(r, c) => Entitled(r, c)'
  BY <1>1 DEF Entitled
<1>4. ShapeInv(r)'
  BY <1>1 DEF ReaderInv, ShapeInv, Queries, Nothing
<1>5. CheckInv(r)'
  <2>1. CheckInv(r)
    BY DEF ReaderInv
  <2> QED BY <1>1, <1>2, <2>1 DEF CheckInv, Entitled
<1>6. ScopeInv(r)'
  BY <1>1 DEF ReaderInv, ScopeInv, Entitled
<1>7. Contiguous(r)' /\ Originated(r)'
  BY <1>1 DEF ReaderInv, Contiguous, Originated
<1>8. Answered(r)'
  BY <1>1, <1>2 DEF ReaderInv, Answered
<1> QED BY <1>4, <1>5, <1>6, <1>7, <1>8 DEF ReaderInv

-----------------------------------------------------------------------------
(* Steps that only move a query on: it goes no further than it was let.     *)
LEMMA TurnKeeps ==
  ASSUME ReadersInv, UNCHANGED <<vars, query, shown, todo, before>>, NEW r \in Reader,
         rpc[r] /= "idle", rpc' = [rpc EXCEPT ![r] = rpc'[r]],
         rpc'[r] \in {"found", "error", "mirror", "ok", "missing"},
         CheckInv(r)', Answered(r)', Originated(r)',
         rpc'[r] = "found" => query[r].kind \in DocumentViews \cup {"case"} /\ rpc[r] = "received",
         rpc'[r] = "mirror" => query[r].kind = "trail" /\ rpc[r] = "allowed",
         rpc'[r] = "missing" => query[r].kind = "download"
  PROVE  ReaderInv(r)'
<1>1. /\ pc' = pc /\ row' = row /\ documents' = documents /\ auditLog' = auditLog
      /\ assignments' = assignments /\ DocIds' = DocIds
  BY SameTablesRead
<1>2. ReaderInv(r) /\ query' = query /\ shown' = shown /\ todo' = todo /\ before' = before
  BY DEF ReadersInv
<1>3. ShapeInv(r)'
  BY <1>1, <1>2 DEF ReaderInv, ShapeInv, PastCheck, Queries
<1>4. ScopeInv(r)' /\ Contiguous(r)'
  BY <1>1, <1>2 DEF ReaderInv, ScopeInv, Contiguous, Entitled
<1> QED BY <1>3, <1>4 DEF ReaderInv

LEMMA FindRowKeeps ==
  ASSUME ReadersInv, UNCHANGED vars, NEW r \in Reader, FindRow(r)
  PROVE  ReaderInv(r)'
<1>1. /\ rpc[r] = "received" /\ rpc'[r] \in {"found", "error"} /\ rpc' = [rpc EXCEPT ![r] = rpc'[r]]
      /\ query[r].kind \in DocumentViews \cup {"case"}
      /\ UNCHANGED <<query, shown, todo, before>>
      /\ rpc'[r] = "found" /\ query[r].kind \in DocumentViews => Asked(r) \in DocIds
  BY DEF FindRow, Turn, DocIds, DocumentViews, ReadersInv
<1>2. DocIds' = DocIds /\ Asked(r)' = Asked(r)
  BY <1>1, SameTablesRead DEF Asked
<1>3. CheckInv(r)' /\ Answered(r)' /\ Originated(r)'
  BY <1>1, <1>2 DEF CheckInv, Answered, Originated, PastCheck
<1> QED BY <1>1, <1>3, TurnKeeps

LEMMA GiveUpKeeps ==
  ASSUME ReadersInv, UNCHANGED vars, NEW r \in Reader, GiveUp(r)
  PROVE  ReaderInv(r)'
<1>1. /\ rpc[r] /= "idle" /\ rpc'[r] = "error" /\ rpc' = [rpc EXCEPT ![r] = rpc'[r]]
      /\ UNCHANGED <<query, shown, todo, before>>
  BY DEF GiveUp, Turn, ReadersInv
<1>2. CheckInv(r)' /\ Answered(r)' /\ Originated(r)'
  BY <1>1 DEF CheckInv, Answered, Originated, PastCheck
<1> QED BY <1>1, <1>2, TurnKeeps

LEMMA LedgerUnreachableKeeps ==
  ASSUME ReadersInv, UNCHANGED vars, NEW r \in Reader, LedgerUnreachable(r)
  PROVE  ReaderInv(r)'
<1>1. /\ rpc[r] = "allowed" /\ rpc'[r] = "mirror" /\ rpc' = [rpc EXCEPT ![r] = rpc'[r]]
      /\ query[r].kind = "trail" /\ UNCHANGED <<query, shown, todo, before>>
  BY DEF LedgerUnreachable, Turn, ReadersInv
<1>2. CaseAsked(r) = Asked(r) /\ CaseAsked(r)' = Asked(r) /\ assignments' = assignments
  BY <1>1, SameTablesRead DEF CaseAsked, Asked, DocumentViews
<1>3. CheckInv(r)
  BY DEF ReadersInv, ReaderInv
<1>4. CheckInv(r)'
  BY <1>1, <1>2, <1>3 DEF CheckInv, PastCheck, DocumentViews, Lists, Entitled
<1>5. Answered(r)' /\ Originated(r)'
  BY <1>1 DEF Answered, Originated, Custody
<1> QED BY <1>1, <1>4, <1>5, TurnKeeps

LEMMA ProjectKeeps ==
  ASSUME ReadersInv, UNCHANGED vars, NEW r \in Reader, Project(r)
  PROVE  ReaderInv(r)'
<1>1. /\ rpc[r] = "events" /\ rpc'[r] = "ok" /\ rpc' = [rpc EXCEPT ![r] = rpc'[r]]
      /\ todo[r] = {} /\ UNCHANGED <<query, shown, todo, before>>
  BY DEF Project, Turn, ReadersInv
<1>2. CaseAsked(r)' = CaseAsked(r) /\ Asked(r)' = Asked(r) /\ assignments' = assignments
      /\ DocIds' = DocIds
  BY <1>1, SameTablesRead DEF CaseAsked, Asked
<1>3. ShapeInv(r) /\ CheckInv(r) /\ Originated(r)
  BY DEF ReadersInv, ReaderInv
<1>4. CheckInv(r)'
  BY <1>1, <1>2, <1>3 DEF CheckInv, PastCheck, Entitled
<1>5. query[r].kind \in Custody
  BY <1>1, <1>3 DEF ShapeInv
<1>6. Originated(r)'
  <2>1. auditLog' = auditLog
    BY SameTablesRead
  <2> QED BY <1>1, <1>3, <1>5 DEF Originated
<1>7. Answered(r)'
  BY <1>1, <1>5 DEF Answered, Custody
<1> QED BY <1>1, <1>4, <1>6, <1>7, TurnKeeps

LEMMA ReadFileKeeps ==
  ASSUME WriteInv, ReadersInv, UNCHANGED vars, NEW r \in Reader, ReadFile(r)
  PROVE  ReaderInv(r)'
<1>1. /\ rpc[r] = "allowed" /\ rpc'[r] \in {"ok", "missing"} /\ rpc' = [rpc EXCEPT ![r] = rpc'[r]]
      /\ query[r].kind = "download" /\ UNCHANGED <<query, shown, todo, before>>
      /\ rpc'[r] = "missing" => (CHOOSE d \in documents : d.id = Asked(r)).file_path \notin files
  BY DEF ReadFile, Turn, ReadersInv
<1>2. CaseAsked(r)' = CaseAsked(r) /\ Asked(r)' = Asked(r) /\ assignments' = assignments
      /\ DocIds' = DocIds /\ documents' = documents
  BY <1>1, SameTablesRead DEF CaseAsked, Asked
<1>3. CheckInv(r)
  BY DEF ReadersInv, ReaderInv
<1>4. CheckInv(r)'
  BY <1>1, <1>2, <1>3 DEF CheckInv, PastCheck, Entitled
<1>5. PICK d \in documents : d.id = Asked(r)
  BY <1>1, <1>3 DEF CheckInv, PastCheck, DocumentViews, DocIds
<1>6. (CHOOSE x \in documents : x.id = Asked(r)) = d
  <2>1. KeysInv
    BY TablesKnown
  <2> QED BY <1>5, <2>1 DEF KeysInv
<1>7. rpc'[r] = "missing" => d.file_path = NoId
  <2>1. rpc'[r] = "missing" => d.file_path \notin files
    BY <1>1, <1>6
  <2> QED BY <2>1, TablesKnown
<1>8. Answered(r)' /\ Originated(r)'
  BY <1>1, <1>2, <1>5, <1>7 DEF Answered, Originated, Custody
<1> QED BY <1>1, <1>4, <1>8, TurnKeeps

LEMMA AskKeeps ==
  ASSUME WriteInv, ReadersInv, UNCHANGED vars, NEW r \in Reader, Ask(r)
  PROVE  ReaderInv(r)'
<1>1. /\ rpc[r] = "idle" /\ rpc'[r] = "received" /\ query'[r] \in Queries
      /\ before'[r] = {w \in Request : pc[w] = "ok"} /\ UNCHANGED <<shown, todo>>
  BY DEF Ask, Turn, ReadersInv
<1>2. shown[r] = Nothing /\ todo[r] = {} /\ shown'[r] = Nothing /\ todo'[r] = {}
  BY <1>1 DEF ReadersInv, ReaderInv, ShapeInv
<1>3. pc' = pc
  BY SameTablesRead
<1>4. ShapeInv(r)'
  BY <1>1, <1>2, <1>3 DEF ShapeInv, Queries, Nothing, PastCheck
<1>5. CheckInv(r)' /\ Originated(r)' /\ Answered(r)'
  BY <1>1 DEF CheckInv, Originated, Answered, PastCheck
<1>6. ScopeInv(r)' /\ Contiguous(r)'
  BY <1>2 DEF ScopeInv, Contiguous, Nothing
<1> QED BY <1>4, <1>5, <1>6 DEF ReaderInv

-----------------------------------------------------------------------------
(* Steps that show something: what one SELECT returns is of cases the       *)
(* reader is entitled to.                                                   *)
LEMMA ListCasesKeeps ==
  ASSUME WriteInv, ReadersInv, UNCHANGED vars, NEW r \in Reader, ListCases(r)
  PROVE  ReaderInv(r)'
<1> DEFINE seen == {c.id : c \in {c \in cases : Visible(query[r].actor, c.id)}}
<1>1. /\ rpc[r] = "received" /\ rpc'[r] = "ok" /\ query[r].kind = "cases"
      /\ shown'[r] = [cases |-> seen, docs |-> {}, events |-> {}, source |-> "postgres"]
      /\ UNCHANGED <<query, todo, before>>
  BY DEF ListCases, Turn, Show, Nothing, ReadersInv
<1>2. ShapeInv(r) /\ todo[r] = {} /\ pc' = pc /\ assignments' = assignments
  BY <1>1, SameTablesRead DEF ReadersInv, ReaderInv, ShapeInv
<1>3. seen \subseteq Request /\ \A c \in seen : Entitled(r, c)
  BY TablesKnown DEF Visible, Entitled, CaseIds
<1> HIDE DEF seen
<1>4. ShapeInv(r)'
  BY <1>1, <1>2, <1>3 DEF ShapeInv, Queries, PastCheck
<1>5. CheckInv(r)' /\ Originated(r)' /\ Answered(r)'
  BY <1>1 DEF CheckInv, Originated, Answered, DocumentViews, Lists, Custody
<1>6. ScopeInv(r)' /\ Contiguous(r)'
  BY <1>1, <1>2, <1>3 DEF ScopeInv, Contiguous, Entitled
<1> QED BY <1>4, <1>5, <1>6 DEF ReaderInv

(* Documents shown before any of their events.                              *)
LEMMA DocumentsKeep ==
  ASSUME WriteInv, ReadersInv, UNCHANGED vars, NEW r \in Reader,
         NEW docs \in SUBSET documents, \A d \in docs : Entitled(r, d.case_id),
         rpc[r] /= "idle", ShowDocuments(r, docs), CheckInv(r)',
         \/ rpc'[r] = "events" /\ query[r].kind \in Custody
         \/ rpc'[r] = "ok" /\ query[r].kind = "documents"
  PROVE  ReaderInv(r)'
<1> DEFINE seen == {d.id : d \in docs}
<1>1. /\ shown'[r] = [cases |-> {}, docs |-> seen, events |-> {}, source |-> "postgres"]
      /\ todo'[r] = seen /\ UNCHANGED <<query, before>>
  BY DEF ShowDocuments, Show, Nothing, ReadersInv
<1>2. ShapeInv(r) /\ pc' = pc /\ assignments' = assignments /\ documents' = documents
      /\ DocIds' = DocIds
  BY SameTablesRead DEF ReadersInv, ReaderInv
<1>3. seen \subseteq DocIds /\ \A d \in documents : d.id \in seen => d \in docs
  BY TablesKnown DEF KeysInv, DocIds
<1> HIDE DEF seen
<1>4. ShapeInv(r)'
  BY <1>1, <1>2, <1>3 DEF ShapeInv, Queries, PastCheck
<1>5. Originated(r)' /\ Answered(r)'
  BY <1>1 DEF Originated, Answered, Custody
<1>6. ScopeInv(r)' /\ Contiguous(r)'
  BY <1>1, <1>2, <1>3 DEF ScopeInv, Contiguous, Entitled
<1> QED BY <1>4, <1>5, <1>6 DEF ReaderInv

LEMMA ListEvidenceKeeps ==
  ASSUME WriteInv, ReadersInv, UNCHANGED vars, NEW r \in Reader, ListEvidence(r)
  PROVE  ReaderInv(r)'
<1> DEFINE docs == {d \in documents : Visible(query[r].actor, d.case_id)}
<1>1. /\ rpc[r] = "received" /\ rpc'[r] = "events" /\ query[r].kind = "all_evidence"
      /\ ShowDocuments(r, docs)
  BY DEF ListEvidence, Turn, ReadersInv
<1>2. docs \in SUBSET documents /\ \A d \in docs : Entitled(r, d.case_id)
  BY DEF Visible, Entitled
<1> HIDE DEF docs
<1>3. query' = query
  BY <1>1 DEF ShowDocuments
<1>4. CheckInv(r)'
  BY <1>1, <1>3 DEF CheckInv, DocumentViews, Lists
<1> QED BY <1>1, <1>2, <1>4, DocumentsKeep DEF Custody

LEMMA ListDocumentsKeeps ==
  ASSUME WriteInv, ReadersInv, UNCHANGED vars, NEW r \in Reader, ListDocuments(r)
  PROVE  ReaderInv(r)'
<1> DEFINE docs == {d \in documents : d.case_id = Asked(r)}
<1>1. /\ rpc[r] = "allowed" /\ query[r].kind \in {"documents", "case_evidence"}
      /\ rpc'[r] = IF query[r].kind = "documents" THEN "ok" ELSE "events"
      /\ ShowDocuments(r, docs)
  BY DEF ListDocuments, Turn, ReadersInv
<1>2. Entitled(r, Asked(r)) /\ CaseAsked(r)' = Asked(r)' /\ query' = query
      /\ Asked(r)' = Asked(r) /\ assignments' = assignments
  BY <1>1, SameTablesRead DEF ReadersInv, ReaderInv, CheckInv, PastCheck, Lists, CaseAsked, Asked,
     DocumentViews, ShowDocuments
<1>3. docs \in SUBSET documents /\ \A d \in docs : Entitled(r, d.case_id)
  BY <1>2
<1> HIDE DEF docs
<1>4. CheckInv(r)'
  BY <1>1, <1>2 DEF CheckInv, DocumentViews, Lists, Entitled
<1> QED BY <1>1, <1>3, <1>4, DocumentsKeep DEF Custody

LEMMA ReadEventsKeeps ==
  ASSUME WriteInv, ReadersInv, UNCHANGED vars, NEW r \in Reader, ReadEvents(r)
  PROVE  ReaderInv(r)'
<1>1. PICK d \in todo[r] :
        /\ shown' = [shown EXCEPT ![r] = [shown[r] EXCEPT
                       !.events = @ \cup {e \in auditLog : e.document_id = d}]]
        /\ todo' = [todo EXCEPT ![r] = @ \ {d}]
  BY DEF ReadEvents, Show
<1> DEFINE found == {e \in auditLog : e.document_id = d}
<1>2. ReaderInv(r) /\ rpc[r] = "events" /\ UNCHANGED <<rpc, query, before>>
  BY DEF ReadersInv, ReadEvents
<1>3. shown[r] \in [cases : SUBSET Request, docs : SUBSET DocIds, events : SUBSET auditLog,
                    source : {"postgres", "ledger"}]
  BY <1>2 DEF ReaderInv, ShapeInv
<1>4. /\ shown'[r].cases = shown[r].cases /\ shown'[r].docs = shown[r].docs
      /\ shown'[r].source = shown[r].source
      /\ shown'[r].events = shown[r].events \cup found
      /\ shown'[r] \in [cases : SUBSET Request, docs : SUBSET DocIds, events : SUBSET auditLog,
                        source : {"postgres", "ledger"}]
      /\ todo'[r] = todo[r] \ {d}
  BY <1>1, <1>3 DEF ReadersInv
<1>5. /\ pc' = pc /\ documents' = documents /\ auditLog' = auditLog
      /\ assignments' = assignments /\ DocIds' = DocIds
  BY SameTablesRead
<1>6. query[r].kind \in Custody /\ d \in shown[r].docs /\ d \in DocIds
  BY <1>2, <1>3 DEF ReaderInv, ShapeInv
<1>7. PICK x \in documents : x.id = d
  BY <1>6 DEF DocIds
<1>8. ShapeInv(r)'
  BY <1>2, <1>4, <1>5 DEF ReaderInv, ShapeInv, Queries
<1>9. CheckInv(r)'
  <2>1. CheckInv(r) /\ Asked(r)' = Asked(r) /\ CaseAsked(r)' = CaseAsked(r)
    BY <1>2, <1>5 DEF ReaderInv, Asked, CaseAsked
  <2> QED BY <1>2, <1>5, <2>1 DEF CheckInv, Entitled
<1>10. ScopeInv(r)'
  <2>1. ScopeInv(r) /\ \A e \in found : e.case_id = x.case_id
    BY <1>2, <1>7, TablesKnown DEF ReaderInv
  <2>2. Entitled(r, x.case_id)
    BY <1>6, <1>7, <2>1 DEF ScopeInv
  <2>3. \A e \in shown'[r].events : Entitled(r, e.case_id)
    BY <1>4, <2>1, <2>2 DEF ScopeInv
  <2> HIDE DEF found
  <2> QED BY <1>2, <1>4, <1>5, <2>1, <2>3 DEF ScopeInv, Entitled
<1>11. Contiguous(r)'
  <2>1. Contiguous(r) /\ query[r].kind /= "trail"
    BY <1>2, <1>6 DEF ReaderInv, Custody
  <2> QED BY <1>2, <1>4, <1>5, <2>1 DEF Contiguous
<1>12. Originated(r)'
  <2>1. \E e \in found : e.action = "UPLOAD"
    BY <1>7, TablesKnown
  <2>2. \A y \in shown[r].docs \ todo[r] :
          \E e \in shown[r].events : e.document_id = y /\ e.action = "UPLOAD"
    BY <1>2, <1>6 DEF ReaderInv, Originated
  <2> QED BY <1>2, <1>4, <2>1, <2>2 DEF Originated
<1>13. Answered(r)'
  BY <1>2 DEF Answered
<1> QED BY <1>8, <1>9, <1>10, <1>11, <1>12, <1>13 DEF ReaderInv

(* The audit trail of one case, from the ledger or from the mirror.         *)
LEMMA TrailKeeps ==
  ASSUME WriteInv, ReadersInv, UNCHANGED vars, NEW r \in Reader,
         AskLedger(r) \/ ReadMirror(r)
  PROVE  ReaderInv(r)'
<1>1. PICK seen \in SUBSET auditLog, source \in {"postgres", "ledger"} :
        /\ shown'[r] = [cases |-> {}, docs |-> {}, events |-> seen, source |-> source]
        /\ seen = IF source = "ledger" THEN {e \in {row[s] : s \in ledger} : e.case_id = Asked(r)}
                                       ELSE {e \in auditLog : e.case_id = Asked(r)}
  <2>1. CASE AskLedger(r)
    <3>1. shown'[r] = [cases |-> {}, docs |-> {}, source |-> "ledger",
                       events |-> {e \in {row[s] : s \in ledger} : e.case_id = Asked(r)}]
      BY <2>1 DEF AskLedger, Show, Nothing, ReadersInv
    <3>2. {e \in {row[s] : s \in ledger} : e.case_id = Asked(r)} \in SUBSET auditLog
      BY TablesKnown
    <3> QED BY <3>1, <3>2
  <2>2. CASE ReadMirror(r)
    <3>1. shown'[r] = [cases |-> {}, docs |-> {}, source |-> "postgres",
                       events |-> {e \in auditLog : e.case_id = Asked(r)}]
      BY <2>2 DEF ReadMirror, Show, Nothing, ReadersInv
    <3> QED BY <3>1
  <2> QED BY <2>1, <2>2
<1>2. /\ rpc[r] \in {"allowed", "mirror"} /\ rpc'[r] = "ok" /\ UNCHANGED <<query, todo, before>>
      /\ ReaderInv(r)
  BY DEF AskLedger, ReadMirror, Turn, ReadersInv
<1>3. query[r].kind = "trail"
  BY <1>2 DEF AskLedger, ReaderInv, ShapeInv, ReadMirror, Turn
<1>4. /\ pc' = pc /\ row' = row /\ documents' = documents /\ auditLog' = auditLog
      /\ assignments' = assignments /\ alarms' = alarms /\ lost' = lost
  BY SameTablesRead
<1>5. Entitled(r, Asked(r)) /\ CaseAsked(r)' = Asked(r)' /\ Asked(r)' = Asked(r)
  BY <1>2, <1>3 DEF ReaderInv, CheckInv, PastCheck, Lists, CaseAsked, Asked, DocumentViews
<1>6. \A e \in seen : e.case_id = Asked(r)
  BY <1>1
<1>7. ShapeInv(r)'
  BY <1>1, <1>2, <1>3, <1>4 DEF ReaderInv, ShapeInv, Queries, PastCheck
<1>8. CheckInv(r)'
  BY <1>2, <1>3, <1>4, <1>5 DEF CheckInv, DocumentViews, Entitled
<1>9. ScopeInv(r)'
  BY <1>1, <1>2, <1>4, <1>5, <1>6 DEF ScopeInv, Entitled
<1>10. Contiguous(r)'
  BY <1>1, <1>2, <1>3, <1>4 DEF Contiguous
<1>11. Originated(r)'
  BY <1>2, <1>3 DEF Originated, Custody
<1>12. \A w \in before[r] : row[w].case_id = Asked(r) =>
         row[w] \in seen \/ (source = "ledger" /\ w \in alarms \cup lost)
  <2>1. \A w \in before[r] : row[w] \in auditLog /\ w \in ledger \cup lost \cup alarms
    BY <1>2, TablesKnown DEF ReaderInv, ShapeInv
  <2> QED BY <1>1, <2>1
<1>13. Answered(r)'
  <2>1. \A w \in before'[r] :
          row'[w].case_id = Asked(r)' =>
            \/ row'[w] \in shown'[r].events
            \/ (shown'[r].source = "ledger" /\ w \in alarms' \cup lost')
    <3>1. shown'[r].events = seen /\ shown'[r].source = source /\ before' = before /\ Asked(r)' = Asked(r)
      BY <1>1, <1>2, <1>5
    <3> QED BY <1>4, <1>12, <3>1, Zenon
  <2> QED BY <1>2, <2>1 DEF Answered
<1> QED BY <1>7, <1>8, <1>9, <1>10, <1>11, <1>13 DEF ReaderInv

(* assert_case_access: past it the case asked about is one the reader may   *)
(* see, whether named or found by its document.                             *)
LEMMA AuthorizeKeeps ==
  ASSUME WriteInv, ReadersInv, UNCHANGED vars, NEW r \in Reader, Authorize(r)
  PROVE  ReaderInv(r)'
<1>1. ReaderInv(r) /\ UNCHANGED <<query, before>> /\ rpc[r] \in {"received", "found"}
      /\ query[r] \in Queries
  BY DEF Authorize, ReadersInv, ReaderInv, ShapeInv
<1>2. /\ pc' = pc /\ documents' = documents /\ auditLog' = auditLog
      /\ assignments' = assignments /\ DocIds' = DocIds
  BY SameTablesRead
<1>3. Asked(r)' = Asked(r) /\ CaseAsked(r)' = CaseAsked(r)
  BY <1>1, <1>2 DEF Asked, CaseAsked
<1>4. query[r].kind \in DocumentViews => Asked(r) \in DocIds
  BY <1>1 DEF Authorize, ReaderInv, CheckInv, CaseViews, DocumentViews
<1>5. query[r].kind \in CaseViews \cup DocumentViews
  BY DEF Authorize, DocumentViews, CaseViews
<1>6. CASE ~ assert_case_access(query[r].actor, CaseAsked(r))
  <2>1. rpc'[r] = "error" /\ rpc' = [rpc EXCEPT ![r] = rpc'[r]] /\ UNCHANGED <<shown, todo>>
    BY <1>6 DEF Authorize, ReadersInv
  <2>2. CheckInv(r)' /\ Answered(r)' /\ Originated(r)'
    BY <2>1 DEF CheckInv, Answered, Originated, PastCheck
  <2> QED BY <1>1, <2>1, <2>2, TurnKeeps
<1>7. CASE assert_case_access(query[r].actor, CaseAsked(r))
  <2> DEFINE seen == IF query[r].kind = "case" THEN {Asked(r)} ELSE {}
             docs == IF query[r].kind \in DocumentViews THEN {Asked(r)} ELSE {}
             left == IF query[r].kind = "evidence" THEN {Asked(r)} ELSE {}
  <2>1. /\ rpc'[r] = Allowed(r)
        /\ shown'[r] = [cases |-> seen, docs |-> docs, events |-> {}, source |-> "postgres"]
        /\ todo'[r] = left
    BY <1>7 DEF Authorize, Show, Nothing, ReadersInv
  <2>2. Entitled(r, CaseAsked(r))
    BY <1>7 DEF assert_case_access, Entitled
  <2>3. /\ rpc'[r] \in {"ok", "events", "allowed"}
        /\ rpc'[r] = "allowed" => query[r].kind \in {"trail", "documents", "case_evidence", "download"}
        /\ rpc'[r] = "events" => query[r].kind = "evidence"
        /\ rpc'[r] = "ok" => query[r].kind \in {"case", "document"}
        /\ query[r].kind = "evidence" => rpc'[r] = "events"
    BY <1>5, <2>1 DEF Allowed, CaseViews, DocumentViews
  <2>4. seen \subseteq Request /\ docs \subseteq DocIds /\ left \subseteq docs
    BY <1>1, <1>4 DEF Queries, DocumentViews, Asked, CaseViews, Lists
  <2>5. \A c \in seen : Entitled(r, c)
    BY <2>2 DEF CaseAsked, DocumentViews
  <2>6. \A d \in documents : d.id \in docs => Entitled(r, d.case_id)
    <3> SUFFICES ASSUME NEW d \in documents, d.id \in docs PROVE Entitled(r, d.case_id)
      OBVIOUS
    <3>1. query[r].kind \in DocumentViews /\ d.id = Asked(r)
      OBVIOUS
    <3>2. (CHOOSE x \in documents : x.id = d.id) = d
      BY TablesKnown
    <3>3. CaseAsked(r) = d.case_id
      BY <3>1, <3>2 DEF CaseAsked
    <3> QED BY <2>2, <3>3
  <2>7. docs \ left = {} \/ query[r].kind \notin Custody
    BY DEF Custody, DocumentViews
  <2>8. ~(left = {}) => query[r].kind = "evidence"
    OBVIOUS
  <2> HIDE DEF seen, docs, left
  <2>9. ShapeInv(r)'
    BY <1>1, <1>2, <2>1, <2>3, <2>4, <2>8 DEF ReaderInv, ShapeInv, PastCheck, Custody, Queries
  <2>10. CheckInv(r)'
    BY <1>1, <1>2, <1>3, <1>4, <2>2 DEF CheckInv, Entitled
  <2>11. ScopeInv(r)' /\ Contiguous(r)'
    BY <1>1, <1>2, <2>1, <2>5, <2>6 DEF ScopeInv, Contiguous, Entitled
  <2>12. Originated(r)'
    BY <1>1, <2>1, <2>3, <2>7 DEF Originated, Custody
  <2>13. Answered(r)'
    BY <1>1, <2>3 DEF Answered
  <2> QED BY <2>9, <2>10, <2>11, <2>12, <2>13 DEF ReaderInv
<1> QED BY <1>6, <1>7

-----------------------------------------------------------------------------
LEMMA ViewsInit == ASSUME "CREATE_CASE" \in Kind, InitViews PROVE WriteInv /\ ReadersInv
<1>1. WriteInv
  BY OpenedFits DEF InitViews
<1>2. ASSUME NEW r \in Reader PROVE ReaderInv(r)
  <2>1. rpc[r] = "idle" /\ shown[r] = Nothing /\ todo[r] = {} /\ before[r] = {}
    BY DEF InitViews
  <2>2. ShapeInv(r) /\ CheckInv(r)
    BY <2>1 DEF ShapeInv, CheckInv, Nothing, PastCheck
  <2>3. ScopeInv(r) /\ Contiguous(r) /\ Originated(r) /\ Answered(r)
    BY <2>1 DEF ScopeInv, Contiguous, Originated, Answered, Nothing
  <2> QED BY <2>2, <2>3 DEF ReaderInv
<1> QED BY <1>1, <1>2 DEF ReadersInv, InitViews

(* One step of any query.                                                   *)
LEMMA QueryKeeps ==
  ASSUME WriteInv, ReadersInv, UNCHANGED vars, NEW r \in Reader, Query(r)
  PROVE  ReadersInv'
<1>1. ReaderInv(r)'
  BY AskKeeps, FindRowKeeps, AuthorizeKeeps, ListCasesKeeps, ListEvidenceKeeps, ListDocumentsKeeps,
     ReadEventsKeeps, ProjectKeeps, ReadFileKeeps, TrailKeeps, LedgerUnreachableKeeps, GiveUpKeeps
     DEF Query
<1>2. /\ DOMAIN rpc' = Reader /\ DOMAIN query' = Reader /\ DOMAIN shown' = Reader
      /\ DOMAIN todo' = Reader /\ DOMAIN before' = Reader
      /\ \A s \in Reader \ {r} :
           /\ rpc'[s] = rpc[s] /\ query'[s] = query[s] /\ shown'[s] = shown[s]
           /\ todo'[s] = todo[s] /\ before'[s] = before[s]
  BY DEF ReadersInv, Query, Ask, FindRow, Authorize, ListCases, ListEvidence, ListDocuments,
     ShowDocuments, ReadEvents, Project, ReadFile, AskLedger, LedgerUnreachable, ReadMirror,
     GiveUp, Turn, Show
<1>3. \A s \in Reader \ {r} : ReaderInv(s)'
  BY <1>2, OtherReaders DEF ReadersInv
<1> QED BY <1>1, <1>2, <1>3 DEF ReadersInv

LEMMA ViewsNext == WriteInv /\ ReadersInv /\ [Write \/ Read]_allVars => WriteInv' /\ ReadersInv'
<1> SUFFICES ASSUME WriteInv, ReadersInv, [Write \/ Read]_allVars PROVE WriteInv' /\ ReadersInv'
  OBVIOUS
<1>1. [Next]_vars
  BY DEF Write, Read, allVars
<1>2. WriteInv' /\ WritesAdd
  BY <1>1, WriteNext, WritersAdd
<1>3. CASE UNCHANGED views
  <2>1. \A r \in Reader : ReaderInv(r)'
    BY <1>2, <1>3, WriterReaders DEF ReadersInv
  <2> QED BY <1>2, <1>3, <2>1 DEF ReadersInv, views
<1>4. CASE Read
  BY <1>2, <1>4, QueryKeeps DEF Read
<1> QED BY <1>3, <1>4 DEF Write, allVars

LEMMA ReadersHonest ==
  WriteInv /\ ReadersInv =>
    /\ ReaderScoped /\ AnsweredWritesShown /\ NothingSkipped
    /\ CustodyHasOrigin /\ DownloadServesFile
<1> SUFFICES ASSUME WriteInv, ReadersInv
             PROVE  /\ ReaderScoped /\ AnsweredWritesShown /\ NothingSkipped
                    /\ CustodyHasOrigin /\ DownloadServesFile
  OBVIOUS
<1>1. \A r \in Reader : ScopeInv(r) /\ Contiguous(r) /\ Originated(r) /\ Answered(r)
  BY DEF ReadersInv, ReaderInv
<1>2. ReaderScoped
  BY <1>1 DEF ReaderScoped, Shown, ScopeInv, Entitled
<1>3. AnsweredWritesShown
  BY <1>1 DEF AnsweredWritesShown, Shown, Answered
<1>4. NothingSkipped
  BY <1>1 DEF NothingSkipped, Shown, Contiguous, Nothing
<1>5. CustodyHasOrigin
  BY <1>1 DEF CustodyHasOrigin, Shown, Originated, Custody, Nothing
<1>6. DownloadServesFile
  BY <1>1 DEF DownloadServesFile, Answered
<1> QED BY <1>2, <1>3, <1>4, <1>5, <1>6

LEMMA ViewsHold ==
  ASSUME "CREATE_CASE" \in Kind
  PROVE  ViewsSpec => [](/\ ReaderScoped /\ AnsweredWritesShown /\ NothingSkipped
                         /\ CustodyHasOrigin /\ DownloadServesFile)
<1>1. InitViews => WriteInv /\ ReadersInv
  BY ViewsInit
<1>2. WriteInv /\ ReadersInv /\ [Write \/ Read]_allVars => WriteInv' /\ ReadersInv'
  BY ViewsNext
<1> QED BY <1>1, <1>2, ReadersHonest, PTL DEF ViewsSpec

(* What the GET endpoints answer, whatever writers commit between the       *)
(* SELECTs of one query.  Opened makes a create_case call, so Kind must     *)
(* hold it; with fewer kinds there are only fewer behaviours.               *)

(* list_cases, get_case, list_documents, list_evidence, audit_trail: an     *)
(* investigator is shown assigned cases only.                               *)
THEOREM ReadsScoped == ASSUME "CREATE_CASE" \in Kind PROVE ViewsSpec => []ReaderScoped
BY ViewsHold, PTL

(* audit_trail: a write answered before the trail was asked for is in it.   *)
(* Where the ledger answers, and not the mirror, two kinds of writes may be *)
(* missing: those logged as a ledger gap, and those the mock ledger had and *)
(* lost in a restart.                                                       *)
THEOREM ReadYourWrites == ASSUME "CREATE_CASE" \in Kind PROVE ViewsSpec => []AnsweredWritesShown
BY ViewsHold, PTL

(* No history read from Postgres has a hole: commits are in seq order.      *)
THEOREM ReadsGapless == ASSUME "CREATE_CASE" \in Kind PROVE ViewsSpec => []NothingSkipped
BY ViewsHold, PTL

(* The custody of an exhibit starts with its upload, though list_evidence   *)
(* reads the row and the events by different statements.                    *)
THEOREM CustodyComplete == ASSUME "CREATE_CASE" \in Kind PROVE ViewsSpec => []CustodyHasOrigin
BY ViewsHold, PTL

(* download_document answers 404 for no file that was ever stored.          *)
THEOREM FilesServed == ASSUME "CREATE_CASE" \in Kind PROVE ViewsSpec => []DownloadServesFile
BY ViewsHold, PTL
==============================================================================
