------------------------------ MODULE AuditTrail ------------------------------
(***************************************************************************)
(* The write path of the Axum backend: the five mutating handlers          *)
(* (create_case, assign_user, upload_document, create_evidence,            *)
(* transfer_custody), the Postgres transaction each of them runs, the hash *)
(* chain every one of them extends through audit::append_entry, the files  *)
(* on disk, and the best-effort append to the ledger service after commit, *)
(* which in mock mode may later lose what it had taken (LedgerStore has    *)
(* that service in detail).                                                *)
(*                                                                         *)
(* A Request is one HTTP call.  Its identity doubles as every fresh UUID   *)
(* the handler draws (Uuid::new_v4 never repeats), so a case is named by   *)
(* the request that created it, and so is a document.  Each step of a      *)
(* request is what the handler does between two await points.              *)
(***************************************************************************)
EXTENDS Integers, FiniteSets, Sequences

CONSTANTS
  Request,         \* the HTTP calls of a behaviour
  Kind,            \* the endpoints these calls use, a subset of Mutations
  User,            \* registered users (never deleted)
  Role,            \* [User -> role]: the role in the caller's JWT
  CaseNumber,      \* human-facing case numbers, UNIQUE in table cases
  Time,            \* what the host clock can return, in its own ticks
  TicksPerMicro,   \* clock ticks in one microsecond (the TIMESTAMPTZ unit)
  MaxConnections,  \* size of the sqlx pool
  LedgerMode,      \* LEDGER_MODE of the ledger service: "mock" or "fabric"
  NoId             \* SQL NULL, and an id that names nothing

Mutations == {"CREATE_CASE", "ASSIGN_USER", "UPLOAD", "EVIDENCE", "TRANSFER"}

ASSUME KindAssumption == Kind \subseteq Mutations
ASSUME RoleAssumption == Role \in [User -> {"investigator", "supervisor", "admin"}]
ASSUME TimeAssumption == Time \subseteq Nat /\ TicksPerMicro \in Nat \ {0}
ASSUME ModeAssumption == LedgerMode \in {"mock", "fabric"}
ASSUME PoolAssumption == MaxConnections \in Nat \ {0}
ASSUME NoIdAssumption == NoId \notin Request /\ NoId \notin User

VARIABLES
  pc,           \* where each request's handler stands
  op,           \* what each request asks for
  prev,         \* the last hash the request's transaction read
  row,          \* the audit row its transaction inserted and has not committed
  cases,        \* committed rows of table cases
  assignments,  \* committed rows of table case_assignments
  documents,    \* committed rows of table documents
  auditLog,     \* committed rows of table audit_log
  lastSeq,      \* the BIGSERIAL sequence behind audit_log.seq
  files,        \* files present under DOCUMENTS_DIR
  inFlight,     \* ledger POSTs sent and not yet handled
  ledger,       \* requests whose entry the ledger service holds
  ledgerFile,   \* those in the mock ledger's persistence file
  lost,         \* history: those a restart of the mock ledger has ever dropped
  alarms        \* requests whose ledger gap was written to the error log

db == <<cases, assignments, documents, auditLog>>
store == <<ledger, ledgerFile, lost>>
service == <<inFlight, store, alarms>>
tx == <<prev, row, lastSeq>>
vars == <<pc, op, tx, db, files, service>>

-----------------------------------------------------------------------------
(* Requests, their rows and the transaction they are in. *)

Ops ==
  {o \in [kind : {"CREATE_CASE"}, actor : User, on : CaseNumber, user : {NoId}]
           \cup [kind : {"ASSIGN_USER"}, actor : User, on : Request, user : User \cup {NoId}]
           \cup [kind : {"UPLOAD", "EVIDENCE", "TRANSFER"}, actor : User, on : Request,
                 user : {NoId}] :
     o.kind \in Kind}

NoOp == [kind |-> "none", actor |-> NoId, on |-> NoId, user |-> NoId]

Inserted == {"staged", "locked", "read", "logged"}  \* its domain rows are in
InTx == {"begun"} \cup Inserted                   \* holds a pool connection
HoldsLockTooShort == {"locked", "read"}           \* mutant: unlock before COMMIT
HoldsLockForever == HoldsLockTooShort \cup {"logged", "committed", "posted", "reading",
                                            "ok", "error", "dropped"}  \* mutant: session lock
HoldsLock == {"locked", "read", "logged"}         \* holds the advisory lock
Final == {"ok", "error", "dropped"}

FreeConnection == Cardinality({s \in Request : pc[s] \in InTx}) < MaxConnections

(* The document a request creates, and the case its rows belong to. *)
DocumentOf(r) == CHOOSE d \in documents : d.id = op[r].on
CaseOf(r) == CASE op[r].kind = "CREATE_CASE" -> r
               [] op[r].kind = "TRANSFER" -> DocumentOf(r).case_id
               [] OTHER -> op[r].on
DocOf(r) == CASE op[r].kind \in {"UPLOAD", "EVIDENCE"} -> r
              [] op[r].kind = "TRANSFER" -> op[r].on
              [] OTHER -> NoId
ActionOfKind(r) == op[r].kind             \* mutant: EVIDENCE is no custody action
ActionOf(r) == IF op[r].kind = "EVIDENCE" THEN "UPLOAD" ELSE op[r].kind

(* The domain rows a transaction inserts, next to its audit row. *)
NewCases(r) ==
  IF op[r].kind = "CREATE_CASE" THEN {[id |-> r, number |-> op[r].on]} ELSE {}
NewAssignments(r) ==
  CASE op[r].kind = "CREATE_CASE" -> {<<r, op[r].actor>>}
    [] op[r].kind = "ASSIGN_USER" -> {<<op[r].on, op[r].user>>}
    [] OTHER -> {}
NewDocuments(r) ==
  CASE op[r].kind = "UPLOAD" -> {[id |-> r, case_id |-> op[r].on, file_path |-> r]}
    [] op[r].kind = "EVIDENCE" -> {[id |-> r, case_id |-> op[r].on, file_path |-> NoId]}
    [] OTHER -> {}

(* A transaction inserting a key another open transaction has inserted      *)
(* waits on the unique index until that one ends.                           *)
Conflicts(r, s) ==
  \/ /\ op[r].kind = "CREATE_CASE" /\ op[s].kind = "CREATE_CASE"
     /\ op[r].on = op[s].on
  \/ NewAssignments(r) \cap NewAssignments(s) /= {}
WaitsNever(r) == FALSE                            \* mutant: no UNIQUE constraint
Waits(r) == \E s \in Request \ {r} : pc[s] \in Inserted /\ Conflicts(r, s)

-----------------------------------------------------------------------------
(* The hash chain.  sha256 is taken to be injective on the string hashed,  *)
(* the plain concatenation of the fields: an absent id leaves nothing in   *)
(* it, so the two ids are hashed as the sequence of those present.         *)

Present(id) == IF id = NoId THEN <<>> ELSE <<id>>
Genesis == [zeros |-> 64]

HashWithoutTime(prev_hash, actor_id, action, document_id, case_id, created_at) ==
  [prev |-> prev_hash, actor |-> actor_id, action |-> action,   \* mutant: no created_at
   ids |-> Present(document_id) \o Present(case_id), at |-> 0]
compute_entry_hash(prev_hash, actor_id, action, document_id, case_id, created_at) ==
  [prev |-> prev_hash, actor |-> actor_id, action |-> action,
   ids |-> Present(document_id) \o Present(case_id), at |-> created_at]

(* TIMESTAMPTZ keeps whole microseconds, whatever the clock returned. *)
StoredNextMicro(t) == t + 1                       \* mutant: rounds up, the hash does not
Stored(t) == t - (t % TicksPerMicro)

(* SELECT entry_hash ... ORDER BY seq DESC LIMIT 1, or the genesis hash. *)
LastHash(rows) ==
  IF rows = {} THEN Genesis
  ELSE (CHOOSE p \in rows : \A q \in rows : q.seq <= p.seq).entry_hash

Before(rows, n) == {p \in rows : p.seq < n}

AuditRow(r, t) ==
  [seq |-> lastSeq + 1, prev_hash |-> prev[r],
   entry_hash |-> compute_entry_hash(prev[r], op[r].actor, ActionOf(r), DocOf(r), CaseOf(r), t),
   actor_id |-> op[r].actor, action |-> ActionOf(r),
   document_id |-> DocOf(r), case_id |-> CaseOf(r), created_at |-> Stored(t)]

NoRow == [seq |-> 0]

(* verify_postgres_chain: the walk in seq order stops at the first row that *)
(* does not link to the one before it or does not hash to its entry_hash.   *)
HashOf(e) == compute_entry_hash(e.prev_hash, e.actor_id, e.action, e.document_id, e.case_id,
                                e.created_at)
Broken(rows, e) == e.prev_hash /= LastHash(Before(rows, e.seq)) \/ e.entry_hash /= HashOf(e)
BrokenRows(rows) == {e \in rows : Broken(rows, e)}

First(seqs) ==
  LET Least(n) == \A m \in seqs : n <= m
  IN IF \E n \in seqs : Least(n) THEN CHOOSE n \in seqs : Least(n) ELSE NoId
verify_postgres_chain(rows) ==
  [valid |-> BrokenRows(rows) = {},
   total_entries |-> Cardinality(rows),
   broken_at_seq |-> First({e.seq : e \in BrokenRows(rows)})]

-----------------------------------------------------------------------------
Init ==
  /\ pc = [r \in Request |-> "idle"]
  /\ op = [r \in Request |-> NoOp]
  /\ prev = [r \in Request |-> Genesis]
  /\ row = [r \in Request |-> NoRow]
  /\ cases = {} /\ assignments = {} /\ documents = {} /\ auditLog = {}
  /\ lastSeq = 0
  /\ files = {}
  /\ inFlight = {} /\ alarms = {}
  /\ ledger = {} /\ ledgerFile = {} /\ lost = {}

Goto(r, to) == pc' = [pc EXCEPT ![r] = to]
Step(r, from, to) == pc[r] = from /\ Goto(r, to)

(* Admission: the extractor gives the JWT's role; require_role gates the two *)
(* supervisor endpoints before anything is read.                             *)
Receive(r) ==
  /\ pc[r] = "idle"
  /\ \E o \in Ops :
       /\ op' = [op EXCEPT ![r] = o]
       /\ Goto(r, IF o.kind \in {"CREATE_CASE", "ASSIGN_USER"} /\ Role[o.actor] = "investigator"
                  THEN "error"
                  ELSE IF o.kind = "CREATE_CASE" THEN "authorized" ELSE "received")
  /\ UNCHANGED <<tx, db, files, service>>

(* assign_user looks the case up before it opens its transaction. *)
CheckCaseExists(r) ==
  /\ op[r].kind = "ASSIGN_USER" /\ pc[r] = "received"
  /\ FreeConnection
  /\ Goto(r, IF \E c \in cases : c.id = op[r].on THEN "authorized" ELSE "error")
  /\ UNCHANGED <<op, tx, db, files, service>>

(* transfer_custody reads the document row first: 404 when there is none. *)
FetchDocument(r) ==
  /\ op[r].kind = "TRANSFER" /\ pc[r] = "received"
  /\ FreeConnection
  /\ Goto(r, IF \E d \in documents : d.id = op[r].on THEN "fetched" ELSE "error")
  /\ UNCHANGED <<op, tx, db, files, service>>

(* Supervisors and admins see every case, existing or not; an investigator *)
(* only a case with an assignment row.                                     *)
AccessToAnyCase(u, c) == TRUE                     \* mutant: no assignment lookup
assert_case_access(u, c) == Role[u] /= "investigator" \/ <<c, u>> \in assignments

CheckAccess(r) ==
  /\ \/ op[r].kind \in {"UPLOAD", "EVIDENCE"} /\ pc[r] = "received"
     \/ op[r].kind = "TRANSFER" /\ pc[r] = "fetched"
  /\ FreeConnection \/ Role[op[r].actor] /= "investigator"
  /\ Goto(r, IF assert_case_access(op[r].actor, CaseOf(r)) THEN "authorized" ELSE "error")
  /\ UNCHANGED <<op, tx, db, files, service>>

(* The file is written before the transaction opens. *)
WriteFileLater(r) ==                              \* mutant: file left for after commit
  /\ op[r].kind = "UPLOAD" /\ Step(r, "authorized", "stored")
  /\ UNCHANGED <<op, tx, db, files, service>>

WriteFile(r) ==
  /\ op[r].kind = "UPLOAD" /\ Step(r, "authorized", "stored")
  /\ files' = files \cup {r}
  /\ UNCHANGED <<op, tx, db, service>>

(* BEGIN takes a connection from the pool, which the transaction keeps     *)
(* whatever it waits for.                                                  *)
Begin(r) ==
  /\ Step(r, IF op[r].kind = "UPLOAD" THEN "stored" ELSE "authorized", "begun")
  /\ FreeConnection
  /\ UNCHANGED <<op, tx, db, files, service>>

(* The domain inserts: a unique or foreign-key violation answers 400 or    *)
(* 500 and rolls back; a key held by an open transaction waits.            *)
ViolatesUniqueOnly(r) ==                          \* mutant: no foreign key on case_id
  \/ op[r].kind = "CREATE_CASE" /\ \E c \in cases : c.number = op[r].on
  \/ op[r].kind = "ASSIGN_USER" /\ (NewAssignments(r) \subseteq assignments \/ op[r].user = NoId)
Violates(r) ==
  \/ op[r].kind = "CREATE_CASE" /\ \E c \in cases : c.number = op[r].on
  \/ op[r].kind = "ASSIGN_USER" /\ (NewAssignments(r) \subseteq assignments \/ op[r].user = NoId)
  \/ op[r].kind \in {"UPLOAD", "EVIDENCE"} /\ \A c \in cases : c.id /= op[r].on

StageRows(r) ==
  /\ Step(r, "begun", IF Violates(r) THEN "error" ELSE "staged")
  /\ ~Waits(r)
  /\ UNCHANGED <<op, tx, db, files, service>>

(* append_entry, statement by statement. *)
LockChainUnguarded(r) ==                          \* mutant: no advisory lock
  /\ Step(r, "staged", "locked")
  /\ UNCHANGED <<op, tx, db, files, service>>

LockChain(r) ==
  /\ Step(r, "staged", "locked")
  /\ \A s \in Request : pc[s] \notin HoldsLock
  /\ UNCHANGED <<op, tx, db, files, service>>

ReadLastHash(r) ==
  /\ Step(r, "locked", "read")
  /\ prev' = [prev EXCEPT ![r] = LastHash(auditLog)]
  /\ UNCHANGED <<op, row, lastSeq, db, files, service>>

InsertAuditRow(r) ==
  /\ Step(r, "read", "logged")
  /\ \E t \in Time : row' = [row EXCEPT ![r] = AuditRow(r, t)]
  /\ lastSeq' = lastSeq + 1
  /\ UNCHANGED <<op, prev, db, files, service>>

(* The commit makes all of the transaction's rows visible at once and then *)
(* releases the lock and the connection.                                   *)
MakeVisible(r) ==
  /\ cases' = cases \cup NewCases(r)
  /\ assignments' = assignments \cup NewAssignments(r)
  /\ documents' = documents \cup NewDocuments(r)
  /\ auditLog' = auditLog \cup {row[r]}

Commit(r) ==
  /\ Step(r, "logged", "committed")
  /\ MakeVisible(r)
  /\ UNCHANGED <<op, tx, files, service>>

(* The connection is lost while COMMIT is in flight: the handler returns an *)
(* error (or is dropped) before the ledger call, yet Postgres did commit.  *)
CommitAnswerLost(r) ==
  /\ pc[r] = "logged"
  /\ \E to \in {"error", "dropped"} : Goto(r, to)
  /\ MakeVisible(r)
  /\ UNCHANGED <<op, tx, files, service>>

(* append_ledger_entry: one POST with a five-second timeout. *)
PostToLedgerFirst(r) ==                           \* mutant: ledger before COMMIT
  /\ Step(r, "logged", "posted")
  /\ inFlight' = inFlight \cup {r}
  /\ UNCHANGED <<op, tx, db, files, store, alarms>>

PostToLedger(r) ==
  /\ Step(r, "committed", "posted")
  /\ inFlight' = inFlight \cup {r}
  /\ UNCHANGED <<op, tx, db, files, store, alarms>>

(* What the handler does after the ledger call returns: the evidence       *)
(* handlers read the row and its custody events back before they answer.   *)
AfterLedger(r) == IF op[r].kind \in {"EVIDENCE", "TRANSFER"} THEN "reading" ELSE "ok"

(* The entries the service has taken, also those it no longer has.         *)
Accepted == ledger \cup lost

LedgerAnswers(r) ==
  /\ Step(r, "posted", AfterLedger(r))
  /\ r \in Accepted
  /\ UNCHANGED <<op, tx, db, files, service>>

(* Unreachable, rejected, or five seconds without an answer, whatever      *)
(* became of the POST: the gap is logged and the request still succeeds.   *)
LedgerCallFailsSilently(r) ==                     \* mutant: error swallowed
  /\ Step(r, "posted", AfterLedger(r))
  /\ UNCHANGED <<op, tx, db, files, service>>

LedgerCallFails(r) ==
  /\ Step(r, "posted", AfterLedger(r))
  /\ alarms' = alarms \cup {r}
  /\ UNCHANGED <<op, tx, db, files, inFlight, store>>

ReadBack(r) ==
  /\ Step(r, "reading", "ok")
  /\ FreeConnection
  /\ UNCHANGED <<op, tx, db, files, service>>

(* The ledger service handles a POST, in any order and however late, or    *)
(* never sees it.  In mock mode the entry goes to memory and, unless the   *)
(* save fails, with all the others to the file.                            *)
LedgerAppends(r) ==
  /\ r \in inFlight
  /\ inFlight' = inFlight \ {r}
  /\ ledger' = ledger \cup {r}
  /\ ledgerFile' \in IF LedgerMode = "mock" THEN {ledgerFile, ledger'} ELSE {ledgerFile}
  /\ UNCHANGED <<pc, op, tx, db, files, lost, alarms>>

PostLost(r) ==
  /\ r \in inFlight
  /\ inFlight' = inFlight \ {r}
  /\ UNCHANGED <<pc, op, tx, db, files, store, alarms>>

(* The mock service dies and boots again, with what its file holds or,     *)
(* when that is not there or cannot be read, with nothing.  In fabric mode *)
(* the entries are on the channel and survive.                             *)
FileLoads == IF LedgerMode = "mock" THEN BOOLEAN ELSE {}

LedgerRestarts(loaded) ==
  /\ ledger' = IF loaded THEN ledgerFile ELSE {}
  /\ lost' = lost \cup (ledger \ ledger')
  /\ UNCHANGED <<pc, op, tx, db, files, inFlight, ledgerFile, alarms>>

(* Any statement, file write or pool wait may fail: the handler's `?`      *)
(* returns the error and drops the transaction, which rolls back.  The     *)
(* sequence value and the file stay used.                                  *)
Fallible == {"received", "fetched", "authorized", "stored", "reading"} \cup InTx

Fail(r) ==
  /\ pc[r] \in Fallible
  /\ Goto(r, "error")
  /\ UNCHANGED <<op, tx, db, files, service>>

(* The client goes away and axum drops the handler's future at an await. *)
Disconnect(r) ==
  /\ pc[r] \notin Final \cup {"idle"}
  /\ Goto(r, "dropped")
  /\ UNCHANGED <<op, tx, db, files, service>>

(* The backend process dies: every open transaction rolls back. *)
Crash ==
  /\ \E r \in Request : pc[r] \notin Final \cup {"idle"}
  /\ pc' = [r \in Request |-> IF pc[r] \in Final \cup {"idle"} THEN pc[r] ELSE "dropped"]
  /\ UNCHANGED <<op, tx, db, files, service>>

Handle(r) ==
  \/ CheckCaseExists(r) \/ FetchDocument(r) \/ CheckAccess(r)
  \/ WriteFile(r) \/ Begin(r) \/ StageRows(r)
  \/ LockChain(r) \/ ReadLastHash(r) \/ InsertAuditRow(r)
  \/ Commit(r) \/ PostToLedger(r) \/ LedgerAnswers(r) \/ LedgerCallFails(r) \/ ReadBack(r)

Next ==
  \/ \E r \in Request :
       \/ Receive(r) \/ Handle(r)
       \/ CommitAnswerLost(r) \/ Fail(r) \/ Disconnect(r)
       \/ LedgerAppends(r) \/ PostLost(r)
  \/ Crash
  \/ \E loaded \in FileLoads : LedgerRestarts(loaded)

Spec == Init /\ [][Next]_vars

(* tokio polls every handler whose await is ready, Postgres grants its     *)
(* locks to waiting transactions, and the five-second timeout fires.       *)
Fairness == \A r \in Request : WF_vars(Handle(r))
FairSpec == Spec /\ Fairness

-----------------------------------------------------------------------------
Digests(rows) == {Genesis} \cup {e.entry_hash : e \in rows}
PCs == {"idle", "received", "fetched", "authorized", "stored", "committed",
        "posted", "reading"} \cup InTx \cup Final

(* Every variable holds a value of its kind; hashes stay unconstrained. *)
TypeOK ==
  /\ pc \in [Request -> PCs]
  /\ op \in [Request -> Ops \cup {NoOp}]
  /\ DOMAIN prev = Request /\ DOMAIN row = Request
  /\ cases \subseteq [id : Request, number : CaseNumber]
  /\ assignments \subseteq Request \X User
  /\ documents \subseteq [id : Request, case_id : Request, file_path : Request \cup {NoId}]
  /\ lastSeq \in Nat
  /\ \A e \in auditLog : e.seq \in 1..lastSeq
  /\ files \subseteq Request /\ inFlight \subseteq Request
  /\ ledger \subseteq Request /\ ledgerFile \subseteq Request /\ lost \subseteq Request
  /\ alarms \subseteq Request

(* audit_log is one chain: in seq order every committed row carries the    *)
(* hash of the row before it, the first one the genesis hash, however the  *)
(* transactions of concurrent handlers interleave, fail or roll back.      *)
ChainLinked == \A e \in auditLog : e.prev_hash = LastHash(Before(auditLog, e.seq))

(* Rows never change or vanish, and a row that becomes visible comes after *)
(* every row visible before: a reader that has walked the chain up to some *)
(* seq has missed nothing, although BIGSERIAL values are handed out before *)
(* the commit.                                                             *)
CommitsInSeqOrder ==
  [][/\ auditLog \subseteq auditLog'
     /\ \A e \in auditLog' \ auditLog, p \in auditLog : p.seq < e.seq]_vars

(* The write and its audit row land together: every case, assignment and   *)
(* document has exactly the audit rows its handlers write, and no audit    *)
(* row stands for a write that was rolled back.                            *)
RowsOf(action, c) == {e \in auditLog : e.action = action /\ e.case_id = c}
AuditMatchesData ==
  /\ \A c \in cases :
       /\ Cardinality(RowsOf("CREATE_CASE", c.id)) = 1
       /\ Cardinality({a \in assignments : a[1] = c.id})
            = 1 + Cardinality(RowsOf("ASSIGN_USER", c.id))
       /\ {d.id : d \in {d \in documents : d.case_id = c.id}}
            = {e.document_id : e \in RowsOf("UPLOAD", c.id)}
       /\ Cardinality({d \in documents : d.case_id = c.id})
            = Cardinality(RowsOf("UPLOAD", c.id))
  /\ \A e \in auditLog : \E c \in cases : c.id = e.case_id

(* The chain's order respects what depends on what: nothing happens to a   *)
(* case before the row that creates it, nor to a document before its       *)
(* UPLOAD row.                                                             *)
ChainCausal ==
  \A e \in auditLog :
    /\ e.action /= "CREATE_CASE" =>
         \E p \in RowsOf("CREATE_CASE", e.case_id) : p.seq < e.seq
    /\ e.action = "TRANSFER" =>
         \E p \in RowsOf("UPLOAD", e.case_id) : p.document_id = e.document_id /\ p.seq < e.seq

(* An investigator's row is only ever about a case the investigator was    *)
(* assigned to: the check precedes the transaction, and assignments are    *)
(* never taken back.                                                       *)
InvestigatorScoped ==
  \A e \in auditLog :
    Role[e.actor_id] = "investigator" => <<e.case_id, e.actor_id>> \in assignments

(* case_number stays unique under concurrent create_case calls. *)
CaseNumbersUnique == \A c, d \in cases : c.number = d.number => c = d

(* Postgres first, ledger second: no ledger entry, on its way, held or     *)
(* lost again, without its committed audit row.                            *)
LedgerBacked == \A r \in Accepted \cup ledgerFile \cup inFlight : row[r] \in auditLog

(* A caller told 200 has its event in the chain, and either the ledger has *)
(* taken it or the error log has the gap.  What the mock ledger has taken  *)
(* it may lose again: that is in neither.                                  *)
AnsweredMeansRecorded ==
  \A r \in Request :
    pc[r] = "ok" => row[r] \in auditLog /\ r \in Accepted \cup alarms

(* verify-chain is documented to accept the chain nobody touched.          *)
UntouchedChainVerifies == verify_postgres_chain(auditLog).valid

(* What it really says of that chain, on any clock: the links always hold, *)
(* and it stops at the first row whose clock reading was not whole         *)
(* microseconds, if there is one.                                          *)
Rounded(e) == e.entry_hash.at % TicksPerMicro /= 0
RoundedSeqs(rows) == {e.seq : e \in {e \in rows : Rounded(e)}}
OnlyRoundingAccused ==
  LET v == verify_postgres_chain(auditLog)
  IN /\ v.valid <=> RoundedSeqs(auditLog) = {}
     /\ v.broken_at_seq = First(RoundedSeqs(auditLog))

(* One field of a stored row changed: one that is hashed, or a hash.  What *)
(* the column can hold of a time is whole microseconds.  Only seq is left  *)
(* out: it is not hashed, and a new one that keeps the order changes       *)
(* nothing the walk looks at.                                              *)
FieldEdits(e) ==
  {[e EXCEPT !.actor_id = u] : u \in User \ {e.actor_id}}
    \cup {[e EXCEPT !.action = a] : a \in Mutations \ {e.action}}
    \cup {[e EXCEPT !.document_id = d] : d \in (Request \cup {NoId}) \ {e.document_id}}
    \cup {[e EXCEPT !.case_id = c] : c \in (Request \cup {NoId}) \ {e.case_id}}
    \cup {[e EXCEPT !.created_at = t] :
             t \in ({Stored(t) : t \in Time} \cup {e.created_at + TicksPerMicro}) \ {e.created_at}}
HashEdits(e) ==
  {[e EXCEPT !.prev_hash = h] : h \in Digests(auditLog) \ {e.prev_hash}}
    \cup {[e EXCEPT !.entry_hash = h] : h \in Digests(auditLog) \ {e.entry_hash}}
Resealed(f) == [f EXCEPT !.entry_hash = HashOf(f)]

(* Tampering is found where it was done.  A row with one field changed is  *)
(* reported at its seq.  One whose hash was computed anew, or a row that   *)
(* was removed, is reported at the row after it, which links to the old    *)
(* hash: only the last row can be replaced or dropped unseen.  A rounded   *)
(* row in front (OnlyRoundingAccused) is reported first.                   *)
TamperLocated ==
  \A e \in auditLog :
    LET others == auditLog \ {e}
        Report(rows) == verify_postgres_chain(rows).broken_at_seq
        after == {n.seq : n \in {n \in others : n.seq > e.seq}}
        rounded == RoundedSeqs(others)
    IN /\ \A f \in FieldEdits(e) \cup HashEdits(e) :
            Report(others \cup {f}) = First({e.seq} \cup rounded)
       /\ \A f \in FieldEdits(e) : Report(others \cup {Resealed(f)}) = First(after \cup rounded)
       /\ Report(others) = First(after \cup rounded)

(* Every call that reaches a handler is answered or dropped: no two        *)
(* handlers wait for each other, over unique indexes, the advisory lock    *)
(* and the connection pool together.                                       *)
EveryCallEnds == \A r \in Request : pc[r] /= "idle" ~> pc[r] \in Final

(* The chain is an append-only hash chain in the sense of module HashChain. *)
Chain == INSTANCE HashChain WITH entries <- auditLog, head <- LastHash(auditLog)
ChainSpec == Chain!Spec

(* ARCHITECTURE.md and DESIGN.md: a committed write without its ledger     *)
(* entry does not go unnoticed.                                            *)
NoSilentGap ==
  \A r \in Request :
    pc[r] \in Final /\ row[r] \in auditLog /\ r \notin inFlight => r \in Accepted \cup alarms
=============================================================================
