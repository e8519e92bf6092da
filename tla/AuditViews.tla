------------------------------ MODULE AuditViews -------------------------------
(***************************************************************************)
(* The read side of the backend over the write path of AuditTrail: the     *)
(* case, document, evidence and audit-trail queries.  No query runs in a   *)
(* transaction: it is a row of SELECTs (and a call to the ledger) with     *)
(* writers committing in between.                                          *)
(*                                                                         *)
(* A Reader is one GET request.  What it shows is kept as sets: cases and  *)
(* documents by id, events as rows of audit_log, a ledger entry standing   *)
(* for the row it mirrors.                                                 *)
(***************************************************************************)
EXTENDS AuditTrail

CONSTANTS
  Reader,   \* the GET requests of a behaviour
  View,     \* which endpoints they use, a subset of Views
  Opening   \* the create_case call answered before a behaviour starts

CaseViews == {"case", "trail", "documents", "case_evidence"}
DocumentViews == {"document", "evidence", "download"}
Lists == {"cases", "all_evidence"}
Views == CaseViews \cup DocumentViews \cup Lists

ASSUME ViewAssumption == View \subseteq Views
ASSUME OpeningAssumption == Opening \in Request

VARIABLES
  rpc,     \* where each query stands
  query,   \* what it asks for: kind, actor, the case or document
  shown,   \* what it has read to show: cases, docs, events, and its source
  todo,    \* documents whose custody events it has still to read
  before   \* the writes whose callers had their answer when it arrived

views == <<rpc, query, shown, todo, before>>
allVars == <<vars, views>>

-----------------------------------------------------------------------------
Queries ==
  {q \in [kind : CaseViews \cup DocumentViews, actor : User, on : Request]
           \cup [kind : Lists, actor : User, on : {NoId}] : q.kind \in View}

NoQuery == [kind |-> "none", actor |-> NoId, on |-> NoId]
Nothing == [cases |-> {}, docs |-> {}, events |-> {}, source |-> "postgres"]

Turn(r, from, to) == rpc[r] = from /\ rpc' = [rpc EXCEPT ![r] = to]
Show(r, what) == shown' = [shown EXCEPT ![r] = what]
Asked(r) == query[r].on

(* The case a query is about: the one it names or its document's. *)
CaseAsked(r) ==
  IF query[r].kind \in DocumentViews
  THEN (CHOOSE d \in documents : d.id = Asked(r)).case_id ELSE Asked(r)

(* The behaviours start in a state of AuditTrail, that of a case opened,   *)
(* its ledger call a logged gap, and nothing else done: there is nothing   *)
(* to read before it.                                                      *)
Opened ==
  \E u \in User, n \in CaseNumber, t \in Time :
    LET call == [kind |-> "CREATE_CASE", actor |-> u, on |-> n, user |-> NoId]
        entry == [seq |-> 1, prev_hash |-> Genesis,
                  entry_hash |-> compute_entry_hash(Genesis, u, "CREATE_CASE", NoId, Opening, t),
                  actor_id |-> u, action |-> "CREATE_CASE",
                  document_id |-> NoId, case_id |-> Opening, created_at |-> Stored(t)]
    IN /\ Role[u] /= "investigator"
       /\ pc = [r \in Request |-> IF r = Opening THEN "ok" ELSE "idle"]
       /\ op = [r \in Request |-> IF r = Opening THEN call ELSE NoOp]
       /\ prev = [r \in Request |-> Genesis]
       /\ row = [r \in Request |-> IF r = Opening THEN entry ELSE NoRow]
       /\ cases = {[id |-> Opening, number |-> n]} /\ assignments = {<<Opening, u>>}
       /\ documents = {} /\ auditLog = {entry} /\ lastSeq = 1
       /\ files = {} /\ inFlight = {} /\ alarms = {Opening}
       /\ ledger = {} /\ ledgerFile = {} /\ lost = {}

InitViews ==
  /\ Opened
  /\ rpc = [r \in Reader |-> "idle"]
  /\ query = [r \in Reader |-> NoQuery]
  /\ shown = [r \in Reader |-> Nothing]
  /\ todo = [r \in Reader |-> {}]
  /\ before = [r \in Reader |-> {}]

Ask(r) ==
  /\ Turn(r, "idle", "received")
  /\ \E q \in Queries : query' = [query EXCEPT ![r] = q]
  /\ before' = [before EXCEPT ![r] = {w \in Request : pc[w] = "ok"}]
  /\ UNCHANGED <<shown, todo>>

(* get_case and the document queries read the row first: 404 without one. *)
FindRow(r) ==
  /\ query[r].kind \in DocumentViews \cup {"case"} /\ FreeConnection
  /\ LET rows == IF query[r].kind = "case" THEN cases ELSE documents
     IN Turn(r, "received", IF \E x \in rows : x.id = Asked(r) THEN "found" ELSE "error")
  /\ UNCHANGED <<query, shown, todo, before>>

(* Who may see the case, and where the handler goes from there. *)
Allowed(r) ==
  CASE query[r].kind \in {"case", "document"} -> "ok"
    [] query[r].kind = "evidence" -> "events"
    [] OTHER -> "allowed"

Authorize(r) ==
  /\ \/ query[r].kind \in DocumentViews \cup {"case"} /\ rpc[r] = "found"
     \/ query[r].kind \in CaseViews \ {"case"} /\ rpc[r] = "received"
  /\ FreeConnection \/ Role[query[r].actor] /= "investigator"
  /\ IF assert_case_access(query[r].actor, CaseAsked(r))
     THEN /\ rpc' = [rpc EXCEPT ![r] = Allowed(r)]
          /\ Show(r, [Nothing EXCEPT
                        !.cases = IF query[r].kind = "case" THEN {Asked(r)} ELSE {},
                        !.docs = IF query[r].kind \in DocumentViews THEN {Asked(r)} ELSE {}])
          /\ todo' = [todo EXCEPT ![r] = IF query[r].kind = "evidence" THEN {Asked(r)} ELSE {}]
     ELSE rpc' = [rpc EXCEPT ![r] = "error"] /\ UNCHANGED <<shown, todo>>
  /\ UNCHANGED <<query, before>>

(* The lists: one SELECT, joined with case_assignments for an investigator. *)
VisibleAlways(u, c) == TRUE                        \* mutant: join forgotten
Visible(u, c) == Role[u] /= "investigator" \/ <<c, u>> \in assignments

ListCases(r) ==
  /\ query[r].kind = "cases" /\ Turn(r, "received", "ok") /\ FreeConnection
  /\ Show(r, [Nothing EXCEPT !.cases = {c.id : c \in {c \in cases : Visible(query[r].actor, c.id)}}])
  /\ UNCHANGED <<query, todo, before>>

ShowDocuments(r, docs) ==
  /\ Show(r, [Nothing EXCEPT !.docs = {d.id : d \in docs}])
  /\ todo' = [todo EXCEPT ![r] = {d.id : d \in docs}]
  /\ UNCHANGED <<query, before>>

ListEvidence(r) ==
  /\ query[r].kind = "all_evidence" /\ Turn(r, "received", "events") /\ FreeConnection
  /\ ShowDocuments(r, {d \in documents : Visible(query[r].actor, d.case_id)})

ListDocuments(r) ==
  /\ query[r].kind \in {"documents", "case_evidence"} /\ FreeConnection
  /\ Turn(r, "allowed", IF query[r].kind = "documents" THEN "ok" ELSE "events")
  /\ ShowDocuments(r, {d \in documents : d.case_id = Asked(r)})

(* custody_events_for, one document after the other, and the answer. *)
ReadEvents(r) ==
  /\ rpc[r] = "events" /\ FreeConnection
  /\ \E d \in todo[r] :
       /\ Show(r, [shown[r] EXCEPT !.events = @ \cup {e \in auditLog : e.document_id = d}])
       /\ todo' = [todo EXCEPT ![r] = @ \ {d}]
  /\ UNCHANGED <<rpc, query, before>>

Project(r) ==
  /\ Turn(r, "events", "ok") /\ todo[r] = {}
  /\ UNCHANGED <<query, shown, todo, before>>

(* download_document: 404 when the file is not there. *)
ReadFile(r) ==
  /\ query[r].kind = "download"
  /\ Turn(r, "allowed", IF (CHOOSE d \in documents : d.id = Asked(r)).file_path \in files
                        THEN "ok" ELSE "missing")
  /\ UNCHANGED <<query, shown, todo, before>>

(* audit_trail: the ledger first, the Postgres mirror when that call fails. *)
AskLedger(r) ==
  /\ query[r].kind = "trail" /\ Turn(r, "allowed", "ok")
  /\ Show(r, [Nothing EXCEPT !.source = "ledger",
                !.events = {e \in {row[s] : s \in ledger} : e.case_id = Asked(r)}])
  /\ UNCHANGED <<query, todo, before>>

LedgerUnreachable(r) ==
  /\ query[r].kind = "trail" /\ Turn(r, "allowed", "mirror")
  /\ UNCHANGED <<query, shown, todo, before>>

ReadMirrorByDocument(r) ==                         \* mutant: rows without a document dropped
  /\ Turn(r, "mirror", "ok") /\ FreeConnection
  /\ Show(r, [Nothing EXCEPT
                !.events = {e \in auditLog : e.case_id = Asked(r) /\ e.document_id /= NoId}])
  /\ UNCHANGED <<query, todo, before>>
ReadMirror(r) ==
  /\ Turn(r, "mirror", "ok") /\ FreeConnection
  /\ Show(r, [Nothing EXCEPT !.events = {e \in auditLog : e.case_id = Asked(r)}])
  /\ UNCHANGED <<query, todo, before>>

(* A SELECT fails, or the client leaves: nothing is shown. *)
GiveUp(r) ==
  /\ \E from \in {"received", "found", "allowed", "events", "mirror"} : Turn(r, from, "error")
  /\ UNCHANGED <<query, shown, todo, before>>

Query(r) ==
  \/ Ask(r) \/ FindRow(r) \/ Authorize(r)
  \/ ListCases(r) \/ ListEvidence(r) \/ ListDocuments(r) \/ ReadEvents(r) \/ Project(r)
  \/ ReadFile(r) \/ AskLedger(r) \/ LedgerUnreachable(r) \/ ReadMirror(r) \/ GiveUp(r)

Write == Next /\ UNCHANGED views
Read == (\E r \in Reader : Query(r)) /\ UNCHANGED vars

ViewsSpec == InitViews /\ [][Write \/ Read]_allVars

-----------------------------------------------------------------------------
Shown(r) == IF rpc[r] = "ok" THEN shown[r] ELSE Nothing

(* An investigator is shown only what belongs to a case the investigator is *)
(* assigned to, by whichever endpoint.                                      *)
ReaderScoped ==
  \A r \in Reader :
    rpc[r] = "ok" /\ Role[query[r].actor] = "investigator" =>
      LET of == Shown(r).cases \cup {e.case_id : e \in Shown(r).events}
                  \cup {d.case_id : d \in {d \in documents : d.id \in Shown(r).docs}}
      IN \A c \in of : <<c, query[r].actor>> \in assignments

(* Read your writes: what a caller was told has succeeded before the query  *)
(* arrived is in the audit trail.  A trail answered by the ledger lacks     *)
(* what was logged as a ledger gap and what the mock ledger has lost again  *)
(* in a restart, and nothing else; one read from Postgres lacks nothing.    *)
AnsweredWritesShown ==
  \A r \in Reader : query[r].kind = "trail" /\ rpc[r] = "ok" =>
    \A w \in before[r] :
      /\ row[w].case_id = Asked(r)
      /\ Shown(r).source = "ledger" => w \notin alarms \cup lost
      => row[w] \in Shown(r).events

(* A history read from Postgres has no holes: an event shown comes with     *)
(* every event before it in the chain on that case or document, also those  *)
(* whose transactions were open when the query ran.                         *)
NothingSkipped ==
  \A r \in Reader : Shown(r).source = "postgres" =>
    \A e \in Shown(r).events, p \in auditLog :
      /\ p.seq < e.seq
      /\ IF query[r].kind = "trail" THEN p.case_id = e.case_id ELSE p.document_id = e.document_id
      => p \in Shown(r).events

(* Custody starts at the beginning: an evidence record is shown with its    *)
(* UPLOAD event, though row and events are read by different statements.    *)
CustodyHasOrigin ==
  \A r \in Reader : query[r].kind \in {"evidence", "case_evidence", "all_evidence"} =>
    \A d \in Shown(r).docs :
      \E e \in Shown(r).events : e.document_id = d /\ e.action = "UPLOAD"

(* A download answers 404 only for evidence that never had a file.          *)
DownloadServesFile ==
  \A r \in Reader : rpc[r] = "missing" =>
    \E d \in documents : d.id = Asked(r) /\ d.file_path = NoId
=============================================================================
