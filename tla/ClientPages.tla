----------------------------- MODULE ClientPages -----------------------------
(* The pages that show and change cases, documents, evidence and personnel. *)
(* One page is mounted.  Its handlers are asynchronous and share the page's *)
(* React state: a load walks through several requests, a dialog submits a   *)
(* write and reloads, and all of them may overlap while other officers      *)
(* write to the same backend.                                               *)
EXTENDS Naturals, Sequences, FiniteSets, FiniteSetsExt

CONSTANTS
  Job,         \* handler calls a page may have in flight at once, 1..n
  MaxCases,    \* bound: cases, and likewise officers
  MaxWrites    \* bound: writes after the page was mounted

ASSUME BoundsArePositive ==
  MaxCases \in Nat \ {0} /\ MaxWrites \in Nat /\ 1 \in Job /\ Job \subseteq Nat

VARIABLES
  ver,         \* the backend: how often each item was written, 0 when absent
  writes,      \* the writes since the page was mounted
  page,        \* which page is mounted
  id,          \* the case in the URL of a details page
  view,        \* the page's React state and its dialogs'
  job,         \* the handler calls in flight
  acked,       \* the newest version of each item the user was answered
  overlapped   \* some calls overlapped since the last load that ran alone

server == <<ver, writes>>
vars == <<server, page, id, view, job, acked, overlapped>>

(* Cases are numbered in the order they were created.  An item is a case,   *)
(* the list of a case's documents, the list of its exhibits with their      *)
(* custody events, or an officer; a version counts the changes of an item.  *)
Case == 1..MaxCases
Part == {"cases", "documents", "evidence", "users"}
Item == Part \X Case
Versions == 0..(MaxWrites + 1)
Nothing == [i \in Item |-> 0]
PartOf(i) == i[1]
CaseOf(i) == i[2]

Pages == {"Dashboard", "Cases", "Documents", "Evidence", "Users", "CaseDetails", "DocumentDetails"}
Details == {"CaseDetails", "DocumentDetails"}

(* An officer's versions alternate between ACTIVE and SUSPENDED.            *)
IsActive(v) == v % 2 = 1

-----------------------------------------------------------------------------
(* The requests a load makes, one after the other.  getDocuments without a  *)
(* case asks for the cases first and then for every case's documents.       *)
loadDashboardData == <<"cases", "fanout", "documents", "evidence", "logs">>
fetchCases == <<"cases">>
fetchDocuments == <<"fanout", "documents">>
fetchEvidence == <<"evidence">>
fetchUsers == <<"users">>
loadCaseData == <<"cases", "documents", "evidence">>
fetchDocument == <<"documents", "cases">>
Plan ==
  CASE page = "Dashboard" -> loadDashboardData
    [] page = "Cases" -> fetchCases
    [] page = "Documents" -> fetchDocuments
    [] page = "Evidence" -> fetchEvidence
    [] page = "Users" -> fetchUsers
    [] page = "CaseDetails" -> loadCaseData
    [] OTHER -> fetchDocument
PartsOf(plan) == {plan[k] : k \in DOMAIN plan} \cap Part

(* What the services answer with, of one case, or of all when asked for 0:  *)
(* getDocuments then asks case by case, and getCases is getCaseById else.   *)
Items(part, c) == {i \in Item : PartOf(i) = part /\ c \in {0, CaseOf(i)}}
getCases(c) == Items("cases", c)
getDocuments(c) == Items("documents", c)
getEvidence(c) == Items("evidence", c)
getUsers(c) == Items("users", c)
Scope(part, url) ==
  LET c == IF page \in Details THEN url ELSE 0
  IN CASE part = "cases" -> getCases(c)
       [] part = "documents" -> getDocuments(c)
       [] part = "evidence" -> getEvidence(c)
       [] part = "users" -> getUsers(c)
       [] OTHER -> {}

Dialogs ==
  CASE page = "Dashboard" -> {"create", "upload"}
    [] page = "Cases" -> {"create"}
    [] page = "Documents" -> {"upload"}
    [] page = "Evidence" -> {"register", "transfer"}
    [] page = "Users" -> {"provision"}
    [] page = "CaseDetails" -> {"upload", "register", "transfer"}
    [] OTHER -> {}

(* A handler call.  A load also has the case it was made for, the versions  *)
(* when its request left, and what it got so far; url is the case in the    *)
(* URL when the handler's closure was made; own says that the dialog that   *)
(* submitted is still mounted.                                              *)
Idle == [does |-> "nothing", at |-> "done", step |-> 0, for |-> 0, url |-> 0, low |-> Nothing,
         got |-> Nothing, own |-> FALSE]
Loading(does, own) == [Idle EXCEPT !.does = does, !.at = "load", !.step = 1, !.for = id,
                                   !.low = ver, !.own = own]
Sent(does, c) == [Idle EXCEPT !.does = does, !.at = "sent", !.for = c, !.url = id,
                                     !.own = TRUE]
Free == {j \in Job : job[j] = Idle}
Calls == {j \in Job : job[j] # Idle /\ job[j].does # "active"}
IsLoad(j) == job[j].at = "load" /\ job[j].does # "active"

Fresh == [shown |-> Nothing, loading |-> TRUE, error |-> FALSE, partial |-> FALSE,
          twice |-> FALSE, open |-> "none", on |-> 0, busy |-> {}, acting |-> 0, target |-> 0]

Init ==
  /\ \E n \in Case : ver = [i \in Item |-> IF CaseOf(i) <= n THEN 1 ELSE 0]
  /\ writes = 0 /\ page \in Pages /\ id \in {c \in Case : ver[<<"cases", c>>] = 1}
  /\ view = Fresh /\ acked = Nothing /\ overlapped = FALSE
  /\ job = [j \in Job |->
              CASE j = 1 -> Loading("load", FALSE)
                [] j = 2 /\ page \in {"Documents", "Evidence"} -> Loading("active", FALSE)
                [] OTHER -> Idle]

-----------------------------------------------------------------------------
(* The backend.                                                             *)
(* The items a write changes.  An uploaded document and a registered        *)
(* exhibit are both a row of table documents, and both lists read it; a     *)
(* transfer only adds a custody event, which the exhibits alone show.       *)
createCase(n) == {<<"cases", n>>}
createUser(n) == {<<"users", n>>}
toggleUserStatus(n) == {<<"users", n>>}
uploadDocument(n) == {<<"documents", n>>, <<"evidence", n>>}
createEvidence(n) == {<<"documents", n>>, <<"evidence", n>>}
transferCustody(n) == {<<"evidence", n>>}
Changed(does, n) ==
  CASE does = "create" -> createCase(n)
    [] does = "provision" -> createUser(n)
    [] does = "toggle" -> toggleUserStatus(n)
    [] does = "upload" -> uploadDocument(n)
    [] does = "register" -> createEvidence(n)
    [] OTHER -> transferCustody(n)

Commit(set) ==
  ver' = [i \in Item |-> IF i \in set THEN ver[i] + 1 ELSE ver[i]] /\ writes' = writes + 1
NextNew(part) == Cardinality({i \in Item : PartOf(i) = part /\ ver[i] > 0}) + 1

(* What other officers write to the collections the page asks for.          *)
Elsewhere ==
  /\ writes < MaxWrites
  /\ \/ \E n \in Case, does \in {"toggle", "upload", "transfer"} :
          /\ page # "DocumentDetails" /\ Commit(Changed(does, n))
          /\ ver[<<IF does = "toggle" THEN "users" ELSE "cases", n>>] > 0
          /\ \E i \in Changed(does, n) : PartOf(i) \in PartsOf(Plan)
     \/ \E part \in {"cases", "users"} \cap PartsOf(Plan) :
          /\ page \notin Details /\ NextNew(part) \in Case
          /\ Commit({<<part, NextNew(part)>>})
  /\ UNCHANGED <<page, id, view, job, acked, overlapped>>

(* The number of the case or the officer a call writes to.  A write for     *)
(* case 0, the placeholder id, or for a case that is not there is refused,  *)
(* and so is the fallback after a 404: there is no POST /documents, and     *)
(* POST /evidence is given the same case.                                   *)
Number(j) ==
  CASE job[j].does = "create" -> NextNew("cases")
    [] job[j].does = "provision" -> NextNew("users")
    [] OTHER -> job[j].for
Accepts(j) ==
  /\ Number(j) \in Case
  /\ job[j].does \in {"upload", "register", "transfer"} => ver[<<"cases", job[j].for>>] > 0

(* PATCH /users/:id sets the status the row did not show; setting it again  *)
(* changes nothing.                                                         *)
Repeats(j) ==
  job[j].does = "toggle" /\ ver[<<"users", job[j].for>>] % 2 # job[j].step % 2

(* The write is committed and answered, committed with its answer lost, or  *)
(* refused.                                                                 *)
ServeWrite(j) ==
  /\ job[j].at = "sent"
  /\ \/ /\ Accepts(j)
        /\ \/ Repeats(j) /\ UNCHANGED server
           \/ ~Repeats(j) /\ writes < MaxWrites /\ Commit(Changed(job[j].does, Number(j)))
        /\ \E answer \in {"ok", "failed"} :
             job' = [job EXCEPT ![j].at = answer, ![j].for = Number(j), ![j].low = ver']
     \/ job' = [job EXCEPT ![j].at = "failed"] /\ UNCHANGED server
  /\ UNCHANGED <<page, id, view, acked, overlapped>>

-----------------------------------------------------------------------------
(* What is on screen.                                                       *)
BodyKeepsTable ==              \* mutant: Users keeps its table up while it reloads
  CASE view.error /\ ~view.loading -> "error"
    [] view.loading /\ page # "Users" -> "spinner"
    [] OTHER -> "content"
Body ==
  CASE view.error /\ (~view.loading \/ page = "Dashboard") -> "error"
    [] view.loading /\ page # "Dashboard" -> "spinner"
    [] OTHER -> "content"
Content(v) == ~v.error /\ (~v.loading \/ page = "Dashboard")

(* The dialogs that are mounted, open or not: CaseDetails unmounts its own  *)
(* with the rest of the page, Dashboard mounts the open one only.           *)
Mounted(v) ==
  CASE page = "Dashboard" -> IF v.error THEN {} ELSE {v.open} \cap Dialogs
    [] page = "CaseDetails" -> IF Content(v) THEN Dialogs ELSE {}
    [] OTHER -> Dialogs
DialogShown == view.open # "none" /\ view.open \in Mounted(view)

(* New state for the page and the calls: a dialog that unmounts forgets     *)
(* that it was submitting.                                                  *)
Render(v, q) ==
  /\ view' = [v EXCEPT !.busy = @ \cap Mounted(v)]
  /\ job' = [j \in Job |-> IF q[j].does \in Dialogs \ Mounted(v)
                           THEN [q[j] EXCEPT !.own = FALSE] ELSE q[j]]

Start(v, j, load) ==
  /\ Render([v EXCEPT !.loading = TRUE, !.error = FALSE], [job EXCEPT ![j] = load])
  /\ overlapped' = ((overlapped /\ load.for # id) \/ Calls \ {j} # {})
Began == overlapped' = (overlapped \/ Calls # {})

Closed(v, dialog) == IF v.open = dialog THEN [v EXCEPT !.open = "none"] ELSE v
Ended(v, j) == IF job[j].own THEN [v EXCEPT !.busy = @ \ {job[j].does}] ELSE v

-----------------------------------------------------------------------------
(* A load's answers.                                                        *)
(* An answer is, item by item, as old as its request or as new as now; one  *)
(* case's documents may be missing, as a failed trail of the fan-out is [].  *)
Answers(j, part) ==
  LET scope == Scope(part, job[j].for)
  IN {a \in [scope -> Versions] : \A i \in scope : job[j].low[i] <= a[i] /\ a[i] <= ver[i]}
Holes(j, part) ==
  IF page \in {"Dashboard", "Documents"} /\ part = "documents" THEN SUBSET Case ELSE {{}}
Replace(f, part, a) ==
  [i \in Item |-> CASE PartOf(i) # part -> f[i]
                    [] PartOf(i) = part /\ i \in DOMAIN a -> a[i]
                    [] OTHER -> 0]

(* The next request, or the end of the load: the finally of the load, then  *)
(* the onClose and the finally of the dialog that awaited it.               *)
Proceeds(j, v, got, next) ==
  LET w == IF page = "Dashboard" THEN [v EXCEPT !.shown = got, !.twice = FALSE] ELSE v
      x == Ended(Closed([w EXCEPT !.loading = FALSE], job[j].does), j)
  IN IF next <= Len(Plan)
     THEN Render(v, [job EXCEPT ![j].step = next, ![j].got = got,
                                ![j].low = IF Plan[next - 1] = "fanout" THEN @ ELSE ver])
     ELSE Render(x, [job EXCEPT ![j] = Idle])

Answered(j) ==
  LET part == Plan[job[j].step]
      set == page # "Dashboard" /\ part \in Part
  IN \E a \in Answers(j, part), holes \in Holes(j, part) :
       LET b == [i \in DOMAIN a |-> IF CaseOf(i) \in holes THEN 0 ELSE a[i]]
           got == Replace(job[j].got, part, b)
           v == [view EXCEPT !.shown = IF set THEN Replace(@, part, b) ELSE @,
                             !.twice = @ /\ ~set,
                             !.partial = holes # {} \/ (@ /\ job[j].step > 1)]
       IN Proceeds(j, v, got, job[j].step + 1)

(* The first request of a load is fatal, the others count as empty; the     *)
(* case of a document keeps what it was.                                    *)
Failed(j) ==
  LET part == Plan[job[j].step]
      empty == IF part = "fanout" THEN "documents" ELSE part
      next == IF part = "fanout" THEN job[j].step + 2 ELSE job[j].step + 1
      v == [view EXCEPT !.partial = TRUE,
                        !.shown = IF page = "CaseDetails" THEN Replace(@, part, <<>>) ELSE @]
  IN IF job[j].step = 1
     THEN Render(Ended(Closed([view EXCEPT !.error = TRUE, !.loading = FALSE], job[j].does), j),
                 [job EXCEPT ![j] = Idle])
     ELSE Proceeds(j, v, Replace(job[j].got, empty, <<>>), next)

TakeLoad(j) ==
  /\ IsLoad(j) /\ (Answered(j) \/ Failed(j))
  /\ UNCHANGED <<server, page, id, acked, overlapped>>

(* The getCases of Documents and Evidence that picks the case to write to.  *)
Newest(cases) == IF cases = {} THEN 0 ELSE Max(cases)
TakeActiveCase(j) ==
  /\ job[j].does = "active"
  /\ \E a \in Answers(j, "cases"), ok \in BOOLEAN :
       Render([view EXCEPT !.target = IF ok THEN Newest({c \in Case : a[<<"cases", c>>] > 0}) ELSE @],
              [job EXCEPT ![j] = Idle])
  /\ UNCHANGED <<server, page, id, acked, overlapped>>

-----------------------------------------------------------------------------
(* A write's answer.                                                        *)
Acknowledge(j) ==
  acked' = [i \in Item |-> IF i \in Changed(job[j].does, job[j].for) /\ job[j].low[i] > acked[i]
                           THEN job[j].low[i] ELSE acked[i]]

(* handleCreateCase and handleUserCreated put the new row first and reload  *)
(* without waiting; a user's row may then be there twice.                   *)
Prepend(v, i) == [v EXCEPT !.shown[i] = IF @ = 0 THEN 1 ELSE @,
                           !.twice = @ \/ (PartOf(i) = "users" /\ v.shown[i] > 0)]
TakeCreated(j) ==
  /\ job[j].at = "ok" /\ job[j].does \in {"create", "provision"} /\ Acknowledge(j)
  /\ LET i == <<IF job[j].does = "create" THEN "cases" ELSE "users", job[j].for>>
     IN Start(Ended(Closed(Prepend(view, i), job[j].does), j), j, Loading("load", FALSE))
  /\ UNCHANGED <<server, page, id>>

(* The handlers of uploads and transfers close the dialog, reload and are   *)
(* awaited; the reload is for the case of the render it was submitted from. *)
UploadedNoReload(j) ==         \* mutant: the handler only closes its dialog
  /\ job[j].at = "ok" /\ job[j].does \in {"upload", "register", "transfer"} /\ Acknowledge(j)
  /\ Render(Ended(Closed(view, job[j].does), j), [job EXCEPT ![j] = Idle])
  /\ UNCHANGED <<server, page, id, overlapped>>
TakeUploaded(j) ==
  /\ job[j].at = "ok" /\ job[j].does \in {"upload", "register", "transfer"} /\ Acknowledge(j)
  /\ Start(Closed(view, job[j].does), j,
           [Loading(job[j].does, job[j].own) EXCEPT !.for = job[j].url])
  /\ UNCHANGED <<server, page, id>>

(* handleToggleStatus replaces the row by the answer and clears the one     *)
(* actionLoadingId there is.                                                *)
TakeToggled(j) ==
  /\ job[j].at = "ok" /\ job[j].does = "toggle" /\ Acknowledge(j)
  /\ LET i == <<"users", job[j].for>>
     IN Render([view EXCEPT !.acting = 0, !.shown[i] = IF @ = 0 THEN 0 ELSE job[j].low[i]],
               [job EXCEPT ![j] = Idle])
  /\ UNCHANGED <<server, page, id, overlapped>>

RefusedStuck(j) ==             \* mutant: the flag is cleared after a success only
  /\ job[j].at = "failed" /\ Render(view, [job EXCEPT ![j] = Idle])
  /\ UNCHANGED <<server, page, id, acked, overlapped>>
TakeRefused(j) ==
  /\ job[j].at = "failed"
  /\ Render([Ended(view, j) EXCEPT !.acting = IF job[j].does = "toggle" THEN 0 ELSE @],
            [job EXCEPT ![j] = Idle])
  /\ UNCHANGED <<server, page, id, acked, overlapped>>

-----------------------------------------------------------------------------
(* The user.  A dialog covers the page, so only it takes clicks.            *)
ClickRefresh ==
  /\ page \notin Details /\ Body # "error" /\ ~DialogShown
  /\ page \in {"Users", "Dashboard"} => ~view.loading
  /\ \E j \in Free : Start(view, j, Loading("load", FALSE))
  /\ UNCHANGED <<server, page, id, acked>>

ClickRetry ==
  /\ Body = "error" /\ ~DialogShown
  /\ \E j \in Free : Start(view, j, Loading("load", FALSE))
  /\ UNCHANGED <<server, page, id, acked>>

(* A jump in the browser's history reuses the component and reruns its      *)
(* effect; nothing cancels the calls made for the case before.              *)
GoToUnloaded(c) ==             \* mutant: the effect does not depend on the id
  /\ page \in Details /\ c # id /\ ver[<<"cases", c>>] > 0 /\ ~DialogShown /\ id' = c
  /\ UNCHANGED <<server, page, view, job, acked, overlapped>>
GoTo(c) ==
  /\ page \in Details /\ c # id /\ ver[<<"cases", c>>] > 0 /\ ~DialogShown /\ id' = c
  /\ \E j \in Free : Start(view, j, [Loading("load", FALSE) EXCEPT !.for = c])
  /\ UNCHANGED <<server, page, acked>>

(* Transfer opens on an exhibit of the list, the others on the page.        *)
OpenDialog(d) ==
  /\ d \in Dialogs /\ view.open = "none" /\ (page = "CaseDetails" => Body = "content")
  /\ page = "Dashboard" => Body = "content"
  /\ \E c \in Case :
       /\ IF d = "transfer" THEN Body = "content" /\ view.shown[<<"evidence", c>>] > 0
          ELSE c = 1
       /\ Render([view EXCEPT !.open = d, !.on = IF d = "transfer" THEN c ELSE 0], job)
  /\ UNCHANGED <<server, page, id, acked, overlapped>>

(* Escape, the backdrop and the cross close a dialog that is submitting too.*)
CloseDialog ==
  /\ DialogShown /\ Render([view EXCEPT !.open = "none"], job)
  /\ UNCHANGED <<server, page, id, acked, overlapped>>

(* The case a dialog writes to: the first one of Dashboard's list, the one  *)
(* Documents and Evidence picked, or the one CaseDetails shows.             *)
HeaderCase == Newest({c \in Case : view.shown[<<"cases", c>>] > 0})
WriteTarget ==
  CASE page \in {"Dashboard", "CaseDetails"} -> HeaderCase
    [] OTHER -> view.target

SubmitAgain(d, c) ==           \* mutant: the button is not disabled while submitting
  /\ DialogShown /\ view.open = d
  /\ \E j \in Free : Render([view EXCEPT !.busy = @ \cup {d}], [job EXCEPT ![j] = Sent(d, c)])
  /\ Began /\ UNCHANGED <<server, page, id, acked>>
Submit(d, c) ==
  /\ DialogShown /\ view.open = d /\ d \notin view.busy
  /\ \E j \in Free : Render([view EXCEPT !.busy = @ \cup {d}], [job EXCEPT ![j] = Sent(d, c)])
  /\ Began /\ UNCHANGED <<server, page, id, acked>>

CaseForm == Submit("create", 0)
UserProvisionModal == Submit("provision", 0)
DocumentUpload == Submit("upload", WriteTarget)
EvidenceUpload == Submit("register", WriteTarget)
ChainOfCustodyLog == Submit("transfer", view.on)

(* step keeps the version the row showed, so what the click asked for.      *)
handleToggleStatus(u) ==
  /\ page = "Users" /\ Body = "content" /\ ~DialogShown
  /\ view.shown[<<"users", u>>] > 0 /\ view.acting # u
  /\ \E j \in Free :
       Render([view EXCEPT !.acting = u],
              [job EXCEPT ![j] = [Sent("toggle", u) EXCEPT !.step = view.shown[<<"users", u>>]]])
  /\ Began /\ UNCHANGED <<server, page, id, acked>>

Proceed(j) ==
  \/ ServeWrite(j) \/ TakeLoad(j) \/ TakeActiveCase(j)
  \/ TakeCreated(j) \/ TakeUploaded(j) \/ TakeToggled(j) \/ TakeRefused(j)
Next ==
  \/ Elsewhere
  \/ ClickRefresh \/ ClickRetry \/ CloseDialog
  \/ \E c \in Case : GoTo(c) \/ handleToggleStatus(c)
  \/ \E d \in Dialogs : OpenDialog(d)
  \/ CaseForm \/ UserProvisionModal \/ DocumentUpload \/ EvidenceUpload \/ ChainOfCustodyLog
  \/ \E j \in Job : Proceed(j)

Spec == Init /\ [][Next]_vars

-----------------------------------------------------------------------------
(* What the pages show, as the rows of each part; a search or a filter is   *)
(* at its default.                                                          *)
Rows(part) == {i \in Item : PartOf(i) = part /\ view.shown[i] > 0}

DashboardTiles == Rows("cases") \cup Rows("documents") \cup Rows("evidence")
DashboardTable == Rows("cases")
CaseList == Rows("cases")
DocumentList == Rows("documents")
EvidenceList == Rows("evidence")
UserTable == Rows("users")
UserStatsCards == Cardinality(Rows("users")) + (IF view.twice THEN 1 ELSE 0)

DossierHeader == Rows("cases")
DocumentsTab == Rows("documents")
EvidenceTab == Rows("evidence")
Dossier == DossierHeader \cup DocumentsTab \cup EvidenceTab

DocumentCase == Rows("cases")
DocumentRecord == Rows("documents")

(* All a page shows.                                                        *)
Screen ==
  CASE page = "Dashboard" -> DashboardTiles \cup DashboardTable
    [] page = "Cases" -> CaseList
    [] page = "Documents" -> DocumentList
    [] page = "Evidence" -> EvidenceList
    [] page = "Users" -> UserTable
    [] page = "CaseDetails" -> Dossier
    [] OTHER -> DocumentRecord

-----------------------------------------------------------------------------
(* Every variable holds a value of its kind, nothing is shown or            *)
(* acknowledged that the backend never had, and the flags of the dialogs    *)
(* are those of mounted ones.                                               *)
TypeOK ==
  /\ ver \in [Item -> Versions] /\ writes \in 0..MaxWrites /\ id \in Case
  /\ \A i \in Item : view.shown[i] <= ver[i] /\ acked[i] <= ver[i]
  /\ view.open \in Dialogs \cup {"none"} /\ view.busy \subseteq Mounted(view)
  /\ view.target \in {0} \cup Case /\ view.acting \in {0} \cup Case

(* The pages' optimistic rows and reloads: once a page has come to rest, it *)
(* shows every write its user was answered, at least as new as answered,    *)
(* unless calls overlapped or part of the load failed without a word.       *)
OwnWritesShown ==
  Calls = {} /\ Body = "content" /\ ~overlapped /\ ~view.partial =>
    \A i \in Item :
      PartOf(i) \in PartsOf(Plan) /\ (page \in Details => CaseOf(i) = id) /\ acked[i] > 0 =>
        i \in Screen /\ view.shown[i] >= acked[i]

(* CaseDetails and DocumentDetails across a jump to another case: unless    *)
(* calls overlapped, everything on the page is of the case in the URL, and  *)
(* so is what its dialogs write; a document may keep the line of another    *)
(* case when its own case could not be fetched.                             *)
OneDossier ==
  page \in Details /\ Body = "content" /\ ~overlapped =>
    /\ \A i \in Screen : CaseOf(i) = id
    /\ page = "CaseDetails" => WriteTarget = id
    /\ \A i \in DocumentCase : CaseOf(i) = id \/ view.partial

(* Where dialogs stay mounted, the dialog's loading flag survives Escape    *)
(* and reopening, so a form is never submitted again while its first        *)
(* submission is still in flight.                                           *)
SubmitOnce ==
  page \in {"Cases", "Documents", "Evidence", "Users"} =>
    \A d \in Dialogs : Cardinality({j \in Job : job[j].does = d}) <= 1

(* The finally blocks: whatever spins or is disabled has a call in flight   *)
(* that ends it, though the calls share one flag.                           *)
FlagsHaveCause ==
  /\ view.loading => \E j \in Job : IsLoad(j)
  /\ \A d \in view.busy : \E j \in Job : job[j].does = d /\ job[j].own
  /\ view.acting # 0 => \E j \in Job : job[j].does = "toggle" /\ job[j].for = view.acting

(* handleUserCreated prepends without a filter: the row that is then there  *)
(* twice is never on screen, the cards count every officer once.            *)
NoRowTwice == page = "Users" /\ Body = "content" => UserStatsCards = Cardinality(UserTable)
=============================================================================
