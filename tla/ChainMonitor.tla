---------------------------- MODULE ChainMonitor ----------------------------
(* What the pages AuditLog, LedgerStatus and Dashboard say about the chain. *)
(* A page asks GET /audit/verify-chain, the backend asks the ledger service *)
(* or falls back to its Postgres mirror, and the page keeps the last answer *)
(* to arrive.  Its handlers are asynchronous, several run at once, and the  *)
(* ledger is tampered with and restored from elsewhere meanwhile.           *)
EXTENDS Naturals, FiniteSets

CONSTANTS
  Job,          \* handler calls a page may have in flight at once, 1..n
  MaxEntries,   \* bound: entries on the ledger
  MaxChanges    \* bound: times the ledger is tampered with or restored

ASSUME BoundsAreNat == MaxEntries \in Nat /\ MaxChanges \in Nat /\ Job \subseteq Nat

VARIABLES
  mode,      \* LEDGER_MODE
  known,     \* fabric mode: the service has seen the case ids since its start
  entries,   \* number of entries on the ledger
  bad,       \* the entries whose fields were edited
  history,   \* whether the ledger was clean, after each change so far
  page,      \* which page is mounted
  isAdmin,   \* the role behind the page's token
  view,      \* the page's React state
  job        \* the handler calls in flight

ledger == <<known, entries, bad, history>>
fixed == <<mode, page, isAdmin>>
vars == <<ledger, fixed, view, job>>

Pages == {"AuditLog", "LedgerStatus", "Dashboard"}
Changes == Cardinality(DOMAIN history) - 1
Clean == bad = {}

(* An answer of verify-chain; from and asked are the model's own notes.     *)
Answer(valid, total, from, asked) ==
  [valid |-> valid, total |-> total, from |-> from, asked |-> asked]
Null == Answer(TRUE, 0, "none", 0)
Failed == Answer(TRUE, 0, "failed", 0)
Results == [valid : BOOLEAN, total : 0..MaxEntries,
            from : {"none", "ledger", "forgotten", "mirror", "failed"}, asked : 0..MaxChanges]

(* A handler call: what it does, how far it is, and what it has so far.     *)
HandlerCall(does, at, asked) == [does |-> does, at |-> at, answer |-> Null, asked |-> asked]
Idle == HandlerCall("nothing", "done", 0)
Started(does, at) == HandlerCall(does, at, 0)
Jobs == [does : {"nothing", "load", "verify", "tamper", "restore"},
         at : {"done", "demand", "demanded", "load", "verify", "verified"},
         answer : Results, asked : 0..MaxChanges]

Free == {j \in Job : job[j] = Idle}

(* Put the handler calls of one click into free slots.                      *)
Launch(s) ==
  /\ Cardinality(Free) >= Cardinality(s)
  /\ LET slot == CHOOSE f \in [s -> Free] : \A a, b \in s : a /= b => f[a] /= f[b]
     IN job' = [j \in Job |-> IF \E a \in s : slot[a] = j
                              THEN CHOOSE a \in s : slot[a] = j ELSE job[j]]

-----------------------------------------------------------------------------
(* The React state at mount, before and with the effects' first calls.      *)
Fresh == [result |-> Null, events |-> 0, loading |-> FALSE, error |-> FALSE,
          verifying |-> FALSE, tampering |-> FALSE, restoring |-> FALSE]

Loading(v) == [v EXCEPT !.loading = TRUE, !.error = FALSE]
Verifying(v) == [v EXCEPT !.verifying = TRUE]
Refreshing(v) == Verifying(Loading(v))

fetchAuditLogs == Started("load", "load")
fetchEvents == Started("load", "load")
handleVerifyChain == HandlerCall("verify", "verify", Changes)

(* What the effects, Refresh, Retry and Refresh All launch, besides the     *)
(* health checks, whose answers nothing else on the page depends on.        *)
refreshAll == {fetchEvents, handleVerifyChain}
MountCalls ==
  CASE page = "AuditLog" -> {fetchAuditLogs, handleVerifyChain}
    [] page = "LedgerStatus" -> refreshAll
    [] OTHER -> {}

Init ==
  /\ mode \in {"mock", "fabric"} /\ known = TRUE
  /\ entries = 0 /\ bad = {} /\ history = [k \in 0..0 |-> TRUE]
  /\ page \in Pages /\ isAdmin \in BOOLEAN
  /\ view = IF page = "Dashboard" THEN Fresh ELSE Refreshing(Fresh)
  /\ job = [j \in Job |->
              CASE page = "Dashboard" -> Idle
                [] j = 1 -> Started("load", "load")
                [] j = 2 -> Started("verify", "verify")
                [] OTHER -> Idle]

-----------------------------------------------------------------------------
(* The ledger, from elsewhere.                                              *)
Change(b) == bad' = b /\ history' = [k \in 0..(Changes + 1) |->
                                      IF k <= Changes THEN history[k] ELSE b = {}]

(* An upload or a transfer by anybody.                                      *)
Append ==
  /\ entries < MaxEntries /\ entries' = entries + 1 /\ known' = TRUE
  /\ UNCHANGED <<bad, history, fixed, view, job>>

(* POST /ledger/demo/tamper without an id takes the latest entry; in fabric *)
(* mode any entry may be edited in CouchDB.                                 *)
Tamperable == IF mode = "mock" THEN {entries} \ {0} ELSE 1..entries
TamperElsewhere ==
  /\ Changes < MaxChanges
  /\ \E i \in Tamperable : Change(bad \cup {i})
  /\ UNCHANGED <<known, entries, fixed, view, job>>

RestoreElsewhere ==
  /\ Changes < MaxChanges /\ ~Clean /\ Change({})
  /\ UNCHANGED <<known, entries, fixed, view, job>>

(* The ledger service restarts; in fabric mode it forgets the case ids.     *)
Restart ==
  /\ mode = "fabric" /\ known' = FALSE
  /\ UNCHANGED <<entries, bad, history, fixed, view, job>>

-----------------------------------------------------------------------------
(* GET /audit/verify-chain: admins only, the ledger first, the Postgres     *)
(* mirror, which nobody edits here, when the ledger call fails or is late.  *)
verify_ledger(j) ==
  IF known THEN Answer(Clean, entries, "ledger", job[j].asked) ELSE Answer(TRUE, 0, "forgotten", 0)
verify_postgres_chain == Answer(TRUE, entries, "mirror", 0)
VerifyFromCache(j) ==                                \* mutant: the backend repeats its last answer
  {Failed} \cup (IF ~isAdmin THEN {} ELSE IF view.result.from = "ledger"
                 THEN {[view.result EXCEPT !.asked = job[j].asked]} ELSE {verify_ledger(j)})
verify_chain(j) ==
  {Failed} \cup (IF isAdmin THEN {verify_postgres_chain} ELSE {})
           \cup (IF isAdmin THEN {verify_ledger(j)} ELSE {})

(* Either end of the call may fail, after its effect or before.             *)
Accepts == isAdmin /\ mode = "mock" /\ entries > 0 /\ Changes < MaxChanges
demo_tamper == Accepts /\ Change(bad \cup {entries})
demo_restore == Accepts /\ Change({})

ServeVerify(j) ==
  /\ job[j].at = "verify"
  /\ \E a \in verify_chain(j) :
       job' = [job EXCEPT ![j].at = "verified", ![j].answer = a, ![j].asked = 0]
  /\ UNCHANGED <<ledger, fixed, view>>

ServeDemand(j) ==
  /\ job[j].at = "demand" /\ job' = [job EXCEPT ![j].at = "demanded"]
  /\ \/ job[j].does = "tamper" /\ demo_tamper
     \/ job[j].does = "restore" /\ demo_restore
     \/ UNCHANGED <<bad, history>>
  /\ UNCHANGED <<known, entries, fixed, view>>

-----------------------------------------------------------------------------
(* The page's continuations.                                                *)
(* injectTamperAtBlock150 and resetAuditChain never throw, and whatever they *)
(* return, of which only a message depends, the page loads and verifies.    *)
TakeDemand(j) ==
  /\ job[j].at = "demanded"
  /\ job' = [job EXCEPT ![j].at = "load"]
  /\ view' = Loading(view)
  /\ UNCHANGED <<ledger, fixed>>

(* getAuditEvents asks for the cases and then for every case's trail; a     *)
(* trail that fails counts as empty, the case list failing is an error.     *)
(* Only AuditLog's verdict depends on how many there are.                   *)
(* The ledger service learns the case ids from the trails.                  *)
FinishLoad(j) ==
  /\ job[j].at = "load"
  /\ \/ \E n \in 0..entries :
          /\ view' = [view EXCEPT !.events = IF page = "AuditLog" THEN n ELSE @, !.loading = FALSE,
                                  !.verifying = @ \/ job[j].does # "load"]
          /\ known' = (known \/ n > 0)
     \/ /\ view' = [view EXCEPT !.error = TRUE, !.loading = FALSE,
                                !.verifying = @ \/ job[j].does # "load"]
        /\ UNCHANGED known
  /\ job' = [job EXCEPT ![j] = IF @.does = "load" THEN Idle
                               ELSE [@ EXCEPT !.at = "verify", !.asked = Changes]]
  /\ UNCHANGED <<entries, bad, history, fixed>>

(* A failed verification: LedgerStatus clears its verdict, AuditLog keeps   *)
(* the one it has, Dashboard cleared it when it asked.                      *)
Result(a) ==
  CASE a /= Failed -> a
    [] a = Failed /\ page = "LedgerStatus" -> Null
    [] OTHER -> view.result
VerificationLatched(v, j) ==                         \* mutant: the flag is cleared after a success only
  [v EXCEPT !.verifying = @ /\ job[j].answer = Failed, !.result = Result(job[j].answer)]
setVerificationResult(v, j) ==
  [v EXCEPT !.verifying = FALSE, !.result = Result(job[j].answer)]

(* The finally of handleTamper and of handleRestore.                        *)
FinishDemo(v, j) ==
  [v EXCEPT !.tampering = @ /\ job[j].does /= "tamper",
            !.restoring = @ /\ job[j].does /= "restore"]

TakeVerify(j) ==
  /\ job[j].at = "verified"
  /\ view' = FinishDemo(setVerificationResult(view, j), j)
  /\ job' = [job EXCEPT ![j] = Idle]
  /\ UNCHANGED <<ledger, fixed>>

-----------------------------------------------------------------------------
(* What the pages show.                                                     *)
isChainTampered == view.result.from /= "none" /\ ~view.result.valid
MainShown == page /= "AuditLog" \/ (~view.loading /\ ~view.error)
ErrorShown == page /= "Dashboard" /\ view.error /\ ~view.loading

AuditLogVerdict ==
  CASE isChainTampered -> "breach"
    [] ~isChainTampered /\ view.events = 0 -> "empty"
    [] OTHER -> "verified"
LedgerStatusVerdict ==
  CASE view.result.from = "none" -> "pending"
    [] isChainTampered -> "breach"
    [] ~isChainTampered /\ view.result.from /= "none" /\ view.result.total = 0 -> "empty"
    [] OTHER -> "verified"
ScanVerdict ==
  CASE view.result.from = "none" -> "pending"
    [] isChainTampered -> "breach"
    [] OTHER -> "verified"
Verdict ==
  CASE ~MainShown -> "hidden"
    [] MainShown /\ page = "AuditLog" -> AuditLogVerdict
    [] page = "LedgerStatus" -> LedgerStatusVerdict
    [] OTHER -> ScanVerdict

(* The card "Hash Mismatches", whose zero reads "All hashes valid".         *)
MismatchCard == IF isChainTampered THEN "broken" ELSE "all valid"

-----------------------------------------------------------------------------
(* The user's clicks.                                                       *)
ClickVerify ==
  /\ page \in {"AuditLog", "LedgerStatus"} /\ ~view.verifying
  /\ Launch({handleVerifyChain}) /\ view' = Verifying(view)
  /\ UNCHANGED <<ledger, fixed>>

handleRunIntegrityScan ==
  /\ page = "Dashboard" /\ ~view.verifying
  /\ Launch({handleVerifyChain})
  /\ view' = [Verifying(view) EXCEPT !.result = Null]
  /\ UNCHANGED <<ledger, fixed>>

ClickRefresh ==
  /\ page /= "Dashboard" /\ ~view.loading
  /\ IF page = "AuditLog" THEN Launch({fetchAuditLogs}) /\ view' = Loading(view)
     ELSE Launch(refreshAll) /\ view' = Refreshing(view)
  /\ UNCHANGED <<ledger, fixed>>

ClickRetry ==
  /\ ErrorShown /\ Launch(MountCalls) /\ view' = Refreshing(view)
  /\ UNCHANGED <<ledger, fixed>>

(* LedgerStatus shows its demo buttons to admins and disables both while    *)
(* either handler runs; AuditLog does neither.                              *)
DemoEnabled ==
  \/ page = "AuditLog"
  \/ page = "LedgerStatus" /\ isAdmin /\ ~view.tampering /\ ~view.restoring

handleTamper ==
  /\ DemoEnabled /\ Launch({Started("tamper", "demand")})
  /\ view' = IF page = "AuditLog" THEN view
             ELSE [view EXCEPT !.tampering = TRUE]
  /\ UNCHANGED <<ledger, fixed>>

handleRestore ==
  /\ DemoEnabled /\ isChainTampered /\ Launch({Started("restore", "demand")})
  /\ view' = IF page = "AuditLog" THEN view
             ELSE [view EXCEPT !.restoring = TRUE]
  /\ UNCHANGED <<ledger, fixed>>

Proceed(j) ==
  ServeVerify(j) \/ ServeDemand(j) \/ TakeDemand(j) \/ FinishLoad(j) \/ TakeVerify(j)

Next ==
  \/ Append \/ TamperElsewhere \/ RestoreElsewhere \/ Restart
  \/ ClickVerify \/ handleRunIntegrityScan \/ ClickRefresh \/ ClickRetry
  \/ handleTamper \/ handleRestore
  \/ \E j \in Job : Proceed(j)

(* Every fetch is answered or fails, and the browser runs the continuation. *)
Fairness == \A j \in Job : WF_vars(Proceed(j))
Spec == Init /\ [][Next]_vars /\ Fairness

-----------------------------------------------------------------------------
(* Every variable holds a value of its kind.                                *)
TypeOK ==
  /\ entries \in 0..MaxEntries /\ bad \subseteq 1..entries
  /\ Changes \in 0..MaxChanges /\ history \in [0..Changes -> BOOLEAN]
  /\ job \in [Job -> Jobs] /\ view.result \in Results
  /\ view.events \in 0..MaxEntries

(* audit.rs verify_chain, AuditLog, LedgerStatus and Dashboard: what a page *)
(* shows of an answer from the ledger was true at some moment since the     *)
(* question was put, however many other questions overlap it.  A verdict    *)
(* asked for after the last change is right, then.                          *)
VerdictTrue ==
  view.result.from = "ledger" =>
    \E k \in view.result.asked..Changes :
      /\ Verdict \in IF history[k] THEN {"verified", "empty", "hidden"} ELSE {"breach", "hidden"}
      /\ (MismatchCard = "all valid") = history[k]

(* The finally blocks: the page stops spinning and the verify, tamper and   *)
(* restore buttons come back, though overlapping handlers share the flags.  *)
SpinnersEnd ==
  /\ view.loading ~> ~view.loading
  /\ view.verifying ~> ~view.verifying
  /\ view.tampering \/ view.restoring ~> ~view.tampering /\ ~view.restoring
=============================================================================
