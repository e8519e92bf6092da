------------------------- MODULE ChainMonitor_proofs -------------------------
(* The verdict a page shows is a true one, proved for any number of handler *)
(* calls at once, any number of entries and any number of changes.          *)
EXTENDS ChainMonitor, FiniteSetTheorems, TLAPS

(* What the ledger's answer says was so at some moment since the question.  *)
Sound(a, n, h) == a.from = "ledger" => \E k \in a.asked..n : a.valid = h[k]

LedgerInv ==
  /\ Changes \in 0..MaxChanges /\ history \in [0..Changes -> BOOLEAN]
  /\ history[Changes] = (bad = {})
  /\ entries \in 0..MaxEntries /\ bad \subseteq 1..entries /\ known \in BOOLEAN
  /\ page \in Pages /\ mode \in {"mock", "fabric"} /\ isAdmin \in BOOLEAN
JobInv(r, n, h) == r \in Jobs /\ r.asked <= n /\ Sound(r.answer, n, h)
JobsInv == job \in [Job -> Jobs] /\ \A j \in Job : JobInv(job[j], Changes, history)
Views == [result : Results, events : 0..MaxEntries, loading : BOOLEAN, error : BOOLEAN,
          verifying : BOOLEAN, tampering : BOOLEAN, restoring : BOOLEAN]
ViewInv == view \in Views /\ Sound(view.result, Changes, history)
Inv == LedgerInv /\ JobsInv /\ ViewInv

-----------------------------------------------------------------------------
(* How many moments there are from the first to the n-th.                   *)
LEMMA MomentsCounted == ASSUME NEW n \in Nat PROVE Cardinality(0..n) = n + 1
<1>1. 0 \in Int /\ n \in Int /\ 0 <= n
  OBVIOUS
<1>2. Cardinality(0..n) = n - 0 + 1
  BY <1>1, FS_Interval
<1> QED BY <1>2

(* A change adds one more moment and keeps those before it.                 *)
LEMMA ChangeAdds ==
  ASSUME LedgerInv, NEW b, Change(b)
  PROVE  /\ Changes' = Changes + 1 /\ history' \in [0..Changes' -> BOOLEAN]
         /\ history'[Changes'] = (bad' = {})
         /\ \A k \in 0..Changes : history'[k] = history[k]
<1> DEFINE n == Changes + 1
<1>1. n \in Nat /\ Changes \in Nat /\ Changes # n /\ Changes < n
  BY BoundsAreNat DEF LedgerInv
<1>2. history' = [k \in 0..n |-> IF k <= Changes THEN history[k] ELSE b = {}] /\ bad' = b
  BY DEF Change
<1>3. DOMAIN history' = 0..n
  BY <1>2
<1>4. Cardinality(0..n) = n + 1
  BY <1>1, MomentsCounted
<1>5. Changes' = n
  BY <1>1, <1>3, <1>4 DEF Changes
<1>0. history \in [0..Changes -> BOOLEAN] /\ \A k \in 0..n : k <= Changes => k \in 0..Changes
  BY <1>1 DEF LedgerInv
<1>9. history'[n] = (bad' = {}) /\ \A k \in 0..Changes : history'[k] = history[k]
  BY <1>1, <1>2
<1> HIDE DEF n
<1>6. history' \in [0..n -> BOOLEAN]
  BY <1>0, <1>2
<1> QED BY <1>5, <1>6, <1>9 DEF n

(* What is sound or in order stays so when the ledger changes.              *)
LEMMA StaysSound ==
  ASSUME LedgerInv, NEW b, Change(b)
  PROVE  /\ \A a \in Results : Sound(a, Changes, history) => Sound(a, Changes', history')
         /\ \A r : JobInv(r, Changes, history) => JobInv(r, Changes', history')
<1>1. /\ Changes \in Nat /\ Changes' = Changes + 1
      /\ \A k \in 0..Changes : history'[k] = history[k]
  BY ChangeAdds, BoundsAreNat DEF LedgerInv
<1>2. \A a \in Results : a.asked \in Nat
  BY BoundsAreNat DEF Results
<1>3. \A a \in Results : Sound(a, Changes, history) => Sound(a, Changes', history')
  <2> SUFFICES ASSUME NEW a \in Results, NEW k \in a.asked..Changes, a.valid = history[k]
               PROVE  k \in a.asked..Changes' /\ a.valid = history'[k]
    BY DEF Sound
  <2> QED BY <1>1, <1>2
<1>4. \A r \in Jobs : r.answer \in Results /\ r.asked \in Nat
  BY BoundsAreNat DEF Jobs
<1> QED BY <1>1, <1>3, <1>4 DEF JobInv

(* The ledger changed from elsewhere or by a demo call of the page.         *)
LEMMA LedgerChanges ==
  ASSUME LedgerInv, NEW b \in SUBSET (1..entries), Changes < MaxChanges, Change(b),
         UNCHANGED <<known, entries, fixed>>
  PROVE  LedgerInv'
<1>1. Changes' \in 0..MaxChanges
  BY ChangeAdds, BoundsAreNat DEF LedgerInv
<1>2. bad' = b
  BY DEF Change
<1> QED BY <1>1, <1>2, ChangeAdds DEF LedgerInv, fixed

(* A click that launches calls that are in order.                           *)
LEMMA LaunchFits ==
  ASSUME LedgerInv, JobsInv, NEW s, Launch(s), UNCHANGED ledger,
         \A r \in s : JobInv(r, Changes, history)
  PROVE  JobsInv'
<1>1. PICK slot : job' = [j \in Job |-> IF \E a \in s : slot[a] = j
                                       THEN CHOOSE a \in s : slot[a] = j ELSE job[j]]
  BY DEF Launch
<1>2. \A j \in Job : job'[j] = job[j] \/ job'[j] \in s
  BY <1>1
<1>3. \A j \in Job : JobInv(job'[j], Changes, history)
  BY <1>2 DEF JobsInv
<1>4. job' \in [Job -> Jobs]
  BY <1>1, <1>3 DEF JobInv
<1> QED BY <1>3, <1>4 DEF JobsInv, ledger, Changes

(* The calls that clicks launch are in order.                               *)
LEMMA StartedFits ==
  ASSUME LedgerInv
  PROVE  /\ \A d \in {"load", "verify", "tamper", "restore"}, at \in {"load", "verify", "demand"} :
              JobInv(Started(d, at), Changes, history)
         /\ JobInv(handleVerifyChain, Changes, history)
         /\ JobInv(Idle, Changes, history)
<1>1. 0 \in 0..MaxEntries /\ 0 \in 0..MaxChanges /\ Changes \in 0..MaxChanges /\ 0 <= Changes
  BY BoundsAreNat DEF LedgerInv
<1>2. Null \in Results /\ Null.from = "none"
  BY <1>1 DEF Null, Answer, Results
<1>3. \A d \in {"nothing", "load", "verify", "tamper", "restore"},
        at \in {"done", "load", "verify", "demand"}, n \in {0, Changes} :
        JobInv([does |-> d, at |-> at, answer |-> Null, asked |-> n], Changes, history)
  BY <1>1, <1>2 DEF JobInv, Sound, Jobs
<1> QED BY <1>3 DEF HandlerCall, Started, Idle, handleVerifyChain

(* One call goes on as r, while the ledger stays as it is.                  *)
LEMMA JobGoesOn ==
  ASSUME JobsInv, UNCHANGED ledger, NEW j \in Job, NEW r, JobInv(r, Changes, history),
         job' = [job EXCEPT ![j] = r]
  PROVE  JobsInv'
<1>1. r \in Jobs
  BY DEF JobInv
<1> QED BY <1>1 DEF JobsInv, ledger, Changes

(* An answer of GET /audit/verify-chain is sound when it is given.          *)
LEMMA AnswerSound ==
  ASSUME LedgerInv, JobsInv, NEW j \in Job, NEW a \in verify_chain(j)
  PROVE  a \in Results /\ Sound(a, Changes, history)
<1>1. job[j].asked \in 0..MaxChanges /\ job[j].asked <= Changes
  BY DEF JobsInv, JobInv, Jobs
<1>2. 0 \in 0..MaxEntries /\ 0 \in 0..MaxChanges /\ Changes \in Nat
  BY BoundsAreNat DEF LedgerInv
<1>3. a \in {Failed, verify_postgres_chain, verify_ledger(j)}
  BY DEF verify_chain
<1>4. CASE a \in {Failed, verify_postgres_chain, Answer(TRUE, 0, "forgotten", 0)}
  <2>1. PICK n \in 0..MaxEntries, f \in {"failed", "mirror", "forgotten"} :
          a = [valid |-> TRUE, total |-> n, from |-> f, asked |-> 0]
    BY <1>2, <1>4 DEF LedgerInv, Failed, verify_postgres_chain, Answer
  <2> QED BY <1>2, <2>1 DEF Results, Sound
<1>5. CASE a = Answer(Clean, entries, "ledger", job[j].asked)
  <2>1. Changes \in job[j].asked..Changes
    BY <1>1, <1>2, BoundsAreNat
  <2>2. Clean \in BOOLEAN /\ history[Changes] = Clean
    BY DEF Clean, LedgerInv
  <2>3. /\ a.valid = Clean /\ a.asked = job[j].asked /\ a \in [valid : {Clean},
             total : {entries}, from : {"ledger"}, asked : {job[j].asked}]
    BY <1>5 DEF Answer
  <2>4. a \in Results
    BY <1>1, <2>2, <2>3 DEF Results, LedgerInv
  <2> QED BY <2>1, <2>2, <2>3, <2>4 DEF Sound
<1> QED BY <1>3, <1>4, <1>5 DEF verify_ledger

-----------------------------------------------------------------------------
(* Every step keeps the invariant.                                          *)
LEMMA ElsewhereKeeps ==
  ASSUME Inv, Append \/ TamperElsewhere \/ RestoreElsewhere \/ Restart PROVE Inv'
<1>1. CASE Append \/ Restart
  <2>1. /\ history' = history /\ bad' = bad /\ view' = view /\ job' = job /\ known' \in BOOLEAN
        /\ entries' \in 0..MaxEntries /\ entries' >= entries
        /\ page' = page /\ mode' = mode /\ isAdmin' = isAdmin
    <3>1. /\ entries \in Nat /\ MaxEntries \in Nat /\ entries \in 0..MaxEntries
          /\ entries >= entries
      BY BoundsAreNat DEF Inv, LedgerInv
    <3>2. CASE Append
      BY <3>1, <3>2 DEF Append, fixed, Inv, LedgerInv
    <3>3. CASE Restart
      BY <3>1, <3>3 DEF Restart, fixed
    <3> QED BY <1>1, <3>2, <3>3
  <2>2. bad' \subseteq 1..entries'
    BY <2>1, BoundsAreNat DEF Inv, LedgerInv
  <2>3. LedgerInv'
    BY <2>1, <2>2 DEF Inv, LedgerInv, Changes
  <2> QED BY <2>1, <2>3 DEF Inv, JobsInv, ViewInv, Changes
<1>2. CASE TamperElsewhere \/ RestoreElsewhere
  <2>1. PICK b \in SUBSET (1..entries) : Change(b)
    <3>1. entries \in Nat /\ bad \subseteq 1..entries
      BY BoundsAreNat DEF Inv, LedgerInv
    <3>2. Tamperable \subseteq 1..entries
      BY <3>1 DEF Tamperable
    <3>3. CASE TamperElsewhere
      BY <3>1, <3>2, <3>3 DEF TamperElsewhere
    <3>4. CASE RestoreElsewhere
      BY <3>4 DEF RestoreElsewhere
    <3> QED BY <1>2, <3>3, <3>4
  <2>2. /\ Changes < MaxChanges /\ view' = view /\ job' = job
        /\ UNCHANGED <<known, entries, fixed>>
    BY <1>2 DEF TamperElsewhere, RestoreElsewhere
  <2>3. LedgerInv'
    BY <2>1, <2>2, LedgerChanges DEF Inv
  <2>4. JobsInv' /\ ViewInv'
    BY <2>1, <2>2, StaysSound DEF Inv, JobsInv, ViewInv, Views
  <2> QED BY <2>3, <2>4 DEF Inv
<1> QED BY <1>1, <1>2

LEMMA ServeVerifyKeeps == ASSUME Inv, NEW j \in Job, ServeVerify(j) PROVE Inv'
<1>1. PICK a \in verify_chain(j) :
        job' = [job EXCEPT ![j].at = "verified", ![j].answer = a, ![j].asked = 0]
  BY DEF ServeVerify
<1> DEFINE r == [job[j] EXCEPT !.at = "verified", !.answer = a, !.asked = 0]
<1>2. UNCHANGED ledger /\ LedgerInv' /\ ViewInv'
  BY DEF ServeVerify, Inv, LedgerInv, ViewInv, ledger, fixed, Changes
<1>3. a \in Results /\ Sound(a, Changes, history)
  BY AnswerSound DEF Inv
<1>4. r \in Jobs /\ r.answer = a /\ r.asked = 0 /\ 0 <= Changes
  <2>1. 0 \in 0..MaxChanges /\ 0 <= Changes
    BY BoundsAreNat DEF Inv, LedgerInv
  <2>2. job[j] \in Jobs
    BY DEF Inv, JobsInv
  <2> QED BY <1>3, <2>1, <2>2 DEF Jobs
<1>5. job' = [job EXCEPT ![j] = r]
  BY <1>1 DEF Inv, JobsInv
<1> HIDE DEF r
<1>6. JobInv(r, Changes, history)
  BY <1>3, <1>4 DEF JobInv
<1> QED BY <1>2, <1>5, <1>6, JobGoesOn DEF Inv

LEMMA ServeDemandKeeps == ASSUME Inv, NEW j \in Job, ServeDemand(j) PROVE Inv'
<1> DEFINE r == [job[j] EXCEPT !.at = "demanded"]
<1>1. job' = [job EXCEPT ![j] = r]
  BY DEF ServeDemand, Inv, JobsInv
<1>2. r \in Jobs /\ r.answer = job[j].answer /\ r.asked = job[j].asked
  BY DEF Inv, JobsInv, JobInv, Jobs
<1> HIDE DEF r
<1>3. JobInv(r, Changes, history)
  BY <1>2 DEF Inv, JobsInv, JobInv
<1>4. r \in Jobs /\ \A i \in Job : JobInv(job'[i], Changes, history)
  BY <1>1, <1>2, <1>3 DEF Inv, JobsInv
<1>5. job' \in [Job -> Jobs]
  BY <1>1, <1>4 DEF Inv, JobsInv
<1>6. CASE UNCHANGED <<bad, history>>
  <2>1. LedgerInv' /\ ViewInv' /\ Changes' = Changes
    BY <1>6 DEF ServeDemand, Inv, LedgerInv, ViewInv, fixed, Changes
  <2> QED BY <1>4, <1>5, <1>6, <2>1 DEF Inv, JobsInv
<1>7. CASE demo_tamper \/ demo_restore
  <2>1. PICK b \in SUBSET (1..entries) : Change(b)
    BY <1>7, BoundsAreNat DEF demo_tamper, demo_restore, Accepts, Inv, LedgerInv
  <2>2. /\ Changes < MaxChanges /\ view' = view
        /\ UNCHANGED <<known, entries, fixed>>
    BY <1>7 DEF demo_tamper, demo_restore, Accepts, ServeDemand
  <2>3. LedgerInv'
    BY <2>1, <2>2, LedgerChanges DEF Inv
  <2>4. JobsInv' /\ ViewInv'
    BY <1>4, <1>5, <2>1, <2>2, StaysSound DEF Inv, JobsInv, ViewInv, Views
  <2> QED BY <2>3, <2>4 DEF Inv
<1> QED BY <1>6, <1>7 DEF ServeDemand

LEMMA TakeDemandKeeps == ASSUME Inv, NEW j \in Job, TakeDemand(j) PROVE Inv'
<1> DEFINE r == [job[j] EXCEPT !.at = "load"]
<1>1. job' = [job EXCEPT ![j] = r] /\ UNCHANGED ledger /\ LedgerInv'
  BY DEF TakeDemand, Inv, JobsInv, LedgerInv, ledger, fixed, Changes
<1>2. r \in Jobs /\ r.answer = job[j].answer /\ r.asked = job[j].asked
  BY DEF Inv, JobsInv, JobInv, Jobs
<1> HIDE DEF r
<1>3. JobInv(r, Changes, history)
  BY <1>2 DEF Inv, JobsInv, JobInv
<1>4. view' \in Views /\ view'.result = view.result
  BY DEF TakeDemand, Loading, Inv, ViewInv, Views
<1>5. ViewInv'
  BY <1>1, <1>4 DEF Inv, ViewInv, ledger, Changes
<1> QED BY <1>1, <1>3, <1>5, JobGoesOn DEF Inv

LEMMA FinishLoadKeeps == ASSUME Inv, NEW j \in Job, FinishLoad(j) PROVE Inv'
<1> DEFINE r == IF job[j].does = "load" THEN Idle
                ELSE [job[j] EXCEPT !.at = "verify", !.asked = Changes]
<1>1. job' = [job EXCEPT ![j] = r] /\ history' = history /\ bad' = bad /\ entries' = entries
  BY DEF FinishLoad, Inv, JobsInv
<1>2. LedgerInv'
  BY <1>1 DEF FinishLoad, Inv, LedgerInv, fixed, Changes
<1>3. JobInv(r, Changes, history)
  <2>1. JobInv(Idle, Changes, history)
    BY StartedFits DEF Inv
  <2> DEFINE q == [job[j] EXCEPT !.at = "verify", !.asked = Changes]
  <2>2. q \in Jobs /\ q.answer = job[j].answer /\ q.asked = Changes /\ Changes <= Changes
    <3>1. Changes \in 0..MaxChanges /\ Changes <= Changes
      BY BoundsAreNat DEF Inv, LedgerInv
    <3>2. job[j] \in Jobs
      BY DEF Inv, JobsInv
    <3> QED BY <3>1, <3>2 DEF Jobs
  <2> HIDE DEF q
  <2>3. JobInv(q, Changes, history)
    BY <2>2 DEF Inv, JobsInv, JobInv
  <2> QED BY <2>1, <2>3 DEF q
<1> HIDE DEF r
<1>4. JobsInv'
  <2>1. r \in Jobs
    BY <1>3 DEF JobInv
  <2> QED BY <1>1, <1>3, <2>1 DEF Inv, JobsInv, Changes
<1>5. view' \in Views /\ view'.result = view.result
  <2>1. view \in Views /\ 0..entries \subseteq 0..MaxEntries
    BY BoundsAreNat DEF Inv, ViewInv, LedgerInv
  <2> QED BY <2>1 DEF FinishLoad, Views
<1>6. ViewInv'
  BY <1>1, <1>5 DEF Inv, ViewInv, Changes
<1> QED BY <1>2, <1>4, <1>6 DEF Inv

LEMMA TakeVerifyKeeps == ASSUME Inv, NEW j \in Job, TakeVerify(j) PROVE Inv'
<1>1. job' = [job EXCEPT ![j] = Idle] /\ UNCHANGED ledger /\ LedgerInv'
  BY DEF TakeVerify, Inv, LedgerInv, ledger, fixed, Changes
<1>2. JobsInv'
  BY <1>1, StartedFits, JobGoesOn DEF Inv
<1>3. job[j].answer \in Results /\ Sound(job[j].answer, Changes, history)
  BY DEF Inv, JobsInv, JobInv, Jobs
<1>4. Null \in Results /\ Null.from = "none"
  BY BoundsAreNat DEF Null, Answer, Results
<1> DEFINE a == Result(job[j].answer)
<1>5. a \in {job[j].answer, Null, view.result}
  BY DEF Result
<1> HIDE DEF a
<1>6. a \in Results /\ Sound(a, Changes, history)
  BY <1>3, <1>4, <1>5 DEF Inv, ViewInv, Views, Sound
<1>7. view' \in Views /\ view'.result = a
  <2> DEFINE v == setVerificationResult(view, j)
  <2>1. v \in Views /\ v.result = a
    BY <1>6 DEF setVerificationResult, Inv, ViewInv, Views, a
  <2>2. view' = FinishDemo(v, j)
    BY DEF TakeVerify
  <2> HIDE DEF v
  <2> QED BY <2>1, <2>2 DEF FinishDemo, Views
<1>8. ViewInv'
  BY <1>1, <1>6, <1>7 DEF ViewInv, ledger, Changes
<1> QED BY <1>1, <1>2, <1>8 DEF Inv

LEMMA ClickKeeps ==
  ASSUME Inv, \/ ClickVerify \/ handleRunIntegrityScan \/ ClickRefresh \/ ClickRetry
              \/ handleTamper \/ handleRestore
  PROVE  Inv'
<1>1. UNCHANGED ledger /\ LedgerInv'
  BY DEF ClickVerify, handleRunIntegrityScan, ClickRefresh, ClickRetry, handleTamper,
         handleRestore, Inv, LedgerInv, ledger, fixed, Changes
<1>2. PICK s : Launch(s) /\ \A r \in s : JobInv(r, Changes, history)
  <2>1. \A r \in MountCalls \cup refreshAll \cup {fetchAuditLogs} : JobInv(r, Changes, history)
    BY StartedFits DEF Inv, MountCalls, refreshAll, fetchAuditLogs, fetchEvents
  <2>2. CASE ClickVerify \/ handleRunIntegrityScan
    BY <2>2, StartedFits DEF ClickVerify, handleRunIntegrityScan, Inv
  <2>3. CASE ClickRefresh \/ ClickRetry
    BY <2>1, <2>3 DEF ClickRefresh, ClickRetry
  <2>4. CASE handleTamper \/ handleRestore
    BY <2>4, StartedFits DEF handleTamper, handleRestore, Inv
  <2> QED BY <2>2, <2>3, <2>4
<1>3. JobsInv'
  BY <1>1, <1>2, LaunchFits DEF Inv
<1>4. Null \in Results /\ Null.from = "none"
  BY BoundsAreNat DEF Null, Answer, Results
<1>5. view \in Views
  BY DEF Inv, ViewInv
<1>6. view' \in Views /\ view'.result \in {view.result, Null}
  <2>1. CASE ClickVerify
    BY <1>5, <2>1 DEF ClickVerify, Verifying, Views
  <2>2. CASE handleRunIntegrityScan
    BY <1>4, <1>5, <2>2 DEF handleRunIntegrityScan, Verifying, Views
  <2>3. CASE ClickRefresh \/ ClickRetry
    BY <1>5, <2>3 DEF ClickRefresh, ClickRetry, Refreshing, Loading, Verifying, Views
  <2>4. CASE handleTamper \/ handleRestore
    BY <1>5, <2>4 DEF handleTamper, handleRestore, Views
  <2> QED BY <2>1, <2>2, <2>3, <2>4
<1>7. ViewInv'
  BY <1>1, <1>4, <1>6 DEF Inv, ViewInv, Sound, ledger, Changes
<1> QED BY <1>1, <1>3, <1>7 DEF Inv

LEMMA InitFits == Init => Inv
<1> SUFFICES ASSUME Init PROVE Inv
  OBVIOUS
<1>1. history \in [0..0 -> BOOLEAN] /\ history[0] = TRUE /\ DOMAIN history = 0..0
  BY DEF Init
<1>2. Changes = 0
  <2>1. 0 \in Nat
    OBVIOUS
  <2>2. Cardinality(0..0) = 0 + 1
    BY <2>1, MomentsCounted
  <2> QED BY <1>1, <2>2 DEF Changes
<1>3. LedgerInv
  <2>1. bad = {} /\ entries = 0 /\ known = TRUE /\ page \in Pages /\ isAdmin \in BOOLEAN
        /\ mode \in {"mock", "fabric"}
    BY DEF Init
  <2>2. 0 \in 0..MaxChanges /\ 0 \in 0..MaxEntries
    BY BoundsAreNat
  <2>3. history[Changes] = (bad = {})
    BY <1>1, <1>2, <2>1
  <2> QED BY <1>1, <1>2, <2>1, <2>2, <2>3 DEF LedgerInv
<1>4. \A j \in Job : JobInv(job[j], Changes, history)
  BY <1>3, StartedFits DEF Init
<1>5. JobsInv
  BY <1>4 DEF Init, JobsInv, JobInv
<1>6. Null \in Results /\ Null.from = "none"
  BY BoundsAreNat DEF Null, Answer, Results
<1>7. Fresh \in Views /\ Fresh.result = Null
  BY <1>6, BoundsAreNat DEF Fresh, Views
<1>8. view \in Views /\ view.result = Null
  BY <1>7 DEF Init, Refreshing, Loading, Verifying, Views
<1> QED BY <1>3, <1>5, <1>6, <1>8 DEF Inv, ViewInv, Sound

LEMMA StepKeeps == Inv /\ [Next]_vars => Inv'
<1> SUFFICES ASSUME Inv, [Next]_vars PROVE Inv'
  OBVIOUS
<1>1. CASE UNCHANGED vars
  BY <1>1 DEF vars, ledger, fixed, Inv, LedgerInv, JobsInv, ViewInv, Changes
<1>2. CASE Next
  BY <1>2, ElsewhereKeeps, ServeVerifyKeeps, ServeDemandKeeps, TakeDemandKeeps,
     FinishLoadKeeps, TakeVerifyKeeps, ClickKeeps DEF Next, Proceed
<1> QED BY <1>1, <1>2

(* A sound answer makes a true verdict, on each of the three pages.         *)
LEMMA SoundIsTrue == Inv => VerdictTrue
<1> SUFFICES ASSUME Inv, view.result.from = "ledger" PROVE VerdictTrue
  BY DEF VerdictTrue
<1>1. PICK k \in view.result.asked..Changes : view.result.valid = history[k]
  BY DEF Inv, ViewInv, Sound
<1>2. view.result.valid \in BOOLEAN /\ page \in Pages
  BY DEF Inv, LedgerInv, ViewInv, Views, Results
<1>3. CASE view.result.valid
  <2>1. Verdict \in {"verified", "empty", "hidden"}
    BY <1>2, <1>3 DEF Verdict, AuditLogVerdict, LedgerStatusVerdict, ScanVerdict,
                      isChainTampered, Pages
  <2>2. MismatchCard = "all valid" /\ history[k] = TRUE
    BY <1>1, <1>2, <1>3 DEF MismatchCard, isChainTampered
  <2> QED BY <1>1, <2>1, <2>2 DEF VerdictTrue
<1>4. CASE ~view.result.valid
  <2>1. Verdict \in {"breach", "hidden"}
    BY <1>2, <1>4 DEF Verdict, AuditLogVerdict, LedgerStatusVerdict, ScanVerdict,
                      isChainTampered, Pages
  <2>2. MismatchCard # "all valid" /\ history[k] = FALSE
    BY <1>1, <1>2, <1>4 DEF MismatchCard, isChainTampered
  <2> QED BY <1>1, <2>1, <2>2 DEF VerdictTrue
<1> QED BY <1>3, <1>4

(* audit.rs verify_chain behind AuditLog, LedgerStatus and Dashboard: each  *)
(* verdict from the ledger was true since it was asked for.                 *)
THEOREM VerdictsTrue == Spec => [](TypeOK /\ VerdictTrue)
<1>1. Inv => TypeOK
  BY DEF Inv, LedgerInv, JobsInv, ViewInv, Views, TypeOK
<1> QED BY <1>1, SoundIsTrue, InitFits, StepKeeps, PTL DEF Spec
=============================================================================
