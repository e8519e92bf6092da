# ChainDock, specified

TLA+ specifications of ChainDock, a case and evidence register for police,
courts and forensic labs whose point is an audit trail that cannot be altered
unnoticed. This directory models the parts of the repository that keep that
promise and the pages that report on it, checks them with TLC on small
instances, and proves most of the results with TLAPS for every instance.

## 1. The system

A React frontend (`src/frontend`) talks to an Axum backend (`src/backend`),
which keeps its data in Postgres and its uploads on a disk volume, and mirrors
every audit event to a Node ledger service (`src/ledger-service`), which stores
it in memory and a JSON file (mock mode) or in a Hyperledger Fabric channel
(fabric mode).

| Part | State it keeps | Operations | Talks to |
|---|---|---|---|
| Audit log (`handlers/audit.rs`, `0005_audit_log.sql`) | table `audit_log`, a SHA-256 chain in `seq` order | `append_entry`, `verify_postgres_chain`, `audit_trail`, `verify_chain`, demo proxies | called by every mutating handler inside its transaction; asks the ledger first when read |
| Cases (`handlers/cases.rs`) | `cases`, `case_assignments` | `create_case`, `assign_user`, reads | audit log, ledger client |
| Documents (`handlers/documents.rs`) | `documents`, files under `DOCUMENTS_DIR` | `upload_document`, list, read, download | audit log, ledger client |
| Evidence (`handlers/evidence.rs`) | `documents` again; custody is a projection of `audit_log` | `create_evidence`, `transfer_custody`, reads | audit log, ledger client |
| Accounts and sessions (`handlers/auth.rs`, `handlers/users.rs`) | `users`, `refresh_tokens` | register, login, refresh, PATCH, me, list | JWT module |
| Extractor (`extractors.rs`, `jwt.rs`) | none: claims travel in the token | `AuthenticatedUser`, `require_role` | every handler |
| Ledger client (`ledger_client.rs`) | none | append with a five-second timeout, reads, demo proxies | ledger service over HTTP |
| Ledger store (`store.ts`, `routes/*.ts`) | entries, known case ids, tamper backups; one JSON file | append, trail, verify, org counts, demo tamper and restore | file system |
| Fabric client (`fabricClient.ts`) | a cached contract and the known case ids, in memory only | `fabricAppend`, `fabricTrail`, known case ids | Fabric, one request per case |
| Chaincode (`chaindockContract.ts`) | entries on the channel, in each peer's CouchDB | `AppendEntry`, `GetHistory`, `GetEntry` | Fabric |
| Browser session (`AuthContext.tsx`, `services/api.ts`) | user, token in session or local storage | restore, login, logout, 401 handling | backend |
| Frontend services (`services/*.ts`) | none | one request, or one per case (`getDocuments`, `getAuditEvents`); a failed part counts as empty | backend |
| Chain monitoring pages (`AuditLog.tsx`, `LedgerStatus.tsx`, part of `Dashboard.tsx`) | the last verdict, the events, one flag each for loading, verifying, tampering, restoring | load, verify, demo tamper and restore | services |
| Case and personnel pages (`Dashboard`, `Cases`, `CaseDetails`, `Documents`, `DocumentDetails`, `Evidence`, `Users`) | what was loaded, an error, a loading flag, the open dialog | load, retry, create, upload, register, transfer, provision, toggle | services, dialogs |
| Dialogs (`CaseForm`, `DocumentUpload`, `EvidenceUpload`, `ChainOfCustodyLog`, `UserProvisionModal`) | a draft and an own submitting flag | submit, close | the page that mounts them |

### What is hard here

* **Concurrency.** Axum runs handlers concurrently and each `await` is a point
  where others proceed. The five mutating handlers run one Postgres transaction
  each and meet at unique indexes, at the advisory lock of `append_entry` and at
  the connection pool. The account handlers run *no* transaction: each of their
  statements commits alone.
* **Failure.** A statement may fail, a client may leave (axum then drops the
  handler at an `await`), the backend may die, the answer to a `COMMIT` may be
  lost. The ledger call comes after the commit and is best-effort: its POST may
  be lost, or land after its five-second timeout.
* **Persistence.** The ledger service rewrites its whole state after each change
  with a write and a rename; a failed save is only warned about. In fabric mode it
  persists nothing: a restart forgets which cases there are.
* **Reading while others write.** No GET runs in a transaction: a list and the
  events of its entries are separate statements, and the audit trail comes from
  the ledger or, when that fails, from Postgres. A fabric verification reads one
  history after another while entries are appended and edited.
* **The browser.** Nothing cancels a call: answers arrive after a logout, a login
  as somebody else, a jump to another case or a reload; several handlers of a page
  run at once and share its flags; tabs share localStorage.
* **Tampering.** The demo endpoints alter a ledger entry without its hash and
  keep a pristine copy for the restore; both must survive restarts. In fabric mode
  the drill edits a document of a peer's CouchDB.

### What makes each part correct

* Audit log: one chain with no fork, rows visible in `seq` order, agreeing with
  the data they record; every alteration of a stored row is found.
* Write path: the write, its audit row and its file land together or not at all;
  the ledger never knows of what Postgres does not; an answered call is recorded
  everywhere it should be or complained about; no deadlock.
* Reads: nothing of other people's cases, nothing uncommitted, no holes.
* Browser session: the user on screen is the one the backend acts for.
* Sessions: one bootstrap account, one use per refresh token, always an active
  admin, nothing new for suspended users. With no transaction around a handler's
  statements each of these can fail when calls overlap; they must not fail otherwise.
* Ledger store: the log grows at its end and loses nothing but what was not saved
  (or, when a boot cannot load the file, everything), tampering is exposed until it
  is restored, and a restore brings back what was appended.
* Fabric verification: what stood edited while it ran is reported, what nobody
  edited is not, and what this process acknowledged is covered.
* Monitoring pages: a verdict on screen was true at some moment since it was
  asked for, and no spinner stays.
* Other pages: at rest they show what their user was told is stored, of the case
  in the URL only; no form is submitted twice; no flag outlives its call.

## 2. Modules

`HashChain` — the abstract specification of the audit log: entries that only
accumulate, each linked to the one before it, and a head the next one extends.

`AuditTrail` — the write path. A `Request` is one HTTP call; `pc[r]` says where
its handler stands between two `await`s. Because `Uuid::new_v4` never repeats, a
request also names the case or document it creates.

| Action | Code |
|---|---|
| `Receive` | JWT extractor and `require_role` |
| `CheckCaseExists`, `FetchDocument`, `CheckAccess` | the reads before the transaction: `assign_user`'s case, `transfer_custody`'s document, `assert_case_access` |
| `WriteFile` | the upload's file, written before the transaction opens |
| `Begin` | `pool.begin()`: the transaction takes a pool connection, and keeps it through all its waiting |
| `StageRows` | the domain inserts; a violated key answers with an error, a key held by an open transaction waits |
| `LockChain`, `ReadLastHash`, `InsertAuditRow` | the three statements of `append_entry` |
| `Commit`, `CommitAnswerLost` | `COMMIT`, answered or not |
| `PostToLedger`, `LedgerAnswers`, `LedgerCallFails` | `append_ledger_entry` and the `tracing::error!` on failure |
| `ReadBack` | the evidence handlers' reads before they answer |
| `LedgerAppends`, `PostLost` | the network and the ledger service; in mock mode the entry goes to memory and, unless the save fails, to the file |
| `LedgerRestarts` | the mock service comes back with what its file holds, or with nothing |
| `Fail`, `Disconnect`, `Crash` | `?` with rollback, a dropped future, process death |

Rows of an open transaction are visible to nobody, so they appear in the tables
at `Commit`; the uniqueness conflicts they cause before that are `Waits`. The
`BIGSERIAL` value is drawn at the insert and stays used after a rollback.
SHA-256 is taken as injective on the concatenated string; since an absent id
leaves nothing in that string, the two ids are hashed as the sequence of those
present. A role is fixed per user here: it stands for the role claim in the JWT,
which is what the handlers look at. Documents are never deleted, assignments never taken
back, because no endpoint does either. `LedgerMode` says which ledger runs: the mock one
may lose entries again (`lost` keeps which), a Fabric channel does not.

`AuditViews` — the read side, extending `AuditTrail`. A `Reader` is one GET; `Ask`
chooses its endpoint, and each SELECT or ledger call after that is one action
(`FindRow`, `Authorize`, `ListCases`, `ListEvidence`, `ListDocuments`, `ReadEvents`
once per document, `ReadFile`, `AskLedger`, `LedgerUnreachable`, `ReadMirror`), with
the writers' steps in between. `shown` keeps what was read as ids and rows of
`audit_log`. A ledger entry stands for the row it mirrors: altering the ledger is
the subject of `LedgerStore`, and what a *tampered* ledger's trail shows is not
modelled. What a ledger that has *lost* entries shows is: `audit_trail` answers from it
without them. The behaviours start with one case opened, there being nothing to read before.

`DurableLog` — the abstract specification of the ledger's log: it grows at its
end, the file holds an earlier state of it, and a crash goes back to that state
(`Lose`), or to nothing when the file cannot be read (`Forget`).

`LedgerStore` — the ledger service in mock mode. Node runs a handler to its end,
so a handler is one action (`mockAppend`, `TamperById`, `mockTamperLatest`,
`RestoreById`, `RestoreAll`); `Persist` is its effect on memory and file, with
the three outcomes of `saveToDisk`: saved, failed and swallowed, or saved and
then dead before the answer. `Crash` and `Boot` make restarts; `loadFromDisk` succeeds
(`Loaded`) or finds no file, or none it can read or parse (`Unloaded`), which the code
only warns about: it starts empty, and its next save overwrites the file.
`actorId`, `documentId` and `orgId` are hashed like `caseId` and `action` and are
left out. `DemoAssumption` says that no append carries the action name the tamper
demo writes: the route itself would take any string (`entries.ts:9-46`), but its one
caller, `audit.rs`, only sends the four of its own.

`FabricLedger` — the ledger service in fabric mode. A call keeps, for each case it
addresses, whether it waits for a gateway, for the peer, or for the continuation
of the peer's answer; an unscoped verification addresses all known cases at once.

| Action | Code |
|---|---|
| `PostEntry`, `GetTrail`, `GetVerify` | the route, up to the first `await` of `getContract` |
| `Connect` | a gateway is open and cached, or could not be opened |
| `submitTransaction` | the chaincode's `AppendEntry` ordered; or refused; or failed for the caller and ordered later (an *orphan*) |
| `evaluateTransaction` | `GetHistory` of one case |
| `Continue` | the code after the answer: `trackCaseId`, and the end of the call when it was the last |
| `Edit` | somebody changes, moves, deletes or puts back a document in CouchDB |
| `Restart` | the process dies; submitted transactions may still be ordered |

The hash of an entry is the tuple of the fields it was computed from, with the
org the chaincode normalised. `computeEntryHash` (`store.ts:39-46`) concatenates them without
separators, so that an edit which moves characters from one field to the next would go
unseen; the edits modelled replace one field's value, which cannot. `stood` and `owed` are history: which entries stand
edited since the verification came, and which this process had acknowledged by then.

`Sessions` — accounts and sessions, one action per SQL statement, with `seen[r]`
the row a handler read and goes on to use. Calls overlap statement by statement, and
each may die half-way (`Abandon`); `Overlap` bounds how many are in flight. `met[r]` is
history: the calls `r` was in flight with. With it a property can say exactly when
a promise may be broken, by calls that met and by no others. JWTs are sets of claims that only expiry
removes. The `investigator` role is left out: no check in this component tells it
from `supervisor`.

`ClientSession` — the browser: per tab AuthContext's `user` and `isLoading`, the
route, sessionStorage and the API calls in flight; localStorage is shared.
`Mount` is a page load (with `restoreSession`), `Submit`, `enterEvaluationSession`,
`logout`, `Navigate` and `Ask` are clicks, `RestoreAnswered`, `LoggedIn`, `LoginFailed`
and `PageAnswered` process an answer. The backend is external here: `Answers(c)`
are the answers it may give, a token being accepted if it was valid when the call
left and refused if it is not valid when the answer arrives; both are what some
moment in between allows, since a token that has expired stays so. `hurried` is a
history variable: the login page was used before the restore was answered. The
frontend never uses its refresh token, so a session ends when its JWT expires. A tab has
one login under way: that is the login form's own loading state, so that the second submission
of a form left and mounted again while the first is under way is left out.

`ChainMonitor` — what three pages say about the chain. `view` is the mounted page's
React state, `job[j]` one call of a handler with how far it is. `ServeVerify` is
`GET /audit/verify-chain` with its fallback from the ledger to the Postgres mirror,
`ServeDemand` the demo proxies; `TakeDemand`, `FinishLoad` and `TakeVerify` are the
continuations up to the next `await`; the clicks are `ClickVerify`, `ClickRefresh`,
`ClickRetry`, `handleRunIntegrityScan`, `handleTamper` and `handleRestore`, guarded by what is
rendered and enabled. Meanwhile `Append`, `TamperElsewhere`, `RestoreElsewhere` and
`Restart` happen to the ledger. `history` records whether the ledger was clean after each
change, and an answer carries the moment its question was put.

`ClientPages` — the seven pages with data, one of them mounted. `Plan` is the
sequence of requests a page's load makes, and `Scope` which items each answers
with; an item's content is the number of times it was written. `TakeLoad` takes one
answer (of the first request a failure is fatal, of the others it counts as
empty), `ServeWrite` commits, refuses, or commits and loses the answer, and
`TakeCreated`, `TakeUploaded`, `TakeToggled`, `TakeRefused` are the handlers'
continuations: the optimistic row, the awaited or unawaited reload, the finally
blocks. `Mounted` and `Render` say which dialogs are mounted, an unmounting one
forgetting that it was submitting. `GoTo` is a jump in the browser's history between
two cases, which reuses the component. Evidence is the documents table: an upload and a registration each
add to what the documents *and* the evidence lists are answered with, a transfer changes
the evidence alone (`Changed`). `Elsewhere` is another officer's write.
`overlapped` is a history variable: calls of this page overlapped since the last load that ran alone.

`AuditTrail_proofs`, `AuditViews_proofs`, `LedgerStore_proofs`, `Sessions_proofs`, `ClientSession_proofs`,
`FabricLedger_proofs`, `ChainMonitor_proofs`, `ClientPages_proofs` — theorems about them (section 5).

`MCAuditTrail`, `MCAuditViews`, `MCLedgerStore`, `MCSessions`, `MCClientSession`,
`MCFabricLedger`, `MCChainMonitor`, `MCClientPages` give the constants values.
`MCAuditTrail`, `MCAuditViews` and `MCSessions` also define a `VIEW`, which lets TLC take for one two states that differ
only in what no action or property looks at again: the request and row of a
call that ended without committing, a last hash already used, what an answered
account call had asked for, the calls it met that no property pairs with it. States it merges
allow the same steps with the same results, and the same properties are true of them.

In each module, operators marked `\* mutant` are plausible mistakes (a dropped
lock, a missing reset) kept next to what they would replace: with one of
them in place TLC refutes the property that guards against it. They take no part
in the specifications.

## 3. Runs

| Run | Bounds | Shows |
|---|---|---|
| `audit_chain` | 3 calls of any kind, 1 supervisor, 1 investigator, 1 case number, 2 connections, a clock with 2 ticks to the microsecond, fabric mode | seven invariants of the audit log, and that it refines `HashChain`: rows stay and become visible in `seq` order; the walk accuses untouched rows only for rounding, and finds edits, resealed edits and removals |
| `audit_live` | 3 calls (create a case, record evidence), 2 connections, fabric mode | every call ends |
| `audit_clock` | 2 calls, a clock with 2 ticks to the microsecond | *violated*: an untouched chain fails its own verification |
| `audit_gap` | 2 calls | *violated*: a committed write can miss the ledger silently |
| `audit_views` | a case opened, then 2 more calls of any other kind and 1 read of any endpoint, 2 connections, mock mode with failed saves and restarts | the ledger follows Postgres, an answered write is recorded or complained about, and five properties of what a reader is shown |
| `store_faulty` | 3 entries, 2 timestamps, saves and loads may fail | tampering is exposed and reversible, whatever fails; refines `DurableLog` |
| `fabric` | 2 calls, 2 cases, 2 timestamps, 2 entries, 1 edit, an org outside the known list | a verification accuses nobody wrongly, reports what stood edited, covers what was acknowledged |
| `sessions_overlap` | 4 calls of any kind, two at a time, 2 addresses | administrators come from administrators; the five promises of `auth.rs` and `users.rs` are broken only by calls that overlapped (that of the revocation also by a suspension that broke off half-way) |
| `sessions_lastadmin` | 4 calls, two at a time | *violated*: two admins suspend or demote each other |
| `client_session` | 2 tabs, 2 officers, 2 tokens, 2 calls in flight per tab | user and token agree, the evaluation user is powerless, the spinner ends |
| `monitor_pages` | any of 3 pages, 2 handler calls in flight, 1 entry, 2 changes of the ledger | verdicts were true, spinners and buttons end |
| `pages` | any of 7 pages, 2 cases or officers, 2 handler calls in flight, 1 write | own writes shown, one case at a time, one submission, no stuck flag, no double row |

Why the bounds are enough. A fork of the chain, a key conflict or a lock cycle
needs two writers; the third call of `audit_chain` supplies what they depend on
(the case, or the document a transfer names) or a successor row for the removal
test. Two connections for three calls exhaust the pool. One case number makes
every pair of `create_case` calls conflict. Two clock readings, one of them
between two microseconds, give rounded rows next to exact ones; a `created_at` is edited to the other reading
as stored, or to the next microsecond. A mock ledger that may lose entries is
checked in `audit_views`, where the properties about it are; the other properties of the
write path never look at it. In `LedgerStore` three entries give a
first, an inner and a last one, and two timestamps give ties and disagreement
between arrival and timestamp order, which is where `verifyEntries` and
`mockTamperLatest` could differ; `MaxSuffixes` bounds how often an action is
tampered with again, two tamperings being enough to tell a first copy from a
later one. `audit_views` has two writers, so that a second transaction is open
while the first one commits and the reader reads, and one reader, readers having
no effect on each other but for the pool. `ClientSession` needs two tokens to tell
an old session from a new one, two calls in flight for one to overtake the
other, and two tabs for the shared storage. In `Sessions` four calls let one admin
be created, create another, and the two act on each other; with two in flight at a time
every pair of statements of two calls is taken in either order. A fabric verification
overlaps an edit only between two histories, so two cases are needed, and a second entry to
be named or missed; that *several* edits do no harm is not in the run but in the
proof. In `monitor_pages` a change and its undoing give a verdict that was right,
wrong and right again, and a second handler call is what an answer can overtake; one
entry is enough for empty, verified and breach. In `pages` two cases make a jump
possible, the second handler call is the older load, the reopened dialog's
second submission or the second toggle; one write is the user's or somebody else's.

Type invariants are proved rather than run (a theorem each, or a conjunct of one), and so is `CommitsInSeqOrder`, which is
one reading of `ChainSpec`.

Deadlock checking is off where the calls of a behaviour run out, which is the
end of the instance and not of the system (in `pages`, a document's page
at rest has nothing left to do); `LedgerStore`, `FabricLedger`, `ClientSession` and
`ChainMonitor` are checked for it.

### Disagreements met

Refuted by a run:

* `audit_clock`: `append_entry` hashes nanoseconds, Postgres keeps microseconds.
  On any host whose clock is finer than a microsecond (Linux's is) the Postgres walk reports
  a break at the first row. The ledger-first path of `verify_chain` hides this
  until the ledger is unreachable.
* `audit_gap`: the promise that a missing ledger entry is logged does not cover
  a handler dropped, or a process killed, right after the commit.
* `sessions_lastadmin`: the count of other active admins is made in one statement
  and relied on in the next (`users.rs:132`). `LastAdminOverlaps` shows that nothing but such an overlap breaks it.

Met as the limits of a property that holds:

* The mock ledger loses entries it has acknowledged: one whose save failed
  (`store.ts:112`) at the next crash, and *every* entry, saved or not, when a boot finds the
  file missing or unreadable (`store.ts:119`, `142-144`) and the next save overwrites it. "Every
  mutator saves atomically (tmp + rename)" (`store.ts:76-78`) promises more than that;
  `DurableSpec` allows these two losses and no other.
* `audit_trail` (`audit.rs:252`) answers from the ledger whenever that call succeeds, so that
  such entries are missing from it without a word; `AnsweredWritesShown` exempts them, as
  it does the logged gaps.
* The promises of the account handlers fail for calls that overlap. In each case the
  property of `sessions_overlap` says that nothing else breaks the promise (but, for the third, a PATCH that dies
  between its UPDATE and its DELETE), and the unqualified form, put
  to the same instance, is refuted by a short trace:
  - "first call wins" (`auth.rs:35-37`, `53`): two registrations both count no users, then
    both insert an admin-less account (`BootstrapsOverlap`);
  - "Rotated on every use" (`auth.rs:16-17`): two refreshes both read the unrevoked
    token, then both revoke it and issue a pair (`RotationsOverlap`);
  - the revocation that goes with a suspension (`users.rs:164-165`): a login, registration or
    refresh reads the active user, the PATCH suspends and deletes the tokens, and
    the call then inserts a live one (`SuspensionEndsSessions`); an access token handed out before
    is accepted until it expires in any case, the extractor looking at nothing else;
  - a PATCH writes every column from the row it read (`users.rs:123`): of two on one user the
    later write undoes the earlier, a suspension included (`ChangedAsAsked`).
* `ActsAsShown` excludes a restore answered after the login page was used
  (`hurried`), since its late answer replaces the user without the token, and a tab that
  lives on localStorage alone, since another tab may log in as somebody else
  underneath it.
* After a restart in fabric mode no case is known, and an unscoped verification
  answers valid over 0 entries, where the repository's `README.md:38-41` promises
  "the exact break point if tampered"; `AckedCovered` speaks of one life of the process.
* An edit of `caseId` or `docType` in CouchDB takes the entry out of its
  history: it is then read under another case, or not at all. `TamperReported` counts
  entries where they stand.
* `fabricClient.ts:5` says "Lazy-connects a single Gateway": concurrent first
  requests each open one, and the last to connect stays cached.
* `services/audit.ts:91` says a true answer to a tamper request "is immediately followed by the red INTEGRITY BREACH
  state": the load or the verification after it may fail, and somebody may restore
  in between. `handleRestore` likewise says "integrity verified" whatever came of its
  verification.
* When the ledger cannot be reached, the mirror's answer is shown like the
  ledger's, though it knows nothing of a tampered ledger; `VerdictTrue` is about
  answers from the ledger.
* `OwnWritesShown`, `OneDossier` exclude overlapping loads: an older one may
  finish last and put back what was there before, or another case's parts.
* `SubmitOnce` excludes `Dashboard` and `CaseDetails`, which unmount a closed or hidden dialog:
  it forgets that it is submitting, and can be submitted again.
* `DocumentDetails` offers a tamper toggle and a finalize button whose routes
  the backend does not have (`frontend/README.md:36`, `147-153`).

## 4. Fairness

`audit_live` assumes weak fairness of `Handle(r)`, the steps of one
handler taken together. Tokio polls every future that is ready; Postgres grants
a lock once its holder ends; the pool hands a free connection to a waiting
handler; and the ledger call has a five-second timeout, so `LedgerCallFails` is always
there for a call that gets no answer. `Begin`, `StageRows` and `LockChain` are
disabled while somebody else holds what they need, so their fairness matters only after
the holder moved on, which is what the code gives. Failures, disconnects,
crashes and the ledger's side are not fair: they may never happen. Handlers do
compete for connections; as the number of calls of an instance is finite, weak
fairness suffices for each to get one.

`monitor_pages` assumes weak fairness of `Proceed(j)`: every fetch is answered or
fails, and the browser runs the continuation. Clicks and what happens to the ledger
are not fair. `SpinnersEnd` holds although a user may click for ever, because
a flag disables the button that would set it again. `pages` assumes nothing: its
safety form of the same concern is `FlagsHaveCause`, whatever spins has a call in
flight that ends it.

## 5. Proofs

Each theorem is about every value of the constants, from the named assumptions
of its module and what is said here.

`AuditTrail_proofs`, for any number of calls, users, case numbers, any
pool size, clock and tick length:

* `ChainCorrect`: `Spec => [](TypeOK /\ ChainLinked)`;
* `CommitOrder`: `Spec => CommitsInSeqOrder`;
* `ChainRefined`: `Spec => ChainSpec`, the refinement of `HashChain`;
* `EventsRecorded`: `Spec => []AnsweredMeansRecorded`;
* `LedgerFollows`: `Spec => []LedgerBacked`;
* `LogMatchesTables`: `Spec => []AuditMatchesData`;
* `CausalOrder`: `Spec => []ChainCausal`;
* `WritesScoped`: `Spec => []InvestigatorScoped`;
* `NumbersUnique`: `Spec => []CaseNumbersUnique`;
* `WalkVerdict`: `Spec => []OnlyRoundingAccused`;
* `WalkExact`: `Spec => []TamperLocated`.

`ChainLinked` alone is not inductive: nothing in it says that the hash a waiting
transaction has read is still the last one when it commits. The invariant
`ChainInv` adds what the lock gives. `TypeInv` is `TypeOK` with the rows' shapes;
`LockInv` says two holders of the advisory lock are one; `HolderInv` says that the
holder's `prev` is the last committed hash, and that its uncommitted row links
to it and carries a `seq` beyond every committed one. A commit then extends the
chain at its end (`CommitStep`), which is all that the first three results need: the links, the
order and the step of `HashChain` are three readings of that lemma. Every other
step leaves the committed log alone (`QuietStep`, `ServiceStep`). `LastOfExtended`
says that a row with the greatest `seq` is the one `LastHash` finds. `EventsRecorded` and `LedgerFollows`
have their own invariant `RecordInv`: past the commit a handler's row is in the log, and
once it answers, its ledger post or its alarm exists.

The next four rest on `DataInv`. What a handler looked up before its transaction must still hold when it commits.
`CallInv(r)` says so: the fresh id is taken by nobody, the case or document found is
still there, an investigator past the check is assigned, and an open
transaction's inserts violate no key. `Apart` says that two open transactions do not
conflict, so the commit of one leaves the other's inserts valid, and `KeysInv` that
ids are keys and references resolve. With these a commit adds a case, an
assignment or a document together with the row that records it (`CommitMatches`),
after the rows it depends on (`CommitCausal`). For the walk nothing is assumed of the clock.
`SealInv` says that every row's hash is that of its fields with the unrounded clock
reading, and that no row has the hash it links to; by `Rounding` the row as stored hashes to it
exactly when the reading was whole microseconds, so that `BrokenSeqs` of the untouched log are its
rounded rows. `IdsTell` shows that the concatenated ids tell a changed id as long as
the case id is there; `FieldTells` and `HashTells` that any edit of a field, `created_at`
and the two hashes included, breaks the link or the hash; and `EditFound`, `ResealFound`,
`RemovalFound` (the last two by `GapFound`: the row behind has lost its predecessor) where the walk then stops.

`AuditViews_proofs`, for any number of readers besides, if `"CREATE_CASE" \in Kind`
(a behaviour opens with a case; the run lets no later call create one, which are
some of the same behaviours):

* `ReadsScoped`: `ViewsSpec => []ReaderScoped`;
* `ReadYourWrites`: `ViewsSpec => []AnsweredWritesShown`;
* `ReadsGapless`: `ViewsSpec => []NothingSkipped`;
* `CustodyComplete`: `ViewsSpec => []CustodyHasOrigin`;
* `FilesServed`: `ViewsSpec => []DownloadServesFile`.

A query is several SELECTs with commits in between, so what the first one found must
still be so at the last. `WritesAdd` says why: a writer's step only adds to the tables
and to the end of the log, and changes nothing of an answered call; what leaves the ledger is in `lost`. Hence `ReaderInv(r)`
survives writers (`WriterReaders`): the document found is there, the
case is one the reader may see (`ScopeInv`), what is shown of a history is its beginning
(`Contiguous`), the documents done have their upload event (`Originated`). To a query's own
steps the write path lends `DataInv`, `RecordInv` and `RefInv` (`TablesKnown`): an event's document is of
the event's case, every document has its `UPLOAD` row, a file named by a row is stored.

`LedgerStore_proofs`:

* `StoreAgrees`: `Spec => [](TypeOK /\ StoreConsistent)`;
* `AlterationsExposed`: `Spec => []TamperExposed`;
* `RestoreHeals`: `Spec => []RestoreWouldHeal`;
* `StoreRefinesLog`: `Spec => DurableSpec`.

`StoreInv` holds of the memory and, separately, of the file: ids are distinct and every entry is
`Sealed`. Its hash is that of a posted action; if it has a backup, the backup is that
entry with that action and the entry itself stands altered, else it hashes to its hash. An empty store has all this (`EmptyFits`), so a boot that loads
nothing keeps it, as `Durable!Forget`. `Original(e)`, the
entry as its hash says it was, is thereby the same before and after any tampering or
restore, so that the log `DurableLog` sees does not move. `DemoAssumption` is needed: an
entry posted under the demo's own action name would hide its tampering.

`Sessions_proofs`, for any number of calls that overlap in any way:

* `AccountsTyped`: `Spec => []TypeOK`;
* `AdminsCrowned`: `Spec => []AdminsFromAdmins`;
* `BootstrapRace`: `Spec => []BootstrapsOverlap`;
* `RotationRace`: `Spec => []RotationsOverlap`;
* `SuspensionRace`: `Spec => []SuspensionEndsSessions`;
* `PatchRace`: `Spec => ChangedAsAsked`;
* `LastAdminRace`: `Spec => LastAdminOverlaps`.

`FreeInv` says of what a call has read only that its id is still a user's (`SeenFits`). `SpentStay` says that a
refresh past its revocation left no live token of that name, which no later step brings back, ids being fresh.
Administrators need an alternative: either one was made on the empty table, which
no step undoes (`CrownStays`), or there is none in any row, claim or row read, and no PATCH is let in (`NoAdmins`).

The races rest on `MeetInv`. Its heart is `Fresh(r)`: what a call read in one statement (the empty table, the
unrevoked token, the row, the count of other admins) is still so, *or* the call has
met one that could change it. A call that takes a step that changes such a fact has, by definition of `met`,
met every call then in flight (`OthersFresh`). `SuspendedSevered` says that, unless a suspension is unfinished, every token of a suspended user,
and every call about to insert one, met a PATCH of that user; `SeveredStays` that the steps keep it so.
The two action properties are read off the one step that writes users (`ChangedByUpdate`, `LastAdminLost`).

`ClientSession_proofs`, for any number of tabs, officers, tokens and calls
in flight, from `NamesAssumption`:

* `ShownIsActing`: `Spec => []ActsAsShown`;
* `EvaluationGrantsNothing`: `Spec => []EvaluationPowerless`;
* `SpinnerWillEnd`: `Spec => [](TypeOK /\ SpinnerHasCause)`.

`ActsAsShown` says nothing of a restore still in flight, which is what may break it.
`ClientInv` adds `RestoreInv`: a tab has at most one restore and, until the login
page is used, it is loading (so nobody can log out), no login competes, and the
restore was sent with the token that is still in sessionStorage. `TokensIssued` keeps
a fresh token from being one already stored somewhere; `EvaluationInv` ties the
evaluation user to its own tab's storage, which no other tab can write.

`FabricLedger_proofs`, for any number of calls, cases, timestamps, entries and edits:

* `EditsReported`: `Spec => [](TypeOK /\ TamperReported)`;
* `NobodyAccused`: `Spec => []NoFalseAlarm`;
* `AcknowledgedVerified`: `Spec => []AckedCovered`.

`Watches` ties a verification's notes to what is still to be read: an entry that has stood edited, or is owed,
is either among the reads already or in a history that is still to be read. `ReadsSound`
says that a read entry that does not hash was edited, `AppendsSound` that what an append carries
hashes; and the cases of acknowledged entries are known.

`ChainMonitor_proofs`, for any number of handler calls, entries and changes:

* `VerdictsTrue`: `Spec => [](TypeOK /\ VerdictTrue)`.

The invariant is that every answer, on its way or on screen, is `Sound`: at one of the
moments since its question the ledger was as the answer says.

`ClientPages_proofs`, for any number of calls, cases, officers and writes, from
`BoundsArePositive`:

* `PagesTyped`: `Spec => []TypeOK`;
* `FlagsEnd`: `Spec => []FlagsHaveCause`;
* `FormsOnce`: `Spec => []SubmitOnce`;
* `OfficersOnce`: `Spec => []NoRowTwice`;
* `OneCaseShown`: `Spec => []OneDossier`;
* `WritesOnScreen`: `Spec => []OwnWritesShown`.

None of these but the type is inductive. `Inv` relates each call to the backend and to what the
page holds. `Base` says that no answer and nothing on screen is newer than the backend, and that every
call is one its page can make. `Flag` says which call each flag waits for, and on the pages whose dialogs stay
mounted also the converse: a submission owns its dialog's flag and is the only one of its
dialog, which gives `SubmitOnce`; and that a doubled row is there only while the reload that removes it runs.
`Alone` is what holds as long as calls did not overlap: at most one call can still change the page,
a load that runs alone is `Sound` (what it has got so far, and what its remaining requests will
get, is of its case and at least as new as the newest acknowledged write), and a page without a
call is `Settled`, which is `OwnWritesShown` and `OneDossier` in one.
Because a step ends in a `Render`, which unmounts dialogs, and both change the view, `Rendered` proves once
that rendering keeps the three parts; the proofs of the steps then speak of the view before it. `HasMax` finds
the newest version an answer may hold, by well-foundedness instead of induction.

What stays with TLC: liveness (`EveryCallEnds`, `SpinnersEnd`), which needs fairness
and `ENABLED`. Every other property of a passing run is stated by a theorem.

## 6. Not modelled

* Backend: text search, statistics, the list of users, the orgs proxy and the
  org counts; wording, validation of field formats, password hashing, JWT
  signing; reading the environment and mounting the routers.
* Ledger service: the scoped verification of mock mode; `fabricEntry` and
  `GetEntry`, which no route calls; entries without a case id in fabric mode. Fabric's
  ordering and endorsement are external: a submitted transaction is ordered, refused, or
  ordered after its caller gave up.
* Monitoring pages: filters, health cards, org counts.
* Other pages: search and filters (taken at their defaults), drafts and field
  validation, copy buttons, the hash and signature checks that end in a notice
  (`handleVerifyAllHashes`, `CaseDetails.tsx:77-89`), the tamper and finalize buttons whose routes do
  not exist. `CaseDetails` writes "100% Immutable" and "CHAIN VALID" (`CaseDetails.tsx:375`,
  `691`) whatever the chain is: these are fixed texts, and no answer stands behind them.
* Session: a second submission of a login form that was left and mounted again while the first
  was under way.
* The Security page, `UserKeyModal`, navigation and layout show fixed texts and the
  session's user. `useApi`, `DocumentViewer`, `DocumentVersions`,
  `HashVerificationCard`, `IntegrityStatus`, `DigitalSignatureStatus`, `AuditLogViewer`,
  `AuditHistoryTable`, `AuditFilter`, `AuditVerificationBadge`, `CaseTimeline` and
  `EvidenceCard` are imported by no page.
* The deployment, the docs, styling.

## 7. Plan

1. `AuditTrail`, `HashChain`: the write path. *Done, all its safety properties proved.*
2. `LedgerStore`, `DurableLog`: the mock ledger. *Done, proved.*
3. `Sessions`. *Done, proved, for calls that overlap in any way.*
4. `AuditViews`: the read side. *Done, proved.*
5. `ClientSession`: `AuthContext`, `api.ts` and the route guards. *Done, proved.*
6. `FabricLedger`: fabric mode. *Done, proved.*
7. `ChainMonitor`: the pages that report on the chain. *Done, its safety proved.*
8. `ClientPages`: the other pages and their dialogs. *Done, its safety proved.*
9. Left: the mock mode's scoped verification.
