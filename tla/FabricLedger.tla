---------------------------- MODULE FabricLedger ----------------------------
(* The ledger service in fabric mode: what it appends through the chaincode *)
(* and what GET /ledger/verify finds of edits made in CouchDB behind it.    *)
(* A verification reads the history of one case after another, of the cases *)
(* this process remembers, while appends land, entries are edited and the   *)
(* process restarts.                                                        *)
EXTENDS Naturals, Sequences, FiniteSets

CONSTANTS
  Call,         \* HTTP calls the service may be handling at once
  Case,         \* case ids
  Orgs,         \* org ids the callers send, in and out of the known list
  MaxTime,      \* bound: different timestamps
  MaxEntries,   \* bound: entries on the ledger, committed or in flight
  MaxEdits      \* bound: edits in CouchDB

ASSUME BoundsAreNat == MaxTime \in Nat /\ MaxEntries \in Nat /\ MaxEdits \in Nat

VARIABLES
  couch,      \* the world state: the entries in the order they were committed
  edited,     \* the entries that were ever edited
  edits,      \* the edits so far
  known,      \* knownCaseIds
  contract,   \* contract, the gateway's, is cached
  acked,      \* the entries whose append this process answered with 200
  call,       \* the calls being handled
  reply       \* the verdict the last step answered with, if it did

world == <<couch, edited, edits>>
process == <<known, contract, acked>>
vars == <<world, process, call, reply>>

Time == 1..MaxTime

(* The hash of an entry stands for the fields it was computed from.  The    *)
(* code concatenates them without a separator; the edits below put a value  *)
(* in place of another of its field, and no two of these read the same      *)
(* side by side (AuditTrail has the edits that do).  An entry is gone once  *)
(* its document was deleted or lost its docType.                            *)
Hash(action, case, time, org) == <<action, case, time, org>>
Entries == [action : {"done", "edited"}, case : Case, time : Time, org : {"POLICE", ""},
            hash : {"done"} \X Case \X Time \X {"POLICE", ""}, gone : BOOLEAN]

computeEntryHash(e) == Hash(e.action, e.case, e.time, e.org)
Intact(e) == computeEntryHash(e) = e.hash

(* A call: the cases it addresses, and for each of them whether it waits    *)
(* for a gateway, for the peer or for the continuation of the peer's        *)
(* answer; what it appends, and what it read.  stood and owed are the       *)
(* model's own notes of a verification: the entries that stand edited since *)
(* it was asked for, and those whose append had been answered.  An orphan   *)
(* is a transaction nobody waits for any more.                              *)
Verdict(valid, seen, broken, time) ==
  [valid |-> valid, seen |-> seen, broken |-> broken, time |-> time, stood |-> {}, owed |-> {}]
None == Verdict(TRUE, {}, 0, 0)
Idle == [does |-> "nothing", scope |-> {}, opening |-> {}, asked |-> {}, back |-> {},
         read |-> {}, entry |-> {}, index |-> 0, stood |-> {}, owed |-> {}]
Waiting(r) == r.opening \cup r.asked \cup r.back
Free(k) == call[k] = Idle

Init ==
  /\ couch = <<>> /\ edited = {} /\ edits = 0
  /\ known = {} /\ contract = FALSE /\ acked = {}
  /\ call = [k \in Call |-> Idle] /\ reply = None

-----------------------------------------------------------------------------
(* The chaincode.                                                           *)
Canonical(org) == IF org = "POLICE" THEN org ELSE ""
EntryOfRaw(c, t, org) ==               \* mutant: the hash is over the org as it was given
  [action |-> "done", case |-> c, time |-> t, org |-> Canonical(org),
   hash |-> Hash("done", c, t, org), gone |-> FALSE]
AppendEntry(c, t, org) ==
  LET o == Canonical(org)
  IN [action |-> "done", case |-> c, time |-> t, org |-> o,
      hash |-> Hash("done", c, t, o), gone |-> FALSE]

GetHistory(c) == {i \in DOMAIN couch : couch[i].case = c /\ ~couch[i].gone}

-----------------------------------------------------------------------------
(* The service.                                                             *)
(* verifyEntries names the first entry by timestamp that does not verify;   *)
(* which of two with one timestamp comes first depends on the ids.  An      *)
(* entry that was moved between two of the reads was read twice, and the    *)
(* one of the later case in the list counts.                                *)
BrokenIn(s) == {e \in s : ~Intact(e[2])}
FirstBroken(s) == {e \in BrokenIn(s) : \A f \in BrokenIn(s) : e[2].time <= f[2].time}
verifyEntries(s) ==
  LET seen == {e[1] : e \in s}
  IN IF BrokenIn(s) = {} THEN {Verdict(TRUE, seen, 0, 0)}
     ELSE {Verdict(FALSE, seen, e[1], e[2].time) : e \in FirstBroken(s)}
Deduped(read) ==
  {s \in SUBSET read : /\ \A e \in read : \E f \in s : e[1] = f[1]
                       /\ \A e, f \in s : e[1] = f[1] => e = f}

Verdicts(r) ==
  {[v EXCEPT !.stood = r.stood, !.owed = r.owed] :
     v \in UNION {verifyEntries(s) : s \in Deduped(r.read)}}

(* A call goes on, or is over when nothing of it is left to wait for.  The  *)
(* first of its requests to fail answers it, and the others still go on.    *)
Goes(k, r) ==
  IF Waiting(r) # {} THEN call' = [call EXCEPT ![k] = r] /\ reply' = None
  ELSE /\ call' = [call EXCEPT ![k] = Idle]
       /\ IF r.does = "verify" THEN \E v \in Verdicts(r) : reply' = v ELSE reply' = None
FailsAsEmpty(k, r) == Goes(k, r)       \* mutant: a history that fails counts as empty
Fails(k, r) == Goes(k, [r EXCEPT !.does = "failed", !.read = {}, !.stood = {}, !.owed = {}])

(* getContract, up to its first await: every request of a call opens a      *)
(* gateway of its own as long as none is cached.                            *)
getContract(r) == IF contract THEN [r EXCEPT !.asked = r.scope] ELSE [r EXCEPT !.opening = r.scope]

InFlight == {k \in Call : call[k].does \in {"append", "orphan"} /\ call[k].back = {}}
Room == Len(couch) + Cardinality(InFlight) < MaxEntries

(* POST /ledger/entries, the entry as the service sends it.                 *)
PostEntry(k) ==
  /\ Free(k) /\ Room
  /\ \E c \in Case, t \in Time, org \in Orgs :
       Goes(k, getContract([Idle EXCEPT !.does = "append", !.scope = {c},
                                        !.entry = {AppendEntry(c, t, org)}]))
  /\ UNCHANGED <<world, process>>

(* GET /ledger/cases/:id/trail.                                             *)
GetTrail(k) ==
  /\ Free(k)
  /\ \E c \in Case : Goes(k, getContract([Idle EXCEPT !.does = "trail", !.scope = {c}]))
  /\ UNCHANGED <<world, process>>

(* GET /ledger/verify, of the case ids in the query or of the known ones.   *)
fabricKnownCaseIds == known
Standing(scope) == {<<i, couch[i].time>> : i \in {i \in DOMAIN couch :
                      couch[i].case \in scope /\ ~couch[i].gone /\ ~Intact(couch[i])}}
Unmoved == {i \in DOMAIN couch : couch[i].case = couch[i].hash[2] /\ ~couch[i].gone}
GetVerify(k) ==
  /\ Free(k)
  /\ \E scoped \in SUBSET Case :
       LET scope == IF scoped # {} THEN scoped ELSE fabricKnownCaseIds
       IN Goes(k, getContract([Idle EXCEPT
            !.does = "verify", !.scope = scope, !.stood = Standing(scope),
            !.owed = IF scoped = {} THEN acked \cap Unmoved ELSE {}]))
  /\ UNCHANGED <<world, process>>

(* A gateway is there, or could not be opened.                              *)
Connect(k, c) ==
  LET r == [call[k] EXCEPT !.opening = @ \ {c}]
  IN /\ c \in call[k].opening
     /\ \/ /\ contract' = TRUE
           /\ Goes(k, [r EXCEPT !.asked = @ \cup {c}])
        \/ Fails(k, r) /\ UNCHANGED contract
     /\ UNCHANGED <<world, known, acked>>

(* The peers run the chaincode, or the request fails on its way there, or   *)
(* it fails for its caller and is ordered all the same.                     *)
submitTransaction(k, c) ==
  LET r == [call[k] EXCEPT !.asked = @ \ {c}]
  IN /\ call[k].does \in {"append", "orphan"} /\ c \in call[k].asked
     /\ \/ /\ \E e \in r.entry : couch' = Append(couch, e)
           /\ Goes(k, IF r.does = "orphan" THEN r
                      ELSE [r EXCEPT !.back = @ \cup {c}, !.index = Len(couch) + 1])
        \/ Fails(k, r) /\ UNCHANGED couch
        \/ Goes(k, [call[k] EXCEPT !.does = "orphan"]) /\ UNCHANGED couch
     /\ UNCHANGED <<edited, edits, process>>

evaluateTransaction(k, c) ==
  LET r == [call[k] EXCEPT !.asked = @ \ {c}]
      seen == IF r.does = "verify" THEN {<<i, couch[i]>> : i \in GetHistory(c)} ELSE {}
  IN /\ call[k].does \notin {"append", "orphan"} /\ c \in call[k].asked
     /\ \/ Goes(k, [r EXCEPT !.back = @ \cup {c}, !.read = @ \cup seen])
        \/ Fails(k, r)
     /\ UNCHANGED <<world, process>>

(* The continuation: only an answer that arrives makes the case known.      *)
TrackReadsOnly(k, c) ==                \* mutant: an append does not make its case known
  IF call[k].does = "append" THEN known ELSE known \cup {c}
trackCaseId(k, c) == known \cup {c}
Continue(k, c) ==
  LET r == [call[k] EXCEPT !.back = @ \ {c}]
  IN /\ c \in call[k].back
     /\ \/ /\ known' = trackCaseId(k, c)
           /\ acked' = IF r.does = "append" THEN acked \cup {r.index} ELSE acked
           /\ Goes(k, r)
        \/ Fails(k, r) /\ UNCHANGED <<known, acked>>
     /\ UNCHANGED <<world, contract>>

-----------------------------------------------------------------------------
(* Somebody with access to a peer's CouchDB changes, moves, deletes or      *)
(* puts back a document; the stored hash stays.                             *)
Original(e) == [e EXCEPT !.action = e.hash[1], !.case = e.hash[2], !.time = e.hash[3],
                         !.org = e.hash[4], !.gone = FALSE]
Forms(e) ==
  {[e EXCEPT !.action = "edited"], [e EXCEPT !.gone = TRUE], Original(e)}
  \cup {[e EXCEPT !.case = c] : c \in Case} \cup {[e EXCEPT !.time = t] : t \in Time}
Edit(i) ==
  /\ edits < MaxEdits /\ edits' = edits + 1 /\ edited' = edited \cup {i}
  /\ \E e \in Forms(couch[i]) \ {couch[i]} :
       /\ couch' = [couch EXCEPT ![i] = e]
       /\ call' = [k \in Call |->
            [call[k] EXCEPT !.stood = {s \in @ : s[1] # i}, !.owed = @ \ {i}]]
  /\ reply' = None /\ UNCHANGED process

(* The process dies and starts again.  A transaction already submitted may  *)
(* be ordered all the same.                                                 *)
Restart ==
  /\ known' = {} /\ contract' = FALSE /\ acked' = {}
  /\ call' = [k \in Call |->
       IF call[k].does \in {"append", "orphan"} /\ call[k].asked # {}
       THEN [call[k] EXCEPT !.does = "orphan"] ELSE Idle]
  /\ reply' = None /\ UNCHANGED world

Next ==
  \/ \E k \in Call : PostEntry(k) \/ GetTrail(k) \/ GetVerify(k)
  \/ \E k \in Call, c \in Case :
       Connect(k, c) \/ submitTransaction(k, c) \/ evaluateTransaction(k, c) \/ Continue(k, c)
  \/ \E i \in DOMAIN couch : Edit(i)
  \/ Restart

Spec == Init /\ [][Next]_vars

-----------------------------------------------------------------------------
(* Every variable holds a value of its kind; what a call waits for is in    *)
(* its scope, and an entry's hash is over a known org or none.              *)
TypeOK ==
  /\ couch \in Seq(Entries)
  /\ edited \subseteq DOMAIN couch /\ acked \subseteq DOMAIN couch /\ edits \in 0..MaxEdits
  /\ known \subseteq Case
  /\ \A k \in Call : Waiting(call[k]) \subseteq call[k].scope /\ call[k].scope \subseteq Case

(* store.ts computeEntryHash "MUST match chaincode computeEntryHash         *)
(* exactly": an entry nobody edited is never reported.                      *)
NoFalseAlarm == ~reply.valid => reply.broken \in edited

(* GET /ledger/verify, across its several reads: an entry of the cases it   *)
(* covers that stood edited since the call came makes it fail, and the      *)
(* entry it names is no younger than any such entry.                        *)
TamperReported ==
  \A s \in reply.stood : ~reply.valid /\ reply.time <= s[2]

(* knownCaseIds: an unscoped verification covers every entry whose append   *)
(* this process answered before, unless it was moved or deleted since.      *)
AckedCovered == reply.owed \subseteq reply.seen
=============================================================================
