------------------------- MODULE FabricLedger_proofs -------------------------
(* What GET /ledger/verify answers in fabric mode, proved for any number of *)
(* calls, cases, timestamps, entries and edits.                             *)
EXTENDS FabricLedger, SequenceTheorems, TLAPS

Kinds == {"nothing", "append", "orphan", "trail", "verify", "failed"}
Calls == [does : Kinds, scope : SUBSET Case, opening : SUBSET Case, asked : SUBSET Case,
          back : SUBSET Case, read : SUBSET (Nat \X Entries), entry : SUBSET Entries,
          index : Nat, stood : SUBSET (Nat \X Time), owed : SUBSET Nat]

(* An entry the call must still look at, or has.                            *)
Covered(r, log, i) ==
  /\ i \in DOMAIN log /\ ~log[i].gone /\ log[i].case \in r.scope
  /\ log[i].case \in r.opening \cup r.asked \/ \E e \in r.read : e[1] = i

(* A broken entry that was read was edited.                                 *)
ReadsSound(r, marks) == \A e \in r.read : ~Intact(e[2]) => e[1] \in marks

(* What a call appends is intact and of its one case, and an append that    *)
(* waits for its continuation is on the ledger.                             *)
AppendsSound(r, log) ==
  /\ \A e \in r.entry : Intact(e) /\ r.scope = {e.hash[2]}
  /\ r.does = "append" => \A c \in r.back : r.index \in DOMAIN log /\ log[r.index].hash[2] = c

(* A verification has read, or will read, what it owes and what stands; and *)
(* of what stands it has read nothing older than the edit.                  *)
Watches(r, log) ==
  r.does = "verify" =>
    /\ \A i \in r.owed : Covered(r, log, i)
    /\ \A s \in r.stood :
         /\ Covered(r, log, s[1]) /\ log[s[1]].time = s[2] /\ ~Intact(log[s[1]])
         /\ \A e \in r.read : e[1] = s[1] => e[2] = log[s[1]]

CallInv(r, log, marks) ==
  /\ r \in Calls /\ Waiting(r) \subseteq r.scope
  /\ ReadsSound(r, marks) /\ AppendsSound(r, log) /\ Watches(r, log)

StateInv ==
  /\ couch \in Seq(Entries) /\ edited \subseteq DOMAIN couch /\ edits \in 0..MaxEdits
  /\ known \subseteq Case /\ acked \subseteq DOMAIN couch
  /\ \A i \in DOMAIN couch : i \notin edited => Intact(couch[i])
  /\ \A i \in acked : couch[i].hash[2] \in known
CallsInv == DOMAIN call = Call /\ \A k \in Call : CallInv(call[k], couch, edited)
ReplyInv == NoFalseAlarm /\ TamperReported /\ AckedCovered
Inv == StateInv /\ CallsInv /\ ReplyInv

-----------------------------------------------------------------------------
LEMMA IdleFits == \A log, marks : CallInv(Idle, log, marks)
  BY DEF CallInv, Idle, Calls, Kinds, Waiting, ReadsSound, AppendsSound, Watches

LEMMA NoReplyFits == ASSUME reply' = None PROVE ReplyInv'
  BY DEF ReplyInv, NoFalseAlarm, TamperReported, AckedCovered, None, Verdict

(* What stands in a log of entries.                                         *)
LEMMA LogTyped ==
  ASSUME NEW log \in Seq(Entries)
  PROVE  \A i \in DOMAIN log : /\ i \in Nat /\ log[i] \in Entries /\ log[i].time \in Time
                               /\ log[i].hash \in {"done"} \X Case \X Time \X {"POLICE", ""}
<1>1. \A i \in DOMAIN log : i \in Nat /\ log[i] \in Entries
  OBVIOUS
<1>2. \A e \in Entries : e.time \in Time /\ e.hash \in {"done"} \X Case \X Time \X {"POLICE", ""}
  BY DEF Entries
<1> QED BY <1>1, <1>2

(* An entry more on the ledger changes nothing for the calls.               *)
LEMMA LogGrows ==
  ASSUME NEW log \in Seq(Entries), NEW e \in Entries, NEW r, NEW marks, CallInv(r, log, marks)
  PROVE  CallInv(r, Append(log, e), marks)
<1> DEFINE longer == Append(log, e)
<1>1. \A i \in DOMAIN log : i \in DOMAIN longer /\ longer[i] = log[i]
  OBVIOUS
<1> HIDE DEF longer
<1>2. AppendsSound(r, longer)
  BY <1>1 DEF CallInv, AppendsSound
<1>3. Watches(r, longer)
  BY <1>1 DEF CallInv, Watches, Covered
<1> QED BY <1>2, <1>3 DEF CallInv, longer

(* A verdict over everything a finished verification read.                  *)
LEMMA VerdictFits ==
  ASSUME NEW r, CallInv(r, couch', edited'), r.does = "verify", Waiting(r) = {},
         NEW v \in Verdicts(r), reply' = v
  PROVE  ReplyInv'
<1>0. PICK s \in Deduped(r.read) : \E w \in verifyEntries(s) :
        v = [w EXCEPT !.stood = r.stood, !.owed = r.owed]
  BY DEF Verdicts
<1>1. PICK w \in verifyEntries(s) : v = [w EXCEPT !.stood = r.stood, !.owed = r.owed]
  BY <1>0
<1>2. s \subseteq r.read /\ \A e \in r.read : \E f \in s : e[1] = f[1]
  BY <1>1 DEF Deduped
<1>3. \A e \in s : e \in Nat \X Entries
  BY <1>2 DEF CallInv, Calls
<1>4. \A e \in s : e[2].time \in Nat
  <2>1. \A e \in Entries : e.time \in Time
    BY DEF Entries
  <2>2. Time \subseteq Nat
    BY BoundsAreNat DEF Time
  <2> QED BY <1>3, <2>1, <2>2
<1>5. r.owed \subseteq {e[1] : e \in s} /\ \A t \in r.stood : t[1] \in {e[1] : e \in s}
  BY <1>2 DEF CallInv, Watches, Covered, Waiting
<1> DEFINE read == {e[1] : e \in s}
<1>6. \/ BrokenIn(s) = {} /\ w = Verdict(TRUE, read, 0, 0)
      \/ BrokenIn(s) # {} /\ \E e \in FirstBroken(s) : w = Verdict(FALSE, read, e[1], e[2].time)
  BY <1>1 DEF verifyEntries
<1>7. w.seen = read /\ v.seen = w.seen /\ v.valid = w.valid /\ v.broken = w.broken
      /\ v.time = w.time /\ v.stood = r.stood /\ v.owed = r.owed
  BY <1>1, <1>6 DEF Verdict
<1>8. /\ BrokenIn(s) = {} => w.valid = TRUE
      /\ BrokenIn(s) # {} => /\ w.valid = FALSE
                             /\ \E e \in FirstBroken(s) : w.broken = e[1] /\ w.time = e[2].time
  BY <1>6 DEF Verdict
<1>9. NoFalseAlarm'
  BY <1>2, <1>7, <1>8 DEF NoFalseAlarm, FirstBroken, BrokenIn, CallInv, ReadsSound
<1>10. TamperReported'
  <2> SUFFICES ASSUME NEW t \in r.stood PROVE ~w.valid /\ w.time <= t[2]
    BY <1>7 DEF TamperReported
  <2>1. PICK e \in s : e[1] = t[1]
    BY <1>5
  <2>2. e \in BrokenIn(s) /\ e[2].time = t[2]
    BY <1>2, <2>1 DEF BrokenIn, CallInv, Watches
  <2>3. ~w.valid
    BY <1>8, <2>2
  <2>4. PICK f \in FirstBroken(s) : w.time = f[2].time
    BY <1>8, <2>2
  <2> QED BY <2>2, <2>3, <2>4 DEF FirstBroken
<1>11. AckedCovered'
  BY <1>5, <1>7 DEF AckedCovered
<1> QED BY <1>9, <1>10, <1>11 DEF ReplyInv

(* A call that goes on as r, while the others stay as they are.             *)
LEMMA GoesOn ==
  ASSUME CallsInv, NEW k \in Call, NEW r, Goes(k, r), CallInv(r, couch', edited'),
         \A j \in Call : CallInv(call[j], couch', edited')
  PROVE  CallsInv' /\ ReplyInv'
<1>1. CASE Waiting(r) # {}
  <2>1. call' = [call EXCEPT ![k] = r] /\ reply' = None
    BY <1>1 DEF Goes
  <2> QED BY <2>1, NoReplyFits DEF CallsInv
<1>2. CASE Waiting(r) = {}
  <2>1. call' = [call EXCEPT ![k] = Idle]
    BY <1>2 DEF Goes
  <2>2. CallsInv'
    BY <2>1, IdleFits DEF CallsInv
  <2>3. ReplyInv'
    <3>1. CASE r.does = "verify"
      <4>1. PICK v \in Verdicts(r) : reply' = v
        BY <1>2, <3>1 DEF Goes
      <4> QED BY <1>2, <3>1, <4>1, VerdictFits
    <3>2. CASE r.does # "verify"
      BY <1>2, <3>2, NoReplyFits DEF Goes
    <3> QED BY <3>1, <3>2
  <2> QED BY <2>2, <2>3
<1> QED BY <1>1, <1>2

(* A call that starts has read nothing and waits for all of its scope.      *)
LEMMA StartFits ==
  ASSUME NEW r \in Calls, Waiting(r) = {}, r.read = {}, AppendsSound(r, couch),
         \A i \in r.owed : i \in DOMAIN couch /\ ~couch[i].gone /\ couch[i].case \in r.scope,
         \A s \in r.stood : /\ s[1] \in DOMAIN couch /\ ~couch[s[1]].gone
                            /\ couch[s[1]].case \in r.scope /\ couch[s[1]].time = s[2]
                            /\ ~Intact(couch[s[1]])
  PROVE  CallInv(getContract(r), couch, edited)
<1> DEFINE g == getContract(r)
<1>1. /\ g \in Calls /\ g.opening \cup g.asked = r.scope /\ g.back = {} /\ g.read = {}
      /\ g.does = r.does /\ g.scope = r.scope /\ g.entry = r.entry
      /\ g.stood = r.stood /\ g.owed = r.owed
  BY DEF getContract, Calls, Waiting
<1> HIDE DEF g
<1>2. Waiting(g) \subseteq g.scope /\ ReadsSound(g, edited) /\ AppendsSound(g, couch)
  BY <1>1 DEF Waiting, ReadsSound, AppendsSound
<1>3. Watches(g, couch)
  BY <1>1 DEF Watches, Covered
<1> QED BY <1>1, <1>2, <1>3 DEF CallInv, g

(* A call one of whose requests failed promises nothing any more.           *)
LEMMA FailedFits ==
  ASSUME NEW r \in Calls, Waiting(r) \subseteq r.scope, NEW log, NEW marks,
         \A e \in r.entry : Intact(e) /\ r.scope = {e.hash[2]}
  PROVE  CallInv([r EXCEPT !.does = "failed", !.read = {}, !.stood = {}, !.owed = {}], log, marks)
<1> DEFINE f == [r EXCEPT !.does = "failed", !.read = {}, !.stood = {}, !.owed = {}]
<1>1. /\ f \in Calls /\ Waiting(f) = Waiting(r) /\ f.scope = r.scope /\ f.entry = r.entry
      /\ f.read = {} /\ f.does = "failed"
  BY DEF Calls, Kinds, Waiting
<1> HIDE DEF f
<1>2. CallInv(f, log, marks)
  BY <1>1 DEF CallInv, ReadsSound, AppendsSound, Watches
<1> QED BY <1>2 DEF f

-----------------------------------------------------------------------------
(* Every step keeps the invariant.                                          *)
LEMMA PostEntryKeeps == ASSUME Inv, NEW k \in Call, PostEntry(k) PROVE Inv'
<1>1. PICK c \in Case, t \in Time, org \in Orgs :
        Goes(k, getContract([Idle EXCEPT !.does = "append", !.scope = {c},
                                         !.entry = {AppendEntry(c, t, org)}]))
  BY DEF PostEntry
<1> DEFINE r == [Idle EXCEPT !.does = "append", !.scope = {c},
                             !.entry = {AppendEntry(c, t, org)}]
<1>2. StateInv' /\ couch' = couch /\ edited' = edited
  BY DEF Inv, StateInv, PostEntry, world, process
<1>3. /\ AppendEntry(c, t, org) \in Entries /\ Intact(AppendEntry(c, t, org))
      /\ AppendEntry(c, t, org).hash[2] = c
  BY DEF AppendEntry, Entries, Canonical, Intact, computeEntryHash, Hash
<1>4. /\ r \in Calls /\ Waiting(r) = {} /\ r.read = {} /\ r.owed = {} /\ r.stood = {}
      /\ r.back = {} /\ r.scope = {c} /\ r.entry = {AppendEntry(c, t, org)}
  BY <1>3 DEF Idle, Calls, Kinds, Waiting
<1>5. AppendsSound(r, couch)
  BY <1>3, <1>4 DEF AppendsSound
<1> HIDE DEF r
<1>6. CallInv(getContract(r), couch, edited)
  BY <1>4, <1>5, StartFits
<1>7. Goes(k, getContract(r))
  BY <1>1 DEF r
<1> QED BY <1>2, <1>6, <1>7, GoesOn DEF Inv, CallsInv

LEMMA GetTrailKeeps == ASSUME Inv, NEW k \in Call, GetTrail(k) PROVE Inv'
<1>1. PICK c \in Case : Goes(k, getContract([Idle EXCEPT !.does = "trail", !.scope = {c}]))
  BY DEF GetTrail
<1> DEFINE r == [Idle EXCEPT !.does = "trail", !.scope = {c}]
<1>2. StateInv' /\ couch' = couch /\ edited' = edited
  BY DEF Inv, StateInv, GetTrail, world, process
<1>3. /\ r \in Calls /\ Waiting(r) = {} /\ r.read = {} /\ r.owed = {} /\ r.stood = {}
      /\ r.entry = {} /\ r.does = "trail"
  BY DEF Idle, Calls, Kinds, Waiting
<1>4. AppendsSound(r, couch)
  BY <1>3 DEF AppendsSound
<1> HIDE DEF r
<1>5. CallInv(getContract(r), couch, edited)
  BY <1>3, <1>4, StartFits
<1>6. Goes(k, getContract(r))
  BY <1>1 DEF r
<1> QED BY <1>2, <1>5, <1>6, GoesOn DEF Inv, CallsInv

LEMMA GetVerifyKeeps == ASSUME Inv, NEW k \in Call, GetVerify(k) PROVE Inv'
<1>1. PICK scoped \in SUBSET Case :
        LET scope == IF scoped # {} THEN scoped ELSE fabricKnownCaseIds
        IN Goes(k, getContract([Idle EXCEPT
             !.does = "verify", !.scope = scope, !.stood = Standing(scope),
             !.owed = IF scoped = {} THEN acked \cap Unmoved ELSE {}]))
  BY DEF GetVerify
<1> DEFINE scope == IF scoped # {} THEN scoped ELSE fabricKnownCaseIds
           owed == IF scoped = {} THEN acked \cap Unmoved ELSE {}
           r == [Idle EXCEPT !.does = "verify", !.scope = scope, !.stood = Standing(scope),
                             !.owed = owed]
<1>2. StateInv' /\ couch' = couch /\ edited' = edited
  BY DEF Inv, StateInv, GetVerify, world, process
<1>3. scope \in SUBSET Case
  BY DEF fabricKnownCaseIds, Inv, StateInv
<1>4. \A i \in owed : i \in DOMAIN couch /\ ~couch[i].gone /\ couch[i].case \in scope
  BY DEF fabricKnownCaseIds, Unmoved, Inv, StateInv
<1>5. \A s \in Standing(scope) :
        /\ s[1] \in DOMAIN couch /\ ~couch[s[1]].gone /\ couch[s[1]].case \in scope
        /\ couch[s[1]].time = s[2] /\ ~Intact(couch[s[1]])
  BY DEF Standing
<1>6. Standing(scope) \in SUBSET (Nat \X Time) /\ owed \in SUBSET Nat
  <2>1. \A i \in DOMAIN couch : i \in Nat /\ couch[i].time \in Time
    BY LogTyped DEF Inv, StateInv
  <2> QED BY <2>1, <1>4 DEF Standing
<1> HIDE DEF scope, owed
<1>7. /\ r \in Calls /\ Waiting(r) = {} /\ r.read = {} /\ r.owed = owed
      /\ r.stood = Standing(scope) /\ r.entry = {} /\ r.does = "verify" /\ r.scope = scope
  BY <1>3, <1>6 DEF Idle, Calls, Kinds, Waiting
<1>8. AppendsSound(r, couch)
  BY <1>7 DEF AppendsSound
<1>9. Goes(k, getContract(r))
  BY <1>1 DEF scope, owed
<1> HIDE DEF r
<1>10. CallInv(getContract(r), couch, edited)
  BY <1>4, <1>5, <1>7, <1>8, StartFits
<1> QED BY <1>2, <1>9, <1>10, GoesOn DEF Inv, CallsInv

LEMMA ConnectKeeps == ASSUME Inv, NEW k \in Call, NEW c \in Case, Connect(k, c) PROVE Inv'
<1> DEFINE r == [call[k] EXCEPT !.opening = @ \ {c}]
           q == [r EXCEPT !.asked = @ \cup {c}]
<1>1. StateInv' /\ couch' = couch /\ edited' = edited
  BY DEF Inv, StateInv, Connect, world
<1>2. CallInv(call[k], couch, edited)
  BY DEF Inv, CallsInv
<1>3. /\ r \in Calls /\ Waiting(r) \subseteq r.scope
      /\ \A e \in r.entry : Intact(e) /\ r.scope = {e.hash[2]}
  BY <1>2 DEF CallInv, Calls, Waiting, AppendsSound
<1>4. CASE Goes(k, q)
  <2>1. /\ q \in Calls /\ q.opening \cup q.asked = call[k].opening \cup call[k].asked
        /\ q.back = call[k].back /\ q.read = call[k].read /\ q.does = call[k].does
        /\ q.scope = call[k].scope /\ q.entry = call[k].entry /\ q.index = call[k].index
        /\ q.stood = call[k].stood /\ q.owed = call[k].owed
    BY <1>2 DEF CallInv, Calls, Connect
  <2> HIDE DEF q
  <2>2. Waiting(q) \subseteq q.scope /\ ReadsSound(q, edited) /\ AppendsSound(q, couch)
    BY <1>2, <2>1 DEF CallInv, Waiting, ReadsSound, AppendsSound
  <2>3. Watches(q, couch)
    BY <1>2, <2>1 DEF CallInv, Watches, Covered
  <2>4. CallInv(q, couch', edited')
    BY <1>1, <2>1, <2>2, <2>3 DEF CallInv
  <2> QED BY <1>1, <1>4, <2>4, GoesOn DEF Inv, CallsInv
<1>5. CASE Fails(k, r)
  <2> HIDE DEF r
  <2>1. CallInv([r EXCEPT !.does = "failed", !.read = {}, !.stood = {}, !.owed = {}],
                couch', edited')
    BY <1>3, FailedFits
  <2> QED BY <1>1, <1>5, <2>1, GoesOn DEF Inv, CallsInv, Fails
<1> QED BY <1>4, <1>5 DEF Connect

LEMMA EvaluateKeeps ==
  ASSUME Inv, NEW k \in Call, NEW c \in Case, evaluateTransaction(k, c) PROVE Inv'
<1> DEFINE r == [call[k] EXCEPT !.asked = @ \ {c}]
           seen == IF r.does = "verify" THEN {<<i, couch[i]>> : i \in GetHistory(c)} ELSE {}
           q == [r EXCEPT !.back = @ \cup {c}, !.read = @ \cup seen]
<1>1. StateInv' /\ couch' = couch /\ edited' = edited
  BY DEF Inv, StateInv, evaluateTransaction, world, process
<1>2. CallInv(call[k], couch, edited) /\ c \in call[k].asked
      /\ call[k].does \notin {"append", "orphan"}
  BY DEF Inv, CallsInv, evaluateTransaction
<1>3. /\ r \in Calls /\ Waiting(r) \subseteq r.scope
      /\ \A e \in r.entry : Intact(e) /\ r.scope = {e.hash[2]}
  BY <1>2 DEF CallInv, Calls, Waiting, AppendsSound
<1>4. r.does = call[k].does
  BY <1>2 DEF CallInv, Calls
<1>5. CASE Goes(k, q)
  <2> DEFINE history == {<<i, couch[i]>> : i \in GetHistory(c)}
  <2>0. seen \subseteq history /\ (r.does = "verify" => seen = history)
    OBVIOUS
  <2>1. /\ \A e \in seen : /\ e[1] \in DOMAIN couch /\ e[2] = couch[e[1]]
                           /\ ~Intact(e[2]) => e[1] \in edited
        /\ seen \subseteq Nat \X Entries
    <3>1. \A i \in GetHistory(c) : i \in DOMAIN couch /\ i \in Nat /\ couch[i] \in Entries
                                   /\ (~Intact(couch[i]) => i \in edited)
      BY LogTyped DEF Inv, StateInv, GetHistory
    <3> HIDE DEF seen
    <3> QED BY <3>1, <2>0
  <2>2. r.does = "verify" => \A i \in DOMAIN couch :
          ~couch[i].gone /\ couch[i].case = c => \E e \in seen : e[1] = i
    <3>1. \A i \in DOMAIN couch :
            ~couch[i].gone /\ couch[i].case = c => <<i, couch[i]>> \in history
      BY DEF GetHistory
    <3> HIDE DEF seen, history, r
    <3>2. \A i : <<i, couch[i]>>[1] = i
      OBVIOUS
    <3> QED BY <3>1, <3>2, <2>0
  <2> HIDE DEF seen
  <2>3. /\ q \in Calls /\ q.opening = call[k].opening /\ q.asked = call[k].asked \ {c}
        /\ q.back = call[k].back \cup {c} /\ q.read = call[k].read \cup seen
        /\ q.does = call[k].does /\ q.scope = call[k].scope /\ q.entry = call[k].entry
        /\ q.index = call[k].index /\ q.stood = call[k].stood /\ q.owed = call[k].owed
    BY <1>2, <2>1 DEF CallInv, Calls
  <2>4. r.does = q.does
    BY <1>4, <2>3
  <2> HIDE DEF q, r
  <2>5. Waiting(q) \subseteq q.scope /\ ReadsSound(q, edited) /\ AppendsSound(q, couch)
    BY <1>2, <2>1, <2>3 DEF CallInv, Waiting, ReadsSound, AppendsSound
  <2>6. Watches(q, couch)
    <3> SUFFICES ASSUME q.does = "verify"
                 PROVE  /\ \A i \in q.owed : Covered(q, couch, i)
                        /\ \A s \in q.stood :
                             /\ Covered(q, couch, s[1]) /\ couch[s[1]].time = s[2]
                             /\ ~Intact(couch[s[1]])
                             /\ \A e \in q.read : e[1] = s[1] => e[2] = couch[s[1]]
      BY DEF Watches
    <3>1. \A i : Covered(call[k], couch, i) => Covered(q, couch, i)
      BY <2>2, <2>3, <2>4 DEF Covered
    <3> QED BY <1>2, <2>1, <2>3, <3>1 DEF CallInv, Watches
  <2>7. CallInv(q, couch', edited')
    BY <1>1, <2>3, <2>5, <2>6 DEF CallInv
  <2> QED BY <1>1, <1>5, <2>7, GoesOn DEF Inv, CallsInv
<1>6. CASE Fails(k, r)
  <2> HIDE DEF r
  <2>1. CallInv([r EXCEPT !.does = "failed", !.read = {}, !.stood = {}, !.owed = {}],
                couch', edited')
    BY <1>3, FailedFits
  <2> QED BY <1>1, <1>6, <2>1, GoesOn DEF Inv, CallsInv, Fails
<1> QED BY <1>5, <1>6 DEF evaluateTransaction

(* What the ledger gets is the entry of one call, over an answered case.    *)
LEMMA SubmitKeeps ==
  ASSUME Inv, NEW k \in Call, NEW c \in Case, submitTransaction(k, c) PROVE Inv'
<1> DEFINE r == [call[k] EXCEPT !.asked = @ \ {c}]
           q == [r EXCEPT !.back = @ \cup {c}, !.index = Len(couch) + 1]
           o == [call[k] EXCEPT !.does = "orphan"]
<1>1. CallInv(call[k], couch, edited) /\ c \in call[k].asked
      /\ call[k].does \in {"append", "orphan"} /\ couch \in Seq(Entries)
  BY DEF Inv, StateInv, CallsInv, submitTransaction
<1>2. /\ r \in Calls /\ Waiting(r) \subseteq r.scope /\ r.back = call[k].back
      /\ r.does = call[k].does /\ r.read = call[k].read /\ r.entry = call[k].entry
      /\ r.scope = call[k].scope /\ r.index = call[k].index /\ c \in r.scope
      /\ \A e \in r.entry : e \in Entries /\ Intact(e) /\ e.hash[2] = c
      /\ \A e \in r.entry : r.scope = {e.hash[2]}
  BY <1>1 DEF CallInv, Calls, Waiting, AppendsSound
<1>3. CASE /\ \E e \in r.entry : couch' = Append(couch, e)
           /\ Goes(k, IF r.does = "orphan" THEN r ELSE q)
  <2>1. PICK e \in r.entry : couch' = Append(couch, e)
    BY <1>3
  <2>2. e \in Entries /\ Intact(e) /\ e.hash[2] = c
    BY <1>2, <2>1
  <2>3. /\ couch' \in Seq(Entries) /\ Len(couch) + 1 \in DOMAIN couch'
        /\ couch'[Len(couch) + 1] = e
        /\ \A i \in DOMAIN couch : i \in DOMAIN couch' /\ couch'[i] = couch[i]
        /\ \A i \in DOMAIN couch' : i \in DOMAIN couch \/ i = Len(couch) + 1
    BY <1>1, <2>1, <2>2
  <2>4. edited' = edited /\ edits' = edits /\ known' = known /\ acked' = acked
    BY DEF submitTransaction, process
  <2>5. StateInv'
    BY <2>2, <2>3, <2>4 DEF Inv, StateInv
  <2>6. \A j \in Call : CallInv(call[j], couch', edited')
    BY <1>1, <2>1, <2>2, <2>4, LogGrows DEF Inv, CallsInv
  <2>7. CASE r.does = "orphan"
    <3> HIDE DEF r
    <3>1. ReadsSound(r, edited') /\ AppendsSound(r, couch') /\ Watches(r, couch')
      BY <1>1, <1>2, <2>4, <2>7 DEF CallInv, ReadsSound, AppendsSound, Watches
    <3>2. CallInv(r, couch', edited')
      BY <1>2, <3>1 DEF CallInv
    <3>3. Goes(k, r)
      BY <1>3, <2>7
    <3> QED BY <2>5, <2>6, <3>2, <3>3, GoesOn DEF Inv
  <2>8. CASE r.does = "append"
    <3> HIDE DEF r
    <3>0. Len(couch) + 1 \in Nat
      BY <1>1
    <3>1. /\ q \in Calls /\ Waiting(q) \subseteq q.scope /\ q.does = r.does
          /\ q.back = r.back \cup {c} /\ q.index = Len(couch) + 1 /\ q.read = r.read
          /\ q.entry = r.entry /\ q.scope = r.scope
      BY <1>2, <3>0 DEF Calls, Waiting
    <3> HIDE DEF q
    <3>2. q.scope = {c}
      BY <1>2, <2>1, <3>1
    <3>3. \A d \in q.back : d = c
      BY <3>1, <3>2 DEF Waiting
    <3>4. ReadsSound(q, edited') /\ AppendsSound(q, couch') /\ Watches(q, couch')
      BY <1>1, <1>2, <2>2, <2>3, <2>4, <2>8, <3>1, <3>3
         DEF CallInv, ReadsSound, AppendsSound, Watches
    <3>5. CallInv(q, couch', edited')
      BY <3>1, <3>4 DEF CallInv
    <3>6. Goes(k, q)
      BY <1>3, <2>8
    <3> QED BY <2>5, <2>6, <3>5, <3>6, GoesOn DEF Inv
  <2> QED BY <1>1, <1>2, <2>7, <2>8
<1>4. CASE Fails(k, r) /\ couch' = couch
  <2>1. StateInv' /\ edited' = edited
    BY <1>4 DEF Inv, StateInv, submitTransaction, process
  <2> HIDE DEF r
  <2>2. CallInv([r EXCEPT !.does = "failed", !.read = {}, !.stood = {}, !.owed = {}],
                couch', edited')
    BY <1>2, FailedFits
  <2> QED BY <1>4, <2>1, <2>2, GoesOn DEF Inv, CallsInv, Fails
<1>5. CASE Goes(k, o) /\ couch' = couch
  <2>1. StateInv' /\ edited' = edited
    BY <1>5 DEF Inv, StateInv, submitTransaction, process
  <2>2. /\ o \in Calls /\ Waiting(o) \subseteq o.scope /\ o.does = "orphan"
        /\ o.read = call[k].read /\ o.entry = call[k].entry /\ o.scope = call[k].scope
    BY <1>1 DEF CallInv, Calls, Kinds, Waiting
  <2> HIDE DEF o
  <2>3. CallInv(o, couch', edited')
    BY <1>1, <1>5, <2>1, <2>2 DEF CallInv, ReadsSound, AppendsSound, Watches
  <2> QED BY <1>5, <2>1, <2>3, GoesOn DEF Inv, CallsInv
<1> QED BY <1>3, <1>4, <1>5 DEF submitTransaction

LEMMA ContinueKeeps == ASSUME Inv, NEW k \in Call, NEW c \in Case, Continue(k, c) PROVE Inv'
<1> DEFINE r == [call[k] EXCEPT !.back = @ \ {c}]
<1>1. CallInv(call[k], couch, edited) /\ c \in call[k].back
  BY DEF Inv, CallsInv, Continue
<1>2. couch' = couch /\ edited' = edited /\ edits' = edits
  BY DEF Continue, world
<1>3. /\ r \in Calls /\ Waiting(r) \subseteq r.scope /\ r.back = call[k].back \ {c}
      /\ r.opening = call[k].opening /\ r.asked = call[k].asked /\ r.read = call[k].read
      /\ r.does = call[k].does /\ r.scope = call[k].scope /\ r.entry = call[k].entry
      /\ r.index = call[k].index /\ r.stood = call[k].stood /\ r.owed = call[k].owed
      /\ \A e \in r.entry : Intact(e) /\ r.scope = {e.hash[2]}
  BY <1>1 DEF CallInv, Calls, Waiting, AppendsSound
<1> HIDE DEF r
<1>4. CASE /\ known' = trackCaseId(k, c)
           /\ acked' = IF r.does = "append" THEN acked \cup {r.index} ELSE acked
           /\ Goes(k, r)
  <2>1. r.does = "append" => r.index \in DOMAIN couch /\ couch[r.index].hash[2] = c
    BY <1>1, <1>3 DEF CallInv, AppendsSound
  <2>2. StateInv'
    BY <1>2, <1>4, <2>1 DEF Inv, StateInv, trackCaseId
  <2>3. ReadsSound(r, edited) /\ AppendsSound(r, couch) /\ Watches(r, couch)
    BY <1>1, <1>3 DEF CallInv, ReadsSound, AppendsSound, Watches, Covered
  <2>4. CallInv(r, couch', edited')
    BY <1>2, <1>3, <2>3 DEF CallInv
  <2> QED BY <1>2, <1>4, <2>2, <2>4, GoesOn DEF Inv, CallsInv
<1>5. CASE Fails(k, r) /\ known' = known /\ acked' = acked
  <2>1. StateInv'
    BY <1>2, <1>5 DEF Inv, StateInv
  <2>2. CallInv([r EXCEPT !.does = "failed", !.read = {}, !.stood = {}, !.owed = {}],
                couch', edited')
    BY <1>3, FailedFits
  <2> QED BY <1>2, <1>5, <2>1, <2>2, GoesOn DEF Inv, CallsInv, Fails
<1> QED BY <1>4, <1>5 DEF Continue, r

LEMMA EditKeeps == ASSUME Inv, NEW i \in DOMAIN couch, Edit(i) PROVE Inv'
<1>1. PICK e \in Forms(couch[i]) \ {couch[i]} :
        /\ couch' = [couch EXCEPT ![i] = e]
        /\ call' = [k \in Call |->
             [call[k] EXCEPT !.stood = {s \in @ : s[1] # i}, !.owed = @ \ {i}]]
  BY DEF Edit
<1>2. couch \in Seq(Entries) /\ couch[i] \in Entries
  BY LogTyped DEF Inv, StateInv
<1>3. e \in Entries /\ e.hash = couch[i].hash
  BY <1>2 DEF Forms, Original, Entries
<1>4. /\ couch' \in Seq(Entries) /\ DOMAIN couch' = DOMAIN couch /\ couch'[i] = e
      /\ \A j \in DOMAIN couch : j # i => couch'[j] = couch[j]
      /\ \A j \in DOMAIN couch : couch'[j].hash = couch[j].hash
  <2>1. couch' \in Seq(Entries) /\ DOMAIN couch' = DOMAIN couch
    <3>1. i \in 1..Len(couch)
      BY <1>2
    <3> QED BY <1>1, <1>2, <1>3, <3>1, ExceptSeq
  <2>2. couch'[i] = e /\ \A j \in DOMAIN couch : j # i => couch'[j] = couch[j]
    BY <1>1, <1>2
  <2> QED BY <1>3, <2>1, <2>2
<1>5. /\ edited' = edited \cup {i} /\ edits' = edits + 1 /\ edits < MaxEdits
      /\ known' = known /\ acked' = acked /\ reply' = None
  BY DEF Edit, process
<1>6. StateInv'
  <2>1. edits' \in 0..MaxEdits
    BY <1>5, BoundsAreNat DEF Inv, StateInv
  <2>2. couch' \in Seq(Entries) /\ edited' \subseteq DOMAIN couch' /\ known' \subseteq Case
        /\ acked' \subseteq DOMAIN couch'
    BY <1>4, <1>5 DEF Inv, StateInv
  <2>3. \A j \in DOMAIN couch' : j \notin edited' => Intact(couch'[j])
    BY <1>4, <1>5 DEF Inv, StateInv
  <2>4. \A j \in acked' : couch'[j].hash[2] \in known'
    BY <1>4, <1>5 DEF Inv, StateInv
  <2> QED BY <2>1, <2>2, <2>3, <2>4 DEF StateInv
<1>7. CallsInv'
  <2> SUFFICES ASSUME NEW k \in Call PROVE CallInv(call'[k], couch', edited')
    BY <1>1 DEF CallsInv
  <2> DEFINE r == call[k]
             q == call'[k]
  <2>1. CallInv(r, couch, edited)
    BY DEF Inv, CallsInv
  <2>2. q = [r EXCEPT !.stood = {s \in @ : s[1] # i}, !.owed = @ \ {i}]
    BY <1>1
  <2>3. /\ q \in Calls /\ q.does = r.does /\ q.scope = r.scope /\ q.opening = r.opening
        /\ q.asked = r.asked /\ q.back = r.back /\ q.read = r.read /\ q.entry = r.entry
        /\ q.index = r.index /\ q.stood = {s \in r.stood : s[1] # i} /\ q.owed = r.owed \ {i}
    BY <2>1, <2>2 DEF CallInv, Calls
  <2> HIDE DEF q, r
  <2>4. Waiting(q) \subseteq q.scope /\ ReadsSound(q, edited')
    BY <1>5, <2>1, <2>3 DEF CallInv, Waiting, ReadsSound
  <2>5. AppendsSound(q, couch')
    BY <1>4, <2>1, <2>3 DEF CallInv, AppendsSound
  <2>6. Watches(q, couch')
    <3>1. \A j : j # i /\ Covered(r, couch, j) => Covered(q, couch', j)
      BY <1>4, <2>3 DEF Covered
    <3>2. \A j : Covered(r, couch, j) => j \in DOMAIN couch
      BY DEF Covered
    <3> QED BY <1>4, <2>1, <2>3, <3>1, <3>2 DEF CallInv, Watches
  <2>7. CallInv(q, couch', edited')
    BY <2>3, <2>4, <2>5, <2>6 DEF CallInv
  <2> QED BY <2>7 DEF q
<1> QED BY <1>5, <1>6, <1>7, NoReplyFits DEF Inv

LEMMA RestartKeeps == ASSUME Inv, Restart PROVE Inv'
<1>1. /\ call' = [k \in Call |->
           IF call[k].does \in {"append", "orphan"} /\ call[k].asked # {}
           THEN [call[k] EXCEPT !.does = "orphan"] ELSE Idle]
      /\ couch' = couch /\ edited' = edited /\ edits' = edits
      /\ known' = {} /\ acked' = {} /\ reply' = None
  BY DEF Restart, world
<1>2. StateInv'
  BY <1>1 DEF Inv, StateInv
<1>3. CallsInv'
  <2> SUFFICES ASSUME NEW k \in Call PROVE CallInv(call'[k], couch', edited')
    BY <1>1 DEF CallsInv
  <2> DEFINE o == [call[k] EXCEPT !.does = "orphan"]
  <2>1. CallInv(call[k], couch, edited)
    BY DEF Inv, CallsInv
  <2>2. /\ o \in Calls /\ Waiting(o) \subseteq o.scope /\ o.does = "orphan"
        /\ o.read = call[k].read /\ o.entry = call[k].entry /\ o.scope = call[k].scope
    BY <2>1 DEF CallInv, Calls, Kinds, Waiting
  <2>3. call'[k] \in {o, Idle}
    BY <1>1
  <2> HIDE DEF o
  <2>4. CallInv(o, couch, edited)
    BY <2>1, <2>2 DEF CallInv, ReadsSound, AppendsSound, Watches
  <2> QED BY <1>1, <2>3, <2>4, IdleFits
<1> QED BY <1>1, <1>2, <1>3, NoReplyFits DEF Inv

-----------------------------------------------------------------------------
LEMMA InitFits == Init => Inv
<1> SUFFICES ASSUME Init PROVE Inv
  OBVIOUS
<1>1. StateInv
  BY BoundsAreNat DEF Init, StateInv
<1>2. CallsInv
  BY IdleFits DEF Init, CallsInv
<1>3. ReplyInv
  BY DEF Init, ReplyInv, NoFalseAlarm, TamperReported, AckedCovered, None, Verdict
<1> QED BY <1>1, <1>2, <1>3 DEF Inv

LEMMA StepKeeps == Inv /\ [Next]_vars => Inv'
<1> SUFFICES ASSUME Inv, [Next]_vars PROVE Inv'
  OBVIOUS
<1>1. CASE UNCHANGED vars
  BY <1>1 DEF vars, world, process, Inv, StateInv, CallsInv, ReplyInv,
              NoFalseAlarm, TamperReported, AckedCovered
<1>2. CASE Next
  BY <1>2, PostEntryKeeps, GetTrailKeeps, GetVerifyKeeps, ConnectKeeps, SubmitKeeps,
     EvaluateKeeps, ContinueKeeps, EditKeeps, RestartKeeps DEF Next
<1> QED BY <1>1, <1>2

(* The invariant holds in every reachable state.                           *)
LEMMA InvHolds == Spec => []Inv
BY InitFits, StepKeeps, PTL DEF Spec

(* verifyEntries over several reads: of what stands edited from the request *)
(* to the answer nothing is missed, and the oldest such entry is named or   *)
(* an older one.                                                            *)
THEOREM EditsReported == Spec => [](TypeOK /\ TamperReported)
<1>1. Inv => TypeOK /\ TamperReported
  BY DEF Inv, StateInv, CallsInv, ReplyInv, TypeOK, CallInv, Calls
<1> QED BY <1>1, InvHolds, PTL

(* store.ts computeEntryHash: no entry that was left alone is ever accused. *)
THEOREM NobodyAccused == Spec => []NoFalseAlarm
<1>1. Inv => NoFalseAlarm
  BY DEF Inv, ReplyInv
<1> QED BY <1>1, InvHolds, PTL

(* knownCaseIds: what this process acknowledged, it verifies.               *)
THEOREM AcknowledgedVerified == Spec => []AckedCovered
<1>1. Inv => AckedCovered
  BY DEF Inv, ReplyInv
<1> QED BY <1>1, InvHolds, PTL
=============================================================================
