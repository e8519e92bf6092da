-------------------------- MODULE ClientPages_proofs --------------------------
(* What the pages never show and never submit, for every number of calls in *)
(* flight, cases and writes.  The inductive invariant is Inv: Base is the   *)
(* kind of every value, Flag is what the flags and the calls owe each other,*)
(* and Alone is what a page knows while its calls have not overlapped.      *)
EXTENDS ClientPages, FiniteSetTheorems, WellFoundedInduction, TLAPS

-----------------------------------------------------------------------------
(* What a call in flight and the page's state are made of.                  *)
Does == Dialogs \cup {"nothing", "load", "active", "toggle"}
Call == [does : Does, at : {"done", "load", "sent", "ok", "failed"}, step : Nat,
         for : {0} \cup Case, url : {0} \cup Case, low : [Item -> Nat], got : [Item -> Nat],
         own : BOOLEAN]
View == [shown : [Item -> Nat], loading : BOOLEAN, error : BOOLEAN, partial : BOOLEAN,
         twice : BOOLEAN, open : Dialogs \cup {"none"}, on : {0} \cup Case,
         busy : SUBSET Dialogs, acting : {0} \cup Case, target : {0} \cup Case]

(* Nothing newer than the backend has.                                      *)
Known(f) == \A i \in Item : f[i] <= ver[i]

(* The items a call's answer is about.                                      *)
Answer(c) == Changed(c.does, c.for)

CallOK(c) ==
  /\ c \in Call /\ Known(c.low) /\ Known(c.got)
  /\ c.at = "done" => c = Idle
  /\ c.at # "done" => c.does # "nothing"
  /\ c.at = "load" => c.does # "toggle" /\ c.step \in 1..Len(Plan) /\ c.for \in Case
  /\ c.at \in {"sent", "ok", "failed"} => c.does \in Dialogs \cup {"toggle"} /\ c.url \in Case
  /\ c.at = "ok" => c.for \in Case /\ (c.does # "toggle" => \A i \in Answer(c) : ver[i] > 0)
  /\ c.does = "toggle" => page = "Users" /\ c.for \in Case
  /\ c.does = "active" => page \in {"Documents", "Evidence"} /\ c.at = "load"

Backend ==
  /\ page \in Pages /\ id \in Case /\ ver \in [Item -> Nat] /\ writes \in 0..MaxWrites
  /\ \A i \in Item : ver[i] <= writes + 1
  /\ ver[<<"cases", id>>] > 0
  /\ acked \in [Item -> Nat] /\ Known(acked) /\ overlapped \in BOOLEAN
Base(v, q) ==
  /\ v \in View /\ Known(v.shown)
  /\ q \in [Job -> Call] /\ \A j \in Job : CallOK(q[j])

(* A call that is a load, and one that is not the page's choice of a case.  *)
Reads(c) == c.at = "load" /\ c.does # "active"
Live(c) == c.at # "done" /\ c.does # "active"

(* The pages whose dialogs stay mounted.                                    *)
Steady == {"Cases", "Documents", "Evidence", "Users"}
Flag(v, q) ==
  /\ v.loading => \E j \in Job : Reads(q[j])
  /\ \A d \in v.busy : \E j \in Job : q[j].does = d /\ q[j].own
  /\ v.acting # 0 => \E j \in Job : q[j].does = "toggle" /\ q[j].for = v.acting
  /\ page \in Steady =>
       \A j, k \in Job :
         q[j].does \in Dialogs =>
           q[j].own /\ q[j].does \in v.busy /\ (q[k].does = q[j].does => j = k)
  /\ page = "Users" /\ v.twice => v.loading \/ v.error

(* A load that runs alone: its requests left after the newest write the     *)
(* user was answered, and what it got so far is as new and of its case.     *)
Relevant(i, url) == page \in Details => CaseOf(i) = url
Held(c, v) == IF page = "Dashboard" THEN c.got ELSE v.shown
Sound(c, v, a, url) ==
  /\ v.loading /\ \A i \in Item : a[i] <= c.low[i]
  /\ \A i \in Item, k \in 1..(c.step - 1) : PartOf(i) = Plan[k] =>
       /\ ~v.partial /\ Relevant(i, url) => a[i] <= Held(c, v)[i]
       /\ ~Relevant(i, url) => v.shown[i] = 0
  /\ page = "CaseDetails" =>
       IF c.step = 1 THEN c.low[<<"cases", url>>] > 0 ELSE v.shown[<<"cases", url>>] > 0

(* What a page at rest shows.                                               *)
Settled(v, a, url) ==
  /\ \A i \in Item : PartOf(i) \in PartsOf(Plan) =>
       /\ ~v.partial /\ Relevant(i, url) => a[i] <= v.shown[i]
       /\ ~Relevant(i, url) =>
            v.shown[i] = 0 \/ (page = "DocumentDetails" /\ PartOf(i) = "cases" /\ v.partial)
  /\ page = "CaseDetails" => v.shown[<<"cases", url>>] > 0

AloneCall(c, v, a, url) ==
  /\ page \in Details => url = IF c.at = "load" THEN c.for ELSE c.url
  /\ c.does = "toggle" => v.shown[<<"users", c.for>>] > 0
  /\ c.at = "ok" => \A i \in Item : a[i] <= c.low[i]
  /\ c.at = "load" => Sound(c, v, a, url)
Alone(v, q, a, url) ==
  /\ \A j, k \in Job : Live(q[j]) /\ Live(q[k]) => j = k
  /\ \A j \in Job : Live(q[j]) => AloneCall(q[j], v, a, url)
  /\ ~v.loading /\ ~v.error => Settled(v, a, url)

(* A document's page has no dialogs.                                        *)
ReadOnly(a) == page = "DocumentDetails" => \A i \in Item : a[i] = 0

Inv ==
  /\ Backend /\ ReadOnly(acked) /\ Base(view, job) /\ view.busy \subseteq Mounted(view)
  /\ Flag(view, job) /\ (~overlapped => Alone(view, job, acked, id))

-----------------------------------------------------------------------------
(* The plans and the dialogs of the pages.                                  *)
LEMMA PlanFacts ==
  ASSUME page \in Pages
  PROVE  /\ Len(Plan) \in Nat /\ Len(Plan) >= 1 /\ DOMAIN Plan = 1..Len(Plan)
         /\ \A k, l \in 1..Len(Plan) : Plan[k] = Plan[l] => k = l
         /\ \A k \in 1..Len(Plan) : Plan[k] = "fanout" =>
              k + 1 \in 1..Len(Plan) /\ Plan[k + 1] = "documents" /\ page \notin Details
         /\ page = "Users" => Len(Plan) = 1 /\ Plan[1] = "users"
         /\ page = "CaseDetails" => Len(Plan) = 3 /\ Plan[1] = "cases"
         /\ page = "DocumentDetails" =>
              Len(Plan) = 2 /\ Plan[1] = "documents" /\ Plan[2] = "cases"
         /\ page \in Details => \A k \in 1..Len(Plan) : Plan[k] \in Part
<1>1. CASE page = "Dashboard"
  <2>1. Plan = <<"cases", "fanout", "documents", "evidence", "logs">>
    BY <1>1 DEF Plan, loadDashboardData
  <2> QED BY <2>1, <1>1 DEF Details
<1>2. CASE page = "Cases"
  <2>1. Plan = <<"cases">>
    BY <1>2 DEF Plan, fetchCases
  <2> QED BY <2>1, <1>2 DEF Details
<1>3. CASE page = "Documents"
  <2>1. Plan = <<"fanout", "documents">>
    BY <1>3 DEF Plan, fetchDocuments
  <2> QED BY <2>1, <1>3 DEF Details
<1>4. CASE page = "Evidence"
  <2>1. Plan = <<"evidence">>
    BY <1>4 DEF Plan, fetchEvidence
  <2> QED BY <2>1, <1>4 DEF Details
<1>5. CASE page = "Users"
  <2>1. Plan = <<"users">>
    BY <1>5 DEF Plan, fetchUsers
  <2> QED BY <2>1, <1>5 DEF Details
<1>6. CASE page = "CaseDetails"
  <2>1. Plan = <<"cases", "documents", "evidence">>
    BY <1>6 DEF Plan, loadCaseData
  <2> QED BY <2>1, <1>6 DEF Part
<1>7. CASE page = "DocumentDetails"
  <2>1. Plan = <<"documents", "cases">>
    BY <1>7 DEF Plan, fetchDocument
  <2> QED BY <2>1, <1>7 DEF Part
<1> QED BY <1>1, <1>2, <1>3, <1>4, <1>5, <1>6, <1>7 DEF Pages

LEMMA PlanParts ==
  ASSUME page \in Pages, NEW p \in PartsOf(Plan)
  PROVE  \E k \in 1..Len(Plan) : Plan[k] = p
BY PlanFacts DEF PartsOf

LEMMA DialogFacts ==
  /\ Dialogs \subseteq {"create", "upload", "register", "transfer", "provision"}
  /\ page = "DocumentDetails" => Dialogs = {}
BY DEF Dialogs

LEMMA SteadyMounts ==
  ASSUME page \in Steady, NEW v
  PROVE  Mounted(v) = Dialogs
BY DEF Steady, Mounted

LEMMA IdleFacts ==
  /\ Idle \in Call /\ Idle.does = "nothing" /\ Idle.at = "done" /\ ~Idle.own /\ Idle.step = 0
  /\ Idle.for = 0 /\ Idle.url = 0 /\ Idle.low = Nothing /\ Idle.got = Nothing
BY DEF Idle, Call, Does, Nothing

-----------------------------------------------------------------------------
(* Rendering changes nothing but the flags of the dialogs it unmounts.      *)
LEMMA Rendered ==
  ASSUME NEW v, NEW q, v \in View, q \in [Job -> Call], Render(v, q)
  PROVE  /\ view' \in View /\ view'.shown = v.shown /\ view'.loading = v.loading
         /\ view'.error = v.error /\ view'.partial = v.partial /\ view'.twice = v.twice
         /\ view'.open = v.open /\ view'.on = v.on /\ view'.acting = v.acting
         /\ view'.target = v.target /\ view'.busy = v.busy \cap Mounted(v)
         /\ Mounted(view') = Mounted(v)
         /\ job' \in [Job -> Call]
         /\ \A j \in Job :
              /\ job'[j] = q[j] \/ job'[j] = [q[j] EXCEPT !.own = FALSE]
              /\ q[j].does \in Dialogs \ Mounted(v) \/ job'[j] = q[j]
<1>1. /\ view' \in View /\ view'.shown = v.shown /\ view'.loading = v.loading
      /\ view'.error = v.error /\ view'.partial = v.partial /\ view'.twice = v.twice
      /\ view'.open = v.open /\ view'.on = v.on /\ view'.acting = v.acting
      /\ view'.target = v.target /\ view'.busy = v.busy \cap Mounted(v)
  BY DEF Render, View
<1>2. Mounted(view') = Mounted(v)
  BY <1>1 DEF Mounted, Content
<1>3. \A j \in Job : job'[j] = IF q[j].does \in Dialogs \ Mounted(v)
                               THEN [q[j] EXCEPT !.own = FALSE] ELSE q[j]
  BY DEF Render
<1>4. \A c \in Call : [c EXCEPT !.own = FALSE] \in Call
  BY DEF Call
<1>5. job' \in [Job -> Call]
  BY <1>4 DEF Render
<1> QED BY <1>1, <1>2, <1>3, <1>5

(* A call whose dialog was unmounted is the same call without its dialog.   *)
LEMMA Disowned ==
  ASSUME NEW c \in Call, NEW e, e = c \/ e = [c EXCEPT !.own = FALSE]
  PROVE  /\ e \in Call /\ e.does = c.does /\ e.at = c.at /\ e.step = c.step /\ e.for = c.for
         /\ e.url = c.url /\ e.low = c.low /\ e.got = c.got /\ (e.own => c.own)
         /\ c = Idle => e = Idle
         /\ (Live(e) <=> Live(c)) /\ (Reads(e) <=> Reads(c)) /\ Answer(e) = Answer(c)
<1>1. /\ e \in Call /\ e.does = c.does /\ e.at = c.at /\ e.step = c.step /\ e.for = c.for
      /\ e.url = c.url /\ e.low = c.low /\ e.got = c.got /\ (e.own => c.own)
  BY DEF Call
<1>2. c = Idle => e = Idle
  BY DEF Idle
<1> QED BY <1>1, <1>2 DEF Live, Reads, Answer

LEMMA RenderedCall ==
  ASSUME NEW v, NEW q, v \in View, q \in [Job -> Call], Render(v, q), NEW j \in Job
  PROVE  /\ job'[j] \in Call /\ job'[j].does = q[j].does /\ job'[j].at = q[j].at
         /\ job'[j].step = q[j].step /\ job'[j].for = q[j].for /\ job'[j].url = q[j].url
         /\ job'[j].low = q[j].low /\ job'[j].got = q[j].got
         /\ q[j] = Idle => job'[j] = Idle
         /\ Live(job'[j]) <=> Live(q[j])
         /\ Reads(job'[j]) <=> Reads(q[j])
         /\ Answer(job'[j]) = Answer(q[j])
         /\ q[j].does \in Dialogs \ Mounted(v) \/ job'[j] = q[j]
<1> DEFINE c == q[j]
           e == job'[j]
<1>1. c \in Call /\ (e = c \/ e = [c EXCEPT !.own = FALSE])
      /\ (c.does \in Dialogs \ Mounted(v) \/ e = c)
  BY Rendered
<1> HIDE DEF c, e
<1>2. /\ e \in Call /\ e.does = c.does /\ e.at = c.at /\ e.step = c.step /\ e.for = c.for
      /\ e.url = c.url /\ e.low = c.low /\ e.got = c.got
      /\ (c = Idle => e = Idle) /\ (Live(e) <=> Live(c)) /\ (Reads(e) <=> Reads(c))
      /\ Answer(e) = Answer(c)
  BY <1>1, Disowned
<1> QED BY <1>1, <1>2 DEF c, e

(* So it suffices that the invariant holds of what is rendered.             *)
LEMMA RenderedFlag ==
  ASSUME NEW v, NEW q, v \in View, q \in [Job -> Call], Render(v, q), Flag(v, q)
  PROVE  Flag(view', job')
<1>1. \A j \in Job : /\ job'[j].does = q[j].does /\ job'[j].for = q[j].for
                     /\ (Reads(job'[j]) <=> Reads(q[j]))
                     /\ (q[j].does \in Dialogs \ Mounted(v) \/ job'[j] = q[j])
  BY RenderedCall
<1>2. view'.loading => \E j \in Job : Reads(job'[j])
  BY <1>1, Rendered DEF Flag
<1>3. ASSUME NEW d \in view'.busy
      PROVE  \E j \in Job : job'[j].does = d /\ job'[j].own
  <2>1. d \in v.busy /\ d \in Mounted(v)
    BY Rendered
  <2>2. PICK j \in Job : q[j].does = d /\ q[j].own
    BY <2>1 DEF Flag
  <2>3. job'[j] = q[j]
    BY <1>1, <2>1, <2>2
  <2> QED BY <2>2, <2>3
<1>4. view'.acting # 0 => \E j \in Job : job'[j].does = "toggle" /\ job'[j].for = view'.acting
  BY <1>1, Rendered DEF Flag
<1>5. ASSUME page \in Steady
      PROVE  \A j, k \in Job :
               job'[j].does \in Dialogs =>
                 job'[j].own /\ job'[j].does \in view'.busy
                   /\ (job'[k].does = job'[j].does => j = k)
  <2>1. Mounted(v) = Dialogs /\ v.busy \subseteq Dialogs
    BY <1>5, SteadyMounts DEF View
  <2>2. view'.busy = v.busy /\ \A j \in Job : job'[j] = q[j]
    BY <2>1, <1>1, Rendered
  <2> QED BY <1>5, <2>2 DEF Flag
<1>6. page = "Users" /\ view'.twice => view'.loading \/ view'.error
  BY Rendered DEF Flag
<1> QED BY <1>2, <1>3, <1>4, <1>5, <1>6 DEF Flag

LEMMA RenderedAlone ==
  ASSUME NEW v, NEW q, NEW a, NEW url,
         v \in View, q \in [Job -> Call], Render(v, q), Alone(v, q, a, url)
  PROVE  Alone(view', job', a, url)
<1>1. \A j \in Job : /\ job'[j].does = q[j].does /\ job'[j].for = q[j].for
                     /\ job'[j].url = q[j].url /\ job'[j].at = q[j].at
                     /\ job'[j].step = q[j].step /\ job'[j].low = q[j].low
                     /\ job'[j].got = q[j].got /\ (Live(job'[j]) <=> Live(q[j]))
  BY RenderedCall
<1>2. /\ view'.shown = v.shown /\ view'.loading = v.loading /\ view'.error = v.error
      /\ view'.partial = v.partial
  BY Rendered
<1>3. ASSUME NEW j \in Job, Live(job'[j]) PROVE AloneCall(job'[j], view', a, url)
  <2>1. AloneCall(q[j], v, a, url)
    BY <1>1, <1>3 DEF Alone
  <2>2. Held(job'[j], view') = Held(q[j], v)
    BY <1>1, <1>2 DEF Held
  <2>3. Sound(q[j], v, a, url) => Sound(job'[j], view', a, url)
    BY <1>1, <1>2, <2>2 DEF Sound
  <2> QED BY <1>1, <1>2, <2>1, <2>3 DEF AloneCall
<1>4. Settled(v, a, url) => Settled(view', a, url)
  BY <1>2 DEF Settled
<1> QED BY <1>1, <1>2, <1>3, <1>4 DEF Alone

LEMMA RenderedBase ==
  ASSUME NEW v, NEW q, Render(v, q), Base(v, q)
  PROVE  Base(view', job') /\ view'.busy \subseteq Mounted(view')
<1>1. v \in View /\ q \in [Job -> Call]
  BY DEF Base
<1>2. ASSUME NEW j \in Job PROVE CallOK(job'[j])
  <2>1. q[j] \in Call /\ CallOK(q[j])
    BY <1>1 DEF Base
  <2>2. /\ job'[j] \in Call /\ job'[j].does = q[j].does /\ job'[j].for = q[j].for
        /\ job'[j].url = q[j].url /\ job'[j].at = q[j].at /\ job'[j].step = q[j].step
        /\ job'[j].low = q[j].low /\ job'[j].got = q[j].got
        /\ (q[j] = Idle => job'[j] = Idle) /\ Answer(job'[j]) = Answer(q[j])
    BY <1>1, <2>1, RenderedCall
  <2> QED BY <2>1, <2>2 DEF CallOK
<1> QED BY <1>1, <1>2, Rendered DEF Base

(* The client's steps: a page that stays, a backend that stays.             *)
LEMMA ClientStep ==
  ASSUME Inv, UNCHANGED <<server, page>>, NEW v, NEW q, Render(v, q), Base(v, q), Flag(v, q),
         id' \in Case, ver[<<"cases", id'>>] > 0, acked' \in [Item -> Nat], Known(acked'),
         overlapped' \in BOOLEAN, ~overlapped' => Alone(v, q, acked', id'),
         page = "DocumentDetails" => UNCHANGED acked
  PROVE  Inv'
<1> USE DEF server
<1>1. Backend'
  BY DEF Inv, Backend, Known
<1>2. Base(view', job') /\ view'.busy \subseteq Mounted(view') /\ Flag(view', job')
  BY RenderedBase, RenderedFlag DEF Base
<1>3. ~overlapped' => Alone(view', job', acked', id')
  BY RenderedAlone DEF Base
<1>4. Dialogs' = Dialogs /\ Plan' = Plan /\ Mounted(view)' = Mounted(view')
  BY DEF Dialogs, Plan, Mounted, Content
<1>5. Call' = Call /\ View' = View
  BY <1>4 DEF Call, View, Does
<1>6. ASSUME NEW j \in Job PROVE CallOK(job[j])'
  BY <1>2, <1>4, <1>5 DEF Base, CallOK, Known
<1>7. Base(view, job)'
  BY <1>2, <1>5, <1>6 DEF Base, Known
<1>8. Flag(view, job)'
  BY <1>2, <1>4 DEF Flag
<1>9. ASSUME ~overlapped' PROVE Alone(view, job, acked, id)'
  <2>1. Alone(view', job', acked', id')
    BY <1>3, <1>9
  <2>2. PartsOf(Plan)' = PartsOf(Plan)
    BY <1>4 DEF PartsOf
  <2> QED BY <2>1, <2>2, <1>4 DEF Alone, AloneCall, Settled, Sound, Held, Relevant
<1>10. ReadOnly(acked)'
  BY DEF Inv, ReadOnly
<1> QED BY <1>1, <1>2, <1>4, <1>7, <1>8, <1>9, <1>10 DEF Inv
-----------------------------------------------------------------------------
(* The calls a handler makes or ends.                                       *)
LEMMA IdleOK == ASSUME Backend PROVE CallOK(Idle)
BY IdleFacts DEF CallOK, Known, Nothing, Backend

LoadFor(does, own, c) == [Loading(does, own) EXCEPT !.for = c]
NewLoad(n, does, own, c) ==
  /\ CallOK(n) /\ n.does = does /\ n.own = own /\ n.at = "load" /\ n.step = 1
  /\ n.for = c /\ n.low = ver
LEMMA LoadOK ==
  ASSUME Backend, NEW does \in Dialogs \cup {"load"}, NEW own \in BOOLEAN, NEW c \in Case
  PROVE  NewLoad(LoadFor(does, own, c), does, own, c)
<1> DEFINE n == LoadFor(does, own, c)
<1>1. /\ n \in Call /\ n.does = does /\ n.own = own /\ n.at = "load" /\ n.step = 1
      /\ n.for = c /\ n.low = ver /\ n.got = Nothing
  BY IdleFacts DEF LoadFor, Loading, Idle, Call, Does, Backend
<1> HIDE DEF n
<1>2. CallOK(n)
  <2>1. 1 \in 1..Len(Plan)
    BY PlanFacts DEF Backend
  <2>2. n.does \notin {"nothing", "toggle", "active"}
    BY <1>1, DialogFacts
  <2> QED BY <1>1, <2>1, <2>2 DEF CallOK, Known, Nothing, Backend
<1>3. NewLoad(n, does, own, c)
  BY <1>1, <1>2 DEF NewLoad
<1> QED BY <1>3 DEF n

LEMMA PageLoadOK ==
  ASSUME Backend, NEW c \in Case
  PROVE  NewLoad(LoadFor("load", FALSE, c), "load", FALSE, c)
BY LoadOK, Zenon

LEMMA SentOK ==
  ASSUME Backend, NEW d \in Dialogs \cup {"toggle"}, NEW c \in {0} \cup Case,
         d = "toggle" => page = "Users" /\ c \in Case
  PROVE  LET n == Sent(d, c)
         IN CallOK(n) /\ n.does = d /\ n.own /\ n.at = "sent" /\ n.for = c /\ n.url = id
<1> DEFINE n == Sent(d, c)
<1>1. /\ n \in Call /\ n.does = d /\ n.own /\ n.at = "sent" /\ n.for = c /\ n.url = id
      /\ n.low = Nothing /\ n.got = Nothing
  BY IdleFacts DEF Sent, Idle, Call, Does, Backend
<1> HIDE DEF n
<1>2. CallOK(n)
  <2>1. n.does \notin {"nothing", "active"}
    BY <1>1, DialogFacts
  <2> QED BY <1>1, <2>1, DialogFacts DEF CallOK, Known, Nothing, Backend
<1> QED BY <1>1, <1>2 DEF n

(* What closing a dialog and ending a submission leave alone.               *)
Same(v, w) ==
  /\ w.shown = v.shown /\ w.loading = v.loading /\ w.error = v.error
  /\ w.partial = v.partial /\ w.twice = v.twice /\ w.acting = v.acting

LEMMA ClosedFacts ==
  ASSUME NEW v \in View, NEW d
  PROVE  Closed(v, d) \in View /\ Same(v, Closed(v, d)) /\ Closed(v, d).busy = v.busy
BY DEF Closed, View, Same

LEMMA EndedFacts ==
  ASSUME NEW v \in View, NEW j
  PROVE  /\ Ended(v, j) \in View /\ Same(v, Ended(v, j))
         /\ Ended(v, j).busy = IF job[j].own THEN v.busy \ {job[j].does} ELSE v.busy
BY DEF Ended, View, Same

LEMMA EndedElse ==
  ASSUME NEW v \in View, NEW j, job[j].does \notin Dialogs
  PROVE  Ended(v, j).busy = v.busy
<1>1. v.busy \subseteq Dialogs
  BY DEF View
<1>2. v.busy \ {job[j].does} = v.busy
  BY <1>1
<1> QED BY <1>2, EndedFacts

-----------------------------------------------------------------------------
(* One call changes, and the page with it.                                  *)
LEMMA BaseStep ==
  ASSUME Inv, NEW j \in Job, NEW c, CallOK(c), NEW v \in View, Known(v.shown)
  PROVE  Base(v, [job EXCEPT ![j] = c])
BY DEF Inv, Base, CallOK

LEMMA FlagStep ==
  ASSUME Inv, NEW j \in Job, NEW c, NEW v \in View,
         v.loading => Reads(c) \/ (view.loading /\ ~Reads(job[j])),
         \/ v.busy = view.busy /\ c.does = job[j].does /\ c.own = job[j].own
         \/ v.busy = Ended(view, j).busy /\ c.does \notin Dialogs,
         v.acting # 0 =>
           \/ c.does = "toggle" /\ c.for = v.acting
           \/ /\ v.acting = view.acting
              /\ job[j].does = "toggle" => c.does = "toggle" /\ c.for = job[j].for,
         page = "Users" /\ v.twice => v.loading \/ v.error
  PROVE  Flag(v, [job EXCEPT ![j] = c])
<1> DEFINE q == [job EXCEPT ![j] = c]
<1>1. /\ q[j] = c /\ \A k \in Job : k # j => q[k] = job[k]
  BY DEF Inv, Base
<1>2. Flag(view, job) /\ view \in View /\ job \in [Job -> Call]
  BY DEF Inv, Base
<1> HIDE DEF q
<1>3. v.loading => \E k \in Job : Reads(q[k])
  <2>1. CASE Reads(c)
    BY <2>1, <1>1
  <2>2. CASE view.loading /\ ~Reads(job[j])
    BY <2>2, <1>1, <1>2 DEF Flag
  <2> QED BY <2>1, <2>2
<1>4. Ended(view, j).busy = IF job[j].own THEN view.busy \ {job[j].does} ELSE view.busy
  BY <1>2, EndedFacts
<1>5. ASSUME NEW d \in v.busy PROVE \E k \in Job : q[k].does = d /\ q[k].own
  <2>1. PICK k \in Job : job[k].does = d /\ job[k].own
    BY <1>2, <1>4 DEF Flag
  <2>2. CASE k # j
    BY <2>1, <2>2, <1>1
  <2>3. CASE k = j
    BY <2>1, <2>3, <1>1, <1>4
  <2> QED BY <2>2, <2>3
<1>6. v.acting # 0 => \E k \in Job : q[k].does = "toggle" /\ q[k].for = v.acting
  BY <1>1, <1>2 DEF Flag
<1>7. ASSUME page \in Steady, NEW k \in Job, NEW l \in Job, q[k].does \in Dialogs
      PROVE  q[k].own /\ q[k].does \in v.busy /\ (q[l].does = q[k].does => k = l)
  <2>1. \A m, n \in Job :
          job[m].does \in Dialogs =>
            job[m].own /\ job[m].does \in view.busy /\ (job[n].does = job[m].does => m = n)
    BY <1>2, <1>7 DEF Flag
  <2>2. CASE v.busy = view.busy /\ c.does = job[j].does /\ c.own = job[j].own
    BY <2>1, <2>2, <1>1, <1>7
  <2>3. CASE v.busy = Ended(view, j).busy /\ c.does \notin Dialogs
    <3>1. k # j /\ q[k] = job[k]
      BY <2>3, <1>1, <1>7
    <3>2. job[k].own /\ job[k].does \in view.busy /\ job[j].does # job[k].does
      BY <3>1, <2>1, <1>7
    <3>3. q[l].does = q[k].does => k = l
      BY <3>1, <2>1, <2>3, <1>1, <1>7
    <3> QED BY <3>1, <3>2, <3>3, <2>3, <1>4
  <2> QED BY <2>2, <2>3
<1> QED BY <1>3, <1>5, <1>6, <1>7 DEF Flag, q

LEMMA AloneStep ==
  ASSUME Inv, NEW j \in Job, NEW c, NEW v, NEW a, NEW url,
         \A k \in Job : Live(job[k]) => k = j,
         Live(c) => AloneCall(c, v, a, url),
         ~v.loading /\ ~v.error => Settled(v, a, url)
  PROVE  Alone(v, [job EXCEPT ![j] = c], a, url)
<1> DEFINE q == [job EXCEPT ![j] = c]
<1>1. /\ q[j] = c /\ \A k \in Job : k # j => q[k] = job[k]
  BY DEF Inv, Base
<1> HIDE DEF q
<1> QED BY <1>1 DEF Alone, q

(* Calls that overlap with a call, seen from that call.                     *)
LEMMA AloneCalls ==
  ASSUME Inv, NEW j \in Job, Calls \ {j} = {}
  PROVE  \A k \in Job : Live(job[k]) => k = j
<1>1. Idle.at = "done"
  BY IdleFacts
<1> QED BY <1>1 DEF Live, Calls

(* A load that starts when no other call is in flight.                      *)
LEMMA LoadAlone ==
  ASSUME Inv, NEW j \in Job, NEW c, NEW v, NEW a, NEW url \in Case,
         \A k \in Job : Live(job[k]) => k = j,
         c.at = "load", c.does # "toggle", c.step = 1, c.low = ver,
         page \in Details => c.for = url, v.loading, Known(a), ver[<<"cases", url>>] > 0
  PROVE  Alone(v, [job EXCEPT ![j] = c], a, url)
<1>1. Sound(c, v, a, url)
  BY DEF Sound, Known
<1>2. AloneCall(c, v, a, url)
  BY <1>1 DEF AloneCall
<1> QED BY <1>2, AloneStep
(* A handler that reloads the page.                                         *)
LEMMA StartStep ==
  ASSUME Inv, UNCHANGED <<server, page>>, NEW j \in Job, NEW c, NEW v \in View, Start(v, j, c),
         CallOK(c), c.at = "load", c.does \in Dialogs \cup {"load"}, c.step = 1, c.low = ver,
         Known(v.shown), id' \in Case, ver[<<"cases", id'>>] > 0,
         acked' \in [Item -> Nat], Known(acked'),
         ~overlapped' /\ page \in Details => c.for = id',
         \/ v.busy = view.busy /\ c.does = job[j].does /\ c.own = job[j].own
         \/ v.busy = Ended(view, j).busy /\ c.does \notin Dialogs,
         v.acting = view.acting, job[j].does # "toggle",
         page = "DocumentDetails" => UNCHANGED acked
  PROVE  Inv'
<1> DEFINE w == [v EXCEPT !.loading = TRUE, !.error = FALSE]
           q == [job EXCEPT ![j] = c]
<1>1. /\ w \in View /\ w.loading /\ ~w.error /\ w.shown = v.shown /\ w.busy = v.busy
      /\ w.acting = v.acting
  BY DEF View
<1>2. /\ Render(w, q)
      /\ overlapped' = ((overlapped /\ c.for # id) \/ Calls \ {j} # {})
  BY DEF Start
<1>3. overlapped' \in BOOLEAN
  BY <1>2
<1>4. ~overlapped' => \A k \in Job : Live(job[k]) => k = j
  BY <1>2, AloneCalls
<1>5. c.does \notin {"active", "toggle"} /\ Reads(c)
  BY DialogFacts DEF Reads
<1> HIDE DEF w
<1>6. Base(w, q)
  BY <1>1, BaseStep
<1>7. Flag(w, q)
  BY <1>1, <1>5, FlagStep
<1>8. ASSUME ~overlapped' PROVE Alone(w, q, acked', id')
  BY <1>1, <1>4, <1>5, <1>8, LoadAlone
<1> HIDE DEF q
<1> QED BY <1>2, <1>3, <1>6, <1>7, <1>8, ClientStep

(* The clicks that reload, and a jump to another case.                      *)
LEMMA Reloads ==
  ASSUME Inv, UNCHANGED <<server, page>>, NEW j \in Free, NEW c,
         Start(view, j, c), c = LoadFor("load", FALSE, id'),
         id' \in Case, ver[<<"cases", id'>>] > 0, UNCHANGED acked
  PROVE  Inv'
<1>1. Backend /\ Base(view, job)
  BY DEF Inv
<1>2. /\ CallOK(c) /\ c.does = "load" /\ c.at = "load" /\ c.step = 1 /\ c.for = id'
      /\ c.low = ver
  BY <1>1, PageLoadOK DEF NewLoad
<1>3. j \in Job /\ job[j] = Idle /\ ~job[j].own /\ job[j].does = "nothing"
  BY IdleFacts DEF Free
<1>4. view \in View /\ Known(view.shown) /\ acked' \in [Item -> Nat] /\ Known(acked')
  BY <1>1 DEF Base, Backend, Known
<1>5. view.busy = Ended(view, j).busy /\ c.does \notin Dialogs
  BY <1>2, <1>3, <1>4, EndedFacts, DialogFacts
<1> QED BY <1>2, <1>3, <1>4, <1>5, StartStep

LEMMA ClickInv ==
  ASSUME Inv, ClickRefresh \/ ClickRetry
  PROVE  Inv'
<1>1. PICK j \in Free : Start(view, j, Loading("load", FALSE))
  BY DEF ClickRefresh, ClickRetry
<1>2. UNCHANGED <<server, page, id, acked>>
  BY DEF ClickRefresh, ClickRetry
<1>3. Backend
  BY DEF Inv
<1>4. Loading("load", FALSE) = LoadFor("load", FALSE, id)
  BY DEF LoadFor, Loading, Idle
<1>5. id' \in Case /\ ver[<<"cases", id'>>] > 0
  BY <1>2, <1>3 DEF Backend
<1> QED BY <1>1, <1>2, <1>4, <1>5, Reloads

LEMMA GoToInv ==
  ASSUME Inv, NEW c \in Case, GoTo(c)
  PROVE  Inv'
<1>1. PICK j \in Free : Start(view, j, LoadFor("load", FALSE, c))
  BY DEF GoTo, LoadFor
<1>2. UNCHANGED <<server, page, acked>> /\ id' = c /\ ver[<<"cases", c>>] > 0
  BY DEF GoTo
<1> QED BY <1>1, <1>2, Reloads

-----------------------------------------------------------------------------
(* The dialogs.                                                             *)
LEMMA DialogStep ==
  ASSUME Inv, UNCHANGED <<server, page, id, acked, overlapped>>, NEW v \in View,
         Same(view, v), v.busy = view.busy, Render(v, job)
  PROVE  Inv'
<1>1. Base(v, job)
  BY DEF Inv, Base, Same
<1>2. Flag(v, job)
  BY DEF Inv, Flag, Same
<1>3. ASSUME ~overlapped PROVE Alone(v, job, acked, id)
  <2>1. Alone(view, job, acked, id)
    BY <1>3 DEF Inv
  <2>2. \A c : Held(c, v) = Held(c, view)
    BY DEF Held, Same
  <2>3. \A c : Sound(c, view, acked, id) => Sound(c, v, acked, id)
    BY <2>2 DEF Sound, Same
  <2>4. \A c : AloneCall(c, view, acked, id) => AloneCall(c, v, acked, id)
    BY <2>3 DEF AloneCall, Same
  <2>5. Settled(view, acked, id) => Settled(v, acked, id)
    BY DEF Settled, Same
  <2> QED BY <2>1, <2>4, <2>5 DEF Alone, Same
<1>4. id' \in Case /\ ver[<<"cases", id'>>] > 0 /\ acked' \in [Item -> Nat] /\ Known(acked')
      /\ overlapped' \in BOOLEAN
  BY DEF Inv, Backend, Known
<1> QED BY <1>1, <1>2, <1>3, <1>4, ClientStep

LEMMA OpenDialogInv ==
  ASSUME Inv, NEW d \in Dialogs, OpenDialog(d)
  PROVE  Inv'
<1>1. PICK c \in Case :
        Render([view EXCEPT !.open = d, !.on = IF d = "transfer" THEN c ELSE 0], job)
  BY DEF OpenDialog
<1> DEFINE v == [view EXCEPT !.open = d, !.on = IF d = "transfer" THEN c ELSE 0]
<1>2. v \in View /\ Same(view, v) /\ v.busy = view.busy
  BY DEF Inv, Base, View, Same
<1>3. UNCHANGED <<server, page, id, acked, overlapped>>
  BY DEF OpenDialog
<1> HIDE DEF v
<1>4. Render(v, job)
  BY <1>1 DEF v
<1> QED BY <1>2, <1>3, <1>4, DialogStep

LEMMA CloseDialogInv ==
  ASSUME Inv, CloseDialog
  PROVE  Inv'
<1> DEFINE v == [view EXCEPT !.open = "none"]
<1>1. v \in View /\ Same(view, v) /\ v.busy = view.busy
  BY DEF Inv, Base, View, Same
<1>2. Render(v, job) /\ UNCHANGED <<server, page, id, acked, overlapped>>
  BY DEF CloseDialog
<1> HIDE DEF v
<1> QED BY <1>1, <1>2, DialogStep

(* A call that is submitted, from a dialog or from a row.                   *)
LEMMA SentStep ==
  ASSUME Inv, UNCHANGED <<server, page, id, acked>>, NEW j \in Free, NEW c, NEW v \in View,
         Render(v, [job EXCEPT ![j] = c]), Began, CallOK(c), c.at = "sent", c.url = id,
         v.shown = view.shown, v.loading = view.loading, v.error = view.error,
         v.partial = view.partial, c.does = "toggle" => v.shown[<<"users", c.for>>] > 0,
         Flag(v, [job EXCEPT ![j] = c])
  PROVE  Inv'
<1> DEFINE q == [job EXCEPT ![j] = c]
<1>1. j \in Job
  BY DEF Free
<1>2. Known(v.shown)
  BY DEF Inv, Base
<1>3. Base(v, q)
  BY <1>1, <1>2, BaseStep
<1>4. ASSUME ~overlapped' PROVE Alone(v, q, acked, id)
  <2>1. ~overlapped /\ \A k \in Job : Live(job[k]) => k = j
    BY <1>1, <1>4, AloneCalls DEF Began
  <2>2. AloneCall(c, v, acked, id)
    BY DEF AloneCall
  <2>3. ~v.loading /\ ~v.error => Settled(v, acked, id)
    BY <2>1 DEF Inv, Alone, Settled
  <2> QED BY <1>1, <2>1, <2>2, <2>3, AloneStep
<1>5. id' \in Case /\ ver[<<"cases", id'>>] > 0 /\ acked' \in [Item -> Nat] /\ Known(acked')
      /\ overlapped' \in BOOLEAN
  BY DEF Inv, Backend, Known, Began
<1> HIDE DEF q
<1>6. Render(v, q) /\ Flag(v, q)
  BY DEF q
<1> QED BY <1>3, <1>4, <1>5, <1>6, ClientStep
-----------------------------------------------------------------------------
(* The newest of some cases is one of them.                                 *)
LEMMA HasMax ==
  ASSUME NEW n \in Nat, NEW S, S \subseteq 1..n, S # {}
  PROVE  Max(S) \in S
<1> DEFINE R == OpToRel(<, Nat)
           T == {m \in Nat : n - m \in S}
<1>1. IsWellFoundedOn(R, Nat)
  BY NatLessThanWellFounded
<1>2. T \subseteq Nat /\ T # {}
  <2>1. PICK x \in S : TRUE
    OBVIOUS
  <2>2. n - x \in Nat /\ n - (n - x) = x
    OBVIOUS
  <2>3. n - x \in T
    BY <2>2
  <2> QED BY <2>3
<1>3. PICK t \in T : \A u \in T : ~(<<u, t>> \in R)
  <2> HIDE DEF R, T
  <2> QED BY <1>1, <1>2, WFMin
<1>4. ASSUME NEW y \in S PROVE n - t >= y
  <2>1. y \in 1..n /\ n - y \in T /\ t \in Nat /\ n - (n - y) = y
    OBVIOUS
  <2>2. ~(n - y < t)
    BY <1>3, <2>1 DEF OpToRel
  <2> QED BY <2>1, <2>2
<1>5. n - t \in S
  OBVIOUS
<1> HIDE DEF R, T
<1> QED BY <1>4, <1>5 DEF Max

LEMMA NewestType ==
  ASSUME NEW S, S \subseteq Case
  PROVE  Newest(S) \in {0} \cup Case
BY HasMax, BoundsArePositive DEF Newest, Case

LEMMA WriteTargetType ==
  ASSUME Inv
  PROVE  WriteTarget \in {0} \cup Case
<1>1. HeaderCase \in {0} \cup Case
  BY NewestType DEF HeaderCase
<1>2. view.target \in {0} \cup Case
  BY DEF Inv, Base, View
<1> QED BY <1>1, <1>2 DEF WriteTarget

LEMMA SubmitInv ==
  ASSUME Inv, NEW d, NEW c \in {0} \cup Case, Submit(d, c)
  PROVE  Inv'
<1>1. PICK j \in Free : Render([view EXCEPT !.busy = @ \cup {d}], [job EXCEPT ![j] = Sent(d, c)])
  BY DEF Submit
<1> DEFINE v == [view EXCEPT !.busy = @ \cup {d}]
           n == Sent(d, c)
           q == [job EXCEPT ![j] = n]
<1>2. /\ Backend /\ view \in View /\ job \in [Job -> Call] /\ Flag(view, job)
  BY DEF Inv, Base
<1>3. d \in Dialogs /\ d \notin view.busy /\ d # "toggle"
  BY <1>2, DialogFacts DEF Submit, DialogShown, View
<1>4. CallOK(n) /\ n.does = d /\ n.own /\ n.at = "sent" /\ n.for = c /\ n.url = id
  <2>1. d \in Dialogs \cup {"toggle"} /\ 0 \in Nat
    BY <1>3
  <2> QED BY <1>2, <1>3, <2>1, SentOK, Zenon
<1>6. Render(v, q) /\ Began /\ UNCHANGED <<server, page, id, acked>>
  BY <1>1 DEF Submit
<1>7. /\ v \in View /\ v.busy = view.busy \cup {d} /\ v.shown = view.shown
      /\ v.loading = view.loading /\ v.error = view.error /\ v.partial = view.partial
      /\ v.acting = view.acting /\ v.twice = view.twice
  BY <1>2, <1>3 DEF View
<1>8. j \in Job /\ job[j].does = "nothing" /\ ~Reads(job[j]) /\ d # "nothing"
  BY <1>3, IdleFacts, DialogFacts DEF Free, Reads
<1>9. q[j] = n /\ \A k \in Job : k # j => q[k] = job[k]
  BY <1>2, <1>8
<1> HIDE DEF v, n, q
<1>10. Flag(v, q)
  <2>1. v.loading => \E k \in Job : Reads(q[k])
    BY <1>2, <1>7, <1>8, <1>9 DEF Flag
  <2>2. ASSUME NEW e \in v.busy PROVE \E k \in Job : q[k].does = e /\ q[k].own
    <3>1. CASE e = d
      BY <3>1, <1>4, <1>8, <1>9
    <3>2. CASE e # d
      <4>1. PICK k \in Job : job[k].does = e /\ job[k].own
        BY <3>2, <1>2, <1>7 DEF Flag
      <4>2. k # j
        BY <4>1, <1>2, <1>7, <1>8, IdleFacts DEF Free
      <4> QED BY <4>1, <4>2, <1>9
    <3> QED BY <3>1, <3>2
  <2>3. v.acting # 0 => \E k \in Job : q[k].does = "toggle" /\ q[k].for = v.acting
    BY <1>2, <1>7, <1>8, <1>9 DEF Flag
  <2>4. ASSUME page \in Steady, NEW k \in Job, NEW l \in Job, q[k].does \in Dialogs
        PROVE  q[k].own /\ q[k].does \in v.busy /\ (q[l].does = q[k].does => k = l)
    <3>1. \A m \in Job : job[m].does # d
      BY <1>2, <1>3, <2>4 DEF Flag
    <3>2. CASE k = j
      BY <3>1, <3>2, <1>4, <1>7, <1>9
    <3>3. CASE k # j
      <4>1. job[k].own /\ job[k].does \in view.busy
            /\ (job[l].does = job[k].does => k = l)
        BY <3>3, <2>4, <1>2, <1>9 DEF Flag
      <4> QED BY <3>1, <3>3, <4>1, <1>4, <1>7, <1>9
    <3> QED BY <3>2, <3>3
  <2>5. page = "Users" /\ v.twice => v.loading \/ v.error
    BY <1>2, <1>7 DEF Flag
  <2> QED BY <2>1, <2>2, <2>3, <2>4, <2>5 DEF Flag
<1>11. Render(v, [job EXCEPT ![j] = n]) /\ Flag(v, [job EXCEPT ![j] = n])
  BY <1>6, <1>10 DEF q
<1> QED BY <1>3, <1>4, <1>6, <1>7, <1>11, SentStep

LEMMA ToggleInv ==
  ASSUME Inv, NEW u \in Case, handleToggleStatus(u)
  PROVE  Inv'
<1> DEFINE step == view.shown[<<"users", u>>]
           m == Sent("toggle", u)
           n == [m EXCEPT !.step = step]
           v == [view EXCEPT !.acting = u]
<1>1. PICK j \in Free : Render(v, [job EXCEPT ![j] = n])
  BY DEF handleToggleStatus
<1>2. Backend /\ view \in View /\ Flag(view, job)
  BY DEF Inv, Base
<1>3. /\ step \in Nat /\ step > 0 /\ page = "Users"
      /\ Began /\ UNCHANGED <<server, page, id, acked>>
  BY <1>2 DEF handleToggleStatus, View, Item, Part
<1> HIDE DEF step
<1>4. CallOK(n) /\ n.does = "toggle" /\ n.own /\ n.at = "sent" /\ n.for = u /\ n.url = id
  <2>1. "toggle" \in Dialogs \cup {"toggle"} /\ u \in {0} \cup Case
    OBVIOUS
  <2>2. CallOK(m) /\ m.does = "toggle" /\ m.own /\ m.at = "sent" /\ m.for = u /\ m.url = id
    BY <1>2, <1>3, <2>1, SentOK, Zenon
  <2> HIDE DEF m
  <2>3. /\ n \in Call /\ n.does = "toggle" /\ n.own /\ n.at = "sent" /\ n.for = u /\ n.url = id
        /\ n.low = m.low /\ n.got = m.got
    BY <1>3, <2>2 DEF CallOK, Call
  <2> QED BY <2>2, <2>3 DEF CallOK
<1>5. /\ v \in View /\ v.busy = view.busy /\ v.shown = view.shown
      /\ v.loading = view.loading /\ v.error = view.error /\ v.partial = view.partial
      /\ v.acting = u /\ v.twice = view.twice
  BY <1>2 DEF View
<1>6. j \in Job /\ job[j] = Idle /\ ~job[j].own /\ ~Reads(job[j])
  BY IdleFacts DEF Free, Reads
<1> HIDE DEF v, n
<1>7. Ended(view, j).busy = view.busy /\ n.does \notin Dialogs
  BY <1>2, <1>4, <1>6, EndedFacts, DialogFacts
<1>8. page = "Users" /\ v.twice => v.loading \/ v.error
  BY <1>2, <1>5 DEF Flag
<1>9. Flag(v, [job EXCEPT ![j] = n])
  BY <1>4, <1>5, <1>6, <1>7, <1>8, FlagStep
<1> QED BY <1>1, <1>3, <1>4, <1>5, <1>9, SentStep DEF step
-----------------------------------------------------------------------------
(* The backend's steps: what was known stays known.                         *)
LEMMA ChangedItems ==
  ASSUME NEW does, NEW n \in Case
  PROVE  Changed(does, n) \subseteq Item
BY DEF Changed, createCase, createUser, toggleUserStatus, uploadDocument, createEvidence,
       transferCustody, Item, Part

LEMMA Committed ==
  ASSUME Backend, NEW set \in SUBSET Item, writes < MaxWrites, Commit(set)
  PROVE  /\ ver' \in [Item -> Nat] /\ writes' \in 0..MaxWrites
         /\ \A i \in set : ver'[i] > 0
         /\ \A k \in Item : ver[k] <= ver'[k] /\ ver'[k] <= writes' + 1
BY BoundsArePositive DEF Backend, Commit

LEMMA Grown ==
  ASSUME Inv, UNCHANGED <<page, id, acked, overlapped>>,
         ver' \in [Item -> Nat], writes' \in 0..MaxWrites,
         \A k \in Item : ver[k] <= ver'[k] /\ ver'[k] <= writes' + 1
  PROVE  /\ Backend' /\ Does' = Does /\ Call' = Call /\ View' = View
         /\ \A f \in [Item -> Nat] : Known(f) => Known(f)'
         /\ \A c \in Call : CallOK(c) => CallOK(c)'
<1>1. Backend /\ ver \in [Item -> Nat]
  BY DEF Inv, Backend
<1>2. ASSUME NEW f \in [Item -> Nat], Known(f) PROVE Known(f)'
  <2>1. ASSUME NEW i \in Item PROVE f[i] <= ver'[i]
    <3>1. f[i] <= ver[i] /\ ver[i] <= ver'[i] /\ f[i] \in Nat /\ ver[i] \in Nat /\ ver'[i] \in Nat
      BY <1>1, <1>2 DEF Known
    <3> QED BY <3>1
  <2> QED BY <2>1 DEF Known
<1>3. Dialogs' = Dialogs /\ Plan' = Plan
  BY DEF Dialogs, Plan
<1>4. Does' = Does /\ Call' = Call /\ View' = View
  BY <1>3 DEF Does, Call, View
<1>5. ver'[<<"cases", id>>] > 0
  BY <1>1 DEF Backend, Item, Part
<1>6. Known(acked)'
  BY <1>1, <1>2 DEF Backend, Known
<1>7. Backend'
  BY <1>1, <1>5, <1>6 DEF Backend
<1>8. ASSUME NEW c \in Call, CallOK(c) PROVE CallOK(c)'
  <2>1. Known(c.low)' /\ Known(c.got)'
    BY <1>2, <1>8 DEF CallOK, Call
  <2>2. c.at = "ok" /\ c.does # "toggle" => \A i \in Answer(c) : ver'[i] > 0
    <3>1. c.at = "ok" => Answer(c) \subseteq Item
      BY <1>8, ChangedItems DEF Answer, CallOK
    <3> QED BY <1>1, <1>8, <3>1 DEF CallOK
  <2>3. Call' = Call /\ Plan' = Plan /\ Dialogs' = Dialogs
    BY <1>3, <1>4
  <2> QED BY <1>8, <2>1, <2>2, <2>3 DEF CallOK, Answer
<1> QED BY <1>2, <1>4, <1>7, <1>8

LEMMA ElsewhereInv ==
  ASSUME Inv, Elsewhere
  PROVE  Inv'
<1>1. UNCHANGED <<page, id, view, job, acked, overlapped>> /\ writes < MaxWrites
  BY DEF Elsewhere
<1>2. PICK set \in SUBSET Item : Commit(set)
  <2>1. ASSUME NEW part \in {"cases", "users"} \cap PartsOf(Plan), NextNew(part) \in Case
        PROVE  {<<part, NextNew(part)>>} \in SUBSET Item
    BY <2>1 DEF Item, Part
  <2>2. ASSUME NEW n \in Case, NEW does PROVE Changed(does, n) \in SUBSET Item
    BY <2>2, ChangedItems
  <2> QED BY <2>1, <2>2 DEF Elsewhere
<1>3. Backend
  BY DEF Inv
<1>4. /\ Backend' /\ Call' = Call /\ View' = View
      /\ \A f \in [Item -> Nat] : Known(f) => Known(f)'
      /\ \A c \in Call : CallOK(c) => CallOK(c)'
  BY <1>1, <1>2, <1>3, Committed, Grown
<1>5. Base(view, job)'
  BY <1>1, <1>4 DEF Inv, Base, View
<1>6. Dialogs' = Dialogs /\ Plan' = Plan
  BY <1>1 DEF Dialogs, Plan
<1>7. view'.busy \subseteq Mounted(view)' /\ Flag(view, job)'
  BY <1>1, <1>6 DEF Inv, Flag, Mounted, Content
<1>8. ~overlapped' => Alone(view, job, acked, id)'
  <2>1. PartsOf(Plan)' = PartsOf(Plan)
    BY <1>6 DEF PartsOf
  <2> QED BY <1>1, <1>6, <2>1 DEF Inv, Alone, AloneCall, Settled, Sound, Held, Relevant
<1>9. ReadOnly(acked)'
  BY <1>1 DEF Inv, ReadOnly
<1> QED BY <1>4, <1>5, <1>7, <1>8, <1>9 DEF Inv

(* The page is told of none of it, and the call is not a load.              *)
LEMMA ServedInv ==
  ASSUME Inv, UNCHANGED <<page, id, view, acked, overlapped>>, Backend', Call' = Call,
         View' = View, \A f \in [Item -> Nat] : Known(f) => Known(f)',
         \A n \in Call : CallOK(n) => CallOK(n)',
         NEW j \in Job, job[j].at = "sent", NEW c \in Call, job' = [job EXCEPT ![j] = c],
         CallOK(c)', c.does = job[j].does, c.own = job[j].own, c.url = job[j].url,
         c.at \in {"ok", "failed"}, c.at = "ok" => c.low = ver',
         c.does = "toggle" => c.for = job[j].for
  PROVE  Inv'
<1>1. Dialogs' = Dialogs /\ Plan' = Plan /\ PartsOf(Plan)' = PartsOf(Plan)
  BY DEF Dialogs, Plan, PartsOf
<1>2. /\ view \in View /\ Known(view.shown) /\ job \in [Job -> Call]
      /\ \A k \in Job : CallOK(job[k]) /\ job[k] \in Call
  BY DEF Inv, Base
<1>3. job'[j] = c /\ (\A k \in Job : k # j => job'[k] = job[k]) /\ job' \in [Job -> Call]
  BY <1>2
<1>4. \A k \in Job : CallOK(job[k])'
  BY <1>2, <1>3
<1>5. Base(view, job)'
  BY <1>2, <1>3, <1>4 DEF Base, View
<1>6. view'.busy \subseteq Mounted(view)'
  BY <1>1 DEF Inv, Mounted, Content
<1>7. Flag(view, [job EXCEPT ![j] = c])
  <2>1. ~Reads(job[j])
    BY DEF Reads
  <2>2. page = "Users" /\ view.twice => view.loading \/ view.error
    BY DEF Inv, Flag
  <2> QED BY <1>2, <2>1, <2>2, FlagStep
<1>8. Flag(view, job)'
  BY <1>1, <1>7 DEF Flag
<1>9. ASSUME ~overlapped' PROVE Alone(view, job, acked, id)'
  <2>1. Alone(view, job, acked, id) /\ c.does # "active"
    <3>1. c.does # "active"
      BY <1>2 DEF CallOK
    <3> QED BY <1>9, <3>1 DEF Inv
  <2>2. Live(job[j])
    BY <2>1 DEF Live
  <2>3. \A k \in Job : Live(job[k]) => k = j
    BY <2>1, <2>2 DEF Alone
  <2>4. AloneCall(job[j], view, acked, id)
    BY <2>1, <2>2 DEF Alone
  <2>5. c.at = "ok" => \A i \in Item : acked[i] <= c.low[i]
    BY DEF Backend, Known
  <2>6. AloneCall(c, view, acked, id)
    BY <2>4, <2>5 DEF AloneCall
  <2>7. ~view.loading /\ ~view.error => Settled(view, acked, id)
    BY <2>1 DEF Alone
  <2>8. Alone(view, [job EXCEPT ![j] = c], acked, id)
    BY <2>3, <2>6, <2>7, AloneStep
  <2> QED BY <1>1, <2>8 DEF Alone, AloneCall, Settled, Sound, Held, Relevant
<1>10. ReadOnly(acked)'
  BY DEF Inv, ReadOnly
<1> QED BY <1>5, <1>6, <1>8, <1>9, <1>10 DEF Inv

LEMMA ServeInv ==
  ASSUME Inv, NEW j \in Job, ServeWrite(j)
  PROVE  Inv'
<1>1. /\ UNCHANGED <<page, id, view, acked, overlapped>> /\ job[j].at = "sent"
      /\ Backend /\ job \in [Job -> Call] /\ CallOK(job[j]) /\ job[j] \in Call
  BY DEF Inv, Base, ServeWrite
<1>2. PICK c : /\ job' = [job EXCEPT ![j] = c]
               /\ \/ /\ Number(j) \in Case
                     /\ \/ Repeats(j) /\ UNCHANGED server
                        \/ /\ ~Repeats(j) /\ writes < MaxWrites
                           /\ Commit(Changed(job[j].does, Number(j)))
                     /\ \E answer \in {"ok", "failed"} :
                          c = [job[j] EXCEPT !.at = answer, !.for = Number(j), !.low = ver']
                  \/ c = [job[j] EXCEPT !.at = "failed"] /\ UNCHANGED server
  <2> DEFINE taken(answer) == [job[j] EXCEPT !.at = answer, !.for = Number(j), !.low = ver']
             refused == [job[j] EXCEPT !.at = "failed"]
  <2>1. CASE /\ Number(j) \in Case
             /\ \/ Repeats(j) /\ UNCHANGED server
                \/ ~Repeats(j) /\ writes < MaxWrites /\ Commit(Changed(job[j].does, Number(j)))
             /\ \E answer \in {"ok", "failed"} :
                  job' = [job EXCEPT ![j].at = answer, ![j].for = Number(j), ![j].low = ver']
    <3>1. PICK answer \in {"ok", "failed"} :
            job' = [job EXCEPT ![j].at = answer, ![j].for = Number(j), ![j].low = ver']
      BY <2>1
    <3>2. job' = [job EXCEPT ![j] = taken(answer)]
      BY <1>1, <3>1
    <3> QED BY <2>1, <3>2
  <2>2. CASE job' = [job EXCEPT ![j].at = "failed"] /\ UNCHANGED server
    <3>1. job' = [job EXCEPT ![j] = refused]
      BY <1>1, <2>2
    <3> QED BY <2>2, <3>1
  <2> QED BY <2>1, <2>2 DEF ServeWrite, Accepts
<1>3. /\ ver' \in [Item -> Nat] /\ writes' \in 0..MaxWrites
      /\ \A k \in Item : ver[k] <= ver'[k] /\ ver'[k] <= writes' + 1
  <2>1. CASE UNCHANGED server
    <3>1. ver' = ver /\ writes' = writes
      BY <2>1 DEF server
    <3>2. \A k \in Item : ver[k] \in Nat /\ ver[k] <= writes + 1
      BY <1>1 DEF Backend
    <3> QED BY <1>1, <3>1, <3>2 DEF Backend
  <2>2. CASE ~UNCHANGED server
    BY <1>1, <1>2, <2>2, Committed, ChangedItems
  <2> QED BY <2>1, <2>2
<1>4. /\ Backend' /\ Does' = Does /\ Call' = Call /\ View' = View
      /\ \A f \in [Item -> Nat] : Known(f) => Known(f)'
      /\ \A n \in Call : CallOK(n) => CallOK(n)'
  BY <1>1, <1>3, Grown
<1>5. Dialogs' = Dialogs /\ Plan' = Plan
  BY <1>1 DEF Dialogs, Plan
<1>6. job[j].does \in Dialogs \cup {"toggle"}
  BY <1>1 DEF CallOK
<1>7. CASE c = [job[j] EXCEPT !.at = "failed"]
  <2>1. /\ c \in Call /\ c.does = job[j].does /\ c.own = job[j].own /\ c.at = "failed"
        /\ c.for = job[j].for /\ c.url = job[j].url /\ c.low = job[j].low /\ c.got = job[j].got
    BY <1>1, <1>7 DEF Call
  <2>2. CallOK(c)
    BY <1>1, <2>1 DEF CallOK
  <2>3. CallOK(c)'
    BY <1>4, <2>1, <2>2
  <2> QED BY <1>1, <1>2, <1>4, <2>1, <2>3, ServedInv
<1>8. CASE c # [job[j] EXCEPT !.at = "failed"]
  <2>1. PICK answer \in {"ok", "failed"} :
          c = [job[j] EXCEPT !.at = answer, !.for = Number(j), !.low = ver']
    BY <1>2, <1>8
  <2>2. Number(j) \in Case /\ Changed(job[j].does, Number(j)) \in SUBSET Item
    BY <1>2, <1>8, ChangedItems
  <2>3. /\ c \in Call /\ c.does = job[j].does /\ c.own = job[j].own /\ c.at = answer
        /\ c.for = Number(j) /\ c.url = job[j].url /\ c.low = ver' /\ c.got = job[j].got
    BY <1>1, <1>3, <2>1, <2>2 DEF Call
  <2>4. /\ Answer(c) = Changed(job[j].does, Number(j))
        /\ c.does = "toggle" => c.for = job[j].for
    BY <2>3 DEF Answer, Number
  <2>5. c.does # "toggle" => \A i \in Answer(c) : ver'[i] > 0
    <3>1. Repeats(j) \/ (writes < MaxWrites /\ Commit(Changed(job[j].does, Number(j))))
      BY <1>2, <1>8
    <3>2. Repeats(j) => c.does = "toggle"
      BY <2>3 DEF Repeats
    <3> QED BY <1>1, <2>2, <2>4, <3>1, <3>2, Committed
  <2>6. Known(c.low)' /\ Known(c.got)'
    <3>1. job[j].got \in [Item -> Nat] /\ Known(job[j].got)
      BY <1>1 DEF CallOK, Call
    <3>2. Known(c.got)'
      BY <1>4, <2>3, <3>1
    <3>3. \A k \in Item : c.low[k] = ver'[k] /\ ver'[k] \in Nat
      BY <1>3, <2>3
    <3> QED BY <3>2, <3>3 DEF Known
  <2>7. CallOK(c)'
    BY <1>1, <1>4, <1>5, <2>2, <2>3, <2>4, <2>5, <2>6 DEF CallOK, Answer
  <2> QED BY <1>1, <1>2, <1>4, <2>2, <2>3, <2>4, <2>7, ServedInv
<1> QED BY <1>7, <1>8
-----------------------------------------------------------------------------
(* The answers to writes.                                                   *)
LEMMA EndStep ==
  ASSUME Inv, UNCHANGED <<server, page, id, overlapped>>, NEW j \in Job, NEW v \in View,
         Render(v, [job EXCEPT ![j] = Idle]), Known(v.shown), ~Reads(job[j]),
         acked' \in [Item -> Nat], Known(acked'),
         v.busy = Ended(view, j).busy, v.loading = view.loading, v.error = view.error,
         v.twice = view.twice, v.acting = 0 \/ (v.acting = view.acting /\ job[j].does # "toggle"),
         ~overlapped => Alone(v, [job EXCEPT ![j] = Idle], acked', id),
         page = "DocumentDetails" => UNCHANGED acked
  PROVE  Inv'
<1> DEFINE q == [job EXCEPT ![j] = Idle]
<1>1. Backend /\ Flag(view, job)
  BY DEF Inv
<1>2. Base(v, q)
  BY <1>1, IdleOK, BaseStep
<1>3. Idle.does \notin Dialogs /\ Idle.does # "toggle"
  BY IdleFacts, DialogFacts
<1>4. page = "Users" /\ v.twice => v.loading \/ v.error
  BY <1>1 DEF Flag
<1>5. Flag(v, q)
  BY <1>3, <1>4, FlagStep
<1>6. id' \in Case /\ ver[<<"cases", id'>>] > 0 /\ overlapped' \in BOOLEAN
  BY <1>1 DEF Backend
<1> HIDE DEF q
<1>7. Render(v, q) /\ (~overlapped' => Alone(v, q, acked', id'))
  BY DEF q
<1> QED BY <1>2, <1>5, <1>6, <1>7, ClientStep

(* What is acknowledged was committed before.                               *)
LEMMA Acknowledged ==
  ASSUME Inv, NEW j \in Job, job[j].at = "ok", Acknowledge(j)
  PROVE  /\ acked' \in [Item -> Nat] /\ Known(acked')
         /\ \A i \in Item : \/ acked'[i] = acked[i]
                            \/ i \in Answer(job[j]) /\ acked'[i] = job[j].low[i]
         /\ page # "DocumentDetails"
<1>1. acked \in [Item -> Nat] /\ Known(acked)
  BY DEF Inv, Backend
<1>2. CallOK(job[j]) /\ job[j] \in Call
  BY DEF Inv, Base
<1>3. \A i \in Item : job[j].low[i] \in Nat /\ job[j].low[i] <= ver[i]
  BY <1>2 DEF CallOK, Call, Known
<1>4. acked' = [i \in Item |-> IF i \in Answer(job[j]) /\ job[j].low[i] > acked[i]
                              THEN job[j].low[i] ELSE acked[i]]
  BY DEF Acknowledge, Answer
<1>5. acked' \in [Item -> Nat]
  BY <1>1, <1>3, <1>4
<1>6. \A i \in Item : acked'[i] = acked[i] \/ (i \in Answer(job[j]) /\ acked'[i] = job[j].low[i])
  BY <1>4
<1>7. Known(acked')
  BY <1>1, <1>3, <1>6 DEF Known
<1>8. page # "DocumentDetails"
  BY <1>2, DialogFacts DEF CallOK
<1> QED BY <1>5, <1>6, <1>7, <1>8

LEMMA TakeRefusedInv ==
  ASSUME Inv, NEW j \in Job, TakeRefused(j)
  PROVE  Inv'
<1> DEFINE w == Ended(view, j)
           v == [w EXCEPT !.acting = IF job[j].does = "toggle" THEN 0 ELSE @]
<1>1. job[j].at = "failed" /\ UNCHANGED <<server, page, id, acked, overlapped>>
      /\ Render(v, [job EXCEPT ![j] = Idle])
  BY DEF TakeRefused
<1>2. w \in View /\ Same(view, w)
  BY EndedFacts DEF Inv, Base
<1> HIDE DEF w
<1>3. /\ v \in View /\ v.shown = w.shown /\ v.loading = w.loading /\ v.error = w.error
      /\ v.partial = w.partial /\ v.twice = w.twice /\ v.busy = w.busy
      /\ v.acting = 0 \/ (v.acting = w.acting /\ job[j].does # "toggle")
  BY <1>2 DEF View
<1> HIDE DEF v
<1>4. /\ v.shown = view.shown /\ v.loading = view.loading /\ v.error = view.error
      /\ v.partial = view.partial /\ v.twice = view.twice /\ v.busy = Ended(view, j).busy
      /\ v.acting = 0 \/ (v.acting = view.acting /\ job[j].does # "toggle")
  BY <1>2, <1>3 DEF Same, w
<1>5. Known(v.shown) /\ acked' \in [Item -> Nat] /\ Known(acked') /\ ~Reads(job[j])
  BY <1>1, <1>4 DEF Inv, Base, Backend, Known, Reads
<1>6. ASSUME ~overlapped PROVE Alone(v, [job EXCEPT ![j] = Idle], acked', id)
  <2>1. Alone(view, job, acked, id) /\ Live(job[j])
    BY <1>1, <1>6 DEF Inv, Base, CallOK, Live
  <2>2. \A k \in Job : Live(job[k]) => k = j
    BY <2>1 DEF Alone
  <2>3. ~Live(Idle)
    BY IdleFacts DEF Live
  <2>4. ~v.loading /\ ~v.error => Settled(v, acked', id)
    BY <1>1, <1>4, <2>1 DEF Alone, Settled
  <2> QED BY <2>2, <2>3, <2>4, AloneStep
<1> QED BY <1>1, <1>3, <1>4, <1>5, <1>6, EndStep

LEMMA TakeToggledInv ==
  ASSUME Inv, NEW j \in Job, TakeToggled(j)
  PROVE  Inv'
<1> DEFINE i == <<"users", job[j].for>>
           n == job[j].low[i]
           v == [view EXCEPT !.acting = 0, !.shown[i] = IF @ = 0 THEN 0 ELSE n]
<1>1. /\ job[j].at = "ok" /\ job[j].does = "toggle" /\ Acknowledge(j)
      /\ UNCHANGED <<server, page, id, overlapped>> /\ Render(v, [job EXCEPT ![j] = Idle])
  BY DEF TakeToggled
<1>2. view \in View /\ Known(view.shown) /\ CallOK(job[j]) /\ job[j] \in Call
  BY DEF Inv, Base
<1>3. i \in Item /\ Answer(job[j]) = {i} /\ n \in Nat /\ n <= ver[i]
  BY <1>1, <1>2 DEF CallOK, Call, Known, Item, Part, Answer, Changed, toggleUserStatus
<1> HIDE DEF i, n
<1>4. /\ v \in View /\ v.loading = view.loading /\ v.error = view.error
      /\ v.partial = view.partial /\ v.twice = view.twice /\ v.busy = view.busy /\ v.acting = 0
      /\ v.shown = [view.shown EXCEPT ![i] = IF @ = 0 THEN 0 ELSE n]
  BY <1>2, <1>3 DEF View
<1> HIDE DEF v
<1>5. \A k \in Item : v.shown[k] = IF k = i /\ view.shown[k] # 0 THEN n ELSE view.shown[k]
  BY <1>2, <1>4 DEF View
<1>6. Known(v.shown)
  BY <1>2, <1>3, <1>5 DEF Known
<1>7. v.busy = Ended(view, j).busy
  <2>1. job[j].does \notin Dialogs
    BY <1>1, DialogFacts
  <2> QED BY <1>2, <1>4, <2>1, EndedElse
<1>8. /\ acked' \in [Item -> Nat] /\ Known(acked')
      /\ \A k \in Item : acked'[k] = acked[k] \/ (k = i /\ acked'[k] = n)
      /\ page # "DocumentDetails"
  BY <1>1, <1>3, Acknowledged DEF n
<1>9. ~Reads(job[j]) /\ page = "Users"
  BY <1>1, <1>2 DEF Reads, CallOK
<1>10. ASSUME ~overlapped PROVE Alone(v, [job EXCEPT ![j] = Idle], acked', id)
  <2>1. Alone(view, job, acked, id) /\ Live(job[j])
    BY <1>1, <1>10 DEF Inv, Live
  <2>2. \A k \in Job : Live(job[k]) => k = j
    BY <2>1 DEF Alone
  <2>3. ~Live(Idle)
    BY IdleFacts DEF Live
  <2>4. view.shown[i] > 0 /\ \A k \in Item : acked[k] <= job[j].low[k]
    BY <1>1, <2>1 DEF Alone, AloneCall, i
  <2>5. v.shown[i] = n /\ acked[i] <= n
    BY <1>2, <1>3, <1>5, <2>4 DEF n
  <2>6. ASSUME ~v.loading, ~v.error PROVE Settled(v, acked', id)
    <3>1. Settled(view, acked, id)
      BY <1>4, <2>1, <2>6 DEF Alone
    <3>2. ASSUME NEW k \in Item, PartOf(k) \in PartsOf(Plan), ~v.partial
          PROVE  acked'[k] <= v.shown[k]
      <4>1. CASE k = i
        BY <4>1, <1>3, <1>8, <2>5
      <4>2. CASE k # i
        <5>1. acked[k] <= view.shown[k]
          BY <1>4, <1>9, <3>1, <3>2 DEF Settled, Relevant, Details
        <5> QED BY <4>2, <5>1, <1>5, <1>8
      <4> QED BY <4>1, <4>2
    <3> QED BY <1>9, <3>2 DEF Settled, Relevant, Details
  <2> QED BY <2>2, <2>3, <2>6, AloneStep
<1> QED BY <1>1, <1>4, <1>6, <1>7, <1>8, <1>9, <1>10, EndStep

LEMMA TakeActiveCaseInv ==
  ASSUME Inv, NEW j \in Job, TakeActiveCase(j)
  PROVE  Inv'
<1>1. job[j].does = "active" /\ UNCHANGED <<server, page, id, acked, overlapped>>
  BY DEF TakeActiveCase
<1>2. PICK t \in {0} \cup Case : Render([view EXCEPT !.target = t], [job EXCEPT ![j] = Idle])
  <2>1. view.target \in {0} \cup Case
    BY DEF Inv, Base, View
  <2>2. PICK a \in Answers(j, "cases") : \E ok \in BOOLEAN :
          Render([view EXCEPT !.target =
                    IF ok THEN Newest({c \in Case : a[<<"cases", c>>] > 0}) ELSE @],
                 [job EXCEPT ![j] = Idle])
    BY DEF TakeActiveCase
  <2>3. Newest({c \in Case : a[<<"cases", c>>] > 0}) \in {0} \cup Case
    BY NewestType
  <2> QED BY <2>1, <2>2, <2>3
<1> DEFINE v == [view EXCEPT !.target = t]
<1>3. /\ v \in View /\ v.shown = view.shown /\ v.loading = view.loading /\ v.error = view.error
      /\ v.partial = view.partial /\ v.twice = view.twice /\ v.busy = view.busy
      /\ v.acting = view.acting
  BY DEF Inv, Base, View
<1> HIDE DEF v
<1>4. ~Reads(job[j]) /\ ~Live(job[j]) /\ ~Live(Idle)
  BY <1>1, IdleFacts DEF Reads, Live
<1>5. v.busy = Ended(view, j).busy
  <2>1. job[j].does \notin Dialogs /\ view \in View
    BY <1>1, DialogFacts DEF Inv, Base
  <2> QED BY <1>3, <2>1, EndedElse
<1>6. Known(v.shown) /\ acked' \in [Item -> Nat] /\ Known(acked')
  BY <1>1, <1>3 DEF Inv, Base, Backend, Known
<1>7. ASSUME ~overlapped PROVE Alone(v, [job EXCEPT ![j] = Idle], acked', id)
  <2> DEFINE q == [job EXCEPT ![j] = Idle]
  <2>1. Alone(view, job, acked, id) /\ job \in [Job -> Call]
    BY <1>7 DEF Inv, Base
  <2>2. q[j] = Idle /\ \A k \in Job : k # j => q[k] = job[k]
    BY <2>1
  <2> HIDE DEF q
  <2>3. \A c : AloneCall(c, view, acked, id) => AloneCall(c, v, acked', id)
    BY <1>1, <1>3 DEF AloneCall, Sound, Held
  <2>4. Settled(view, acked, id) => Settled(v, acked', id)
    BY <1>1, <1>3 DEF Settled
  <2>5. Alone(v, q, acked', id)
    BY <1>3, <1>4, <2>1, <2>2, <2>3, <2>4 DEF Alone
  <2> QED BY <2>5 DEF q
<1> QED BY <1>1, <1>2, <1>3, <1>4, <1>5, <1>6, <1>7, EndStep DEF v
LEMMA Prepended ==
  ASSUME NEW v \in View, Known(v.shown), ver \in [Item -> Nat], NEW i \in Item, ver[i] > 0
  PROVE  LET w == Prepend(v, i)
         IN /\ w \in View /\ Known(w.shown) /\ w.busy = v.busy /\ w.acting = v.acting
<1> DEFINE w == Prepend(v, i)
           n == IF v.shown[i] = 0 THEN 1 ELSE v.shown[i]
           t == v.twice \/ (PartOf(i) = "users" /\ v.shown[i] > 0)
<1>1. n \in Nat /\ n <= ver[i] /\ t \in BOOLEAN
  BY DEF View, Known
<1>2. w = [v EXCEPT !.shown[i] = n, !.twice = t]
  BY DEF Prepend
<1> HIDE DEF n, t, w
<1>3. /\ w \in View /\ w.busy = v.busy /\ w.acting = v.acting
      /\ w.shown = [v.shown EXCEPT ![i] = n]
  BY <1>1, <1>2 DEF View
<1>4. Known(w.shown)
  BY <1>1, <1>3 DEF Known, View
<1> QED BY <1>3, <1>4 DEF w

LEMMA TakeCreatedInv ==
  ASSUME Inv, NEW j \in Job, TakeCreated(j)
  PROVE  Inv'
<1> DEFINE i == <<IF job[j].does = "create" THEN "cases" ELSE "users", job[j].for>>
           u == Prepend(view, i)
           x == Closed(u, job[j].does)
           v == Ended(x, j)
           c == LoadFor("load", FALSE, id)
<1>1. /\ job[j].at = "ok" /\ job[j].does \in {"create", "provision"} /\ Acknowledge(j)
      /\ Start(v, j, Loading("load", FALSE)) /\ UNCHANGED <<server, page, id>>
  BY DEF TakeCreated
<1>2. Backend /\ view \in View /\ Known(view.shown) /\ CallOK(job[j]) /\ job[j] \in Call
  BY DEF Inv, Base
<1>3. Start(v, j, c)
  <2>1. Loading("load", FALSE) = LoadFor("load", FALSE, id)
    BY DEF LoadFor, Loading, Idle
  <2> QED BY <1>1, <2>1
<1>4. i \in Item /\ ver[i] > 0
  <2>1. Answer(job[j]) = {i}
    BY <1>1 DEF Answer, Changed, createCase, createUser
  <2> QED BY <1>1, <1>2, <2>1 DEF CallOK, Item, Part
<1>5. u \in View /\ Known(u.shown) /\ u.busy = view.busy /\ u.acting = view.acting
  <2>1. ver \in [Item -> Nat]
    BY <1>2 DEF Backend
  <2> HIDE DEF i
  <2> QED BY <1>2, <1>4, <2>1, Prepended
<1> HIDE DEF i, u
<1>6. x \in View /\ Same(u, x) /\ x.busy = u.busy
  BY <1>5, ClosedFacts
<1> HIDE DEF x
<1>7. /\ v \in View /\ Same(x, v)
      /\ v.busy = IF job[j].own THEN x.busy \ {job[j].does} ELSE x.busy
  BY <1>6, EndedFacts
<1> HIDE DEF v
<1>8. /\ CallOK(c) /\ c.does = "load" /\ c.at = "load" /\ c.step = 1
      /\ c.for = id /\ c.low = ver
  BY <1>2, PageLoadOK DEF NewLoad, Backend
<1> HIDE DEF c
<1>9. v.busy = Ended(view, j).busy /\ c.does \notin Dialogs
  BY <1>2, <1>5, <1>6, <1>7, <1>8, EndedFacts, DialogFacts
<1>10. Known(v.shown) /\ v.acting = view.acting /\ job[j].does # "toggle"
  BY <1>1, <1>5, <1>6, <1>7 DEF Same
<1>11. acked' \in [Item -> Nat] /\ Known(acked') /\ page # "DocumentDetails"
      /\ id' \in Case /\ ver[<<"cases", id'>>] > 0
  BY <1>1, <1>2, Acknowledged DEF Backend
<1> QED BY <1>1, <1>3, <1>7, <1>8, <1>9, <1>10, <1>11, StartStep

LEMMA TakeUploadedInv ==
  ASSUME Inv, NEW j \in Job, TakeUploaded(j)
  PROVE  Inv'
<1> DEFINE d == job[j].does
           own == job[j].own
           url == job[j].url
           v == Closed(view, d)
           c == LoadFor(d, own, url)
<1>1. /\ job[j].at = "ok" /\ d \in {"upload", "register", "transfer"} /\ Acknowledge(j)
      /\ Start(v, j, c) /\ UNCHANGED <<server, page, id>>
  BY DEF TakeUploaded, LoadFor
<1>2. Backend /\ view \in View /\ Known(view.shown) /\ CallOK(job[j]) /\ job[j] \in Call
  BY DEF Inv, Base
<1>3. d \in Dialogs /\ own \in BOOLEAN /\ url \in Case
  BY <1>1, <1>2 DEF CallOK, Call
<1>4. /\ CallOK(c) /\ c.does = d /\ c.own = own /\ c.at = "load" /\ c.step = 1
      /\ c.for = url /\ c.low = ver
  <2>1. NewLoad(c, d, own, url)
    BY <1>2, <1>3, LoadOK
  <2> QED BY <2>1 DEF NewLoad
<1> HIDE DEF c
<1>5. v \in View /\ Same(view, v) /\ v.busy = view.busy
  BY <1>2, ClosedFacts
<1> HIDE DEF v
<1>6. Known(v.shown) /\ v.acting = view.acting /\ d # "toggle"
  BY <1>1, <1>2, <1>5 DEF Same
<1>7. acked' \in [Item -> Nat] /\ Known(acked') /\ page # "DocumentDetails"
      /\ id' \in Case /\ ver[<<"cases", id'>>] > 0
  BY <1>1, <1>2, Acknowledged DEF Backend
<1>8. ASSUME ~overlapped', page \in Details PROVE c.for = id'
  <2>1. ~(overlapped /\ c.for # id)
    BY <1>1, <1>8 DEF Start
  <2>2. ASSUME ~overlapped PROVE id = url
    <3>1. Alone(view, job, acked, id) /\ Live(job[j])
      BY <1>1, <2>2 DEF Inv, Live
    <3>2. AloneCall(job[j], view, acked, id)
      BY <3>1 DEF Alone
    <3> QED BY <1>1, <1>8, <3>2 DEF AloneCall
  <2> QED BY <1>1, <1>4, <2>1, <2>2
<1> QED BY <1>1, <1>3, <1>4, <1>5, <1>6, <1>7, <1>8, StartStep
-----------------------------------------------------------------------------
(* The answers to a load.                                                   *)
LEMMA ScopeFacts ==
  ASSUME NEW part, NEW url \in Case
  PROVE  /\ Scope(part, url) \subseteq Item
         /\ \A i \in Item : PartOf(i) = part =>
              (i \in Scope(part, url) <=> Relevant(i, url))
<1>1. url # 0 /\ 0 \in {0} /\ \A i \in Item : PartOf(i) \in Part /\ CaseOf(i) \in Case
  BY BoundsArePositive DEF Case, Item, PartOf, CaseOf
<1> DEFINE c == IF page \in Details THEN url ELSE 0
<1>2. \A i \in Item : c \in {0, CaseOf(i)} <=> Relevant(i, url)
  BY <1>1, BoundsArePositive DEF Relevant, Case
<1> HIDE DEF c
<1>3. CASE part \in Part
  <2>1. Scope(part, url) = {i \in Item : PartOf(i) = part /\ c \in {0, CaseOf(i)}}
    BY <1>3 DEF Scope, Part, getCases, getDocuments, getEvidence, getUsers, Items, c
  <2> QED BY <1>2, <2>1
<1>4. CASE part \notin Part
  <2>1. Scope(part, url) = {}
    BY <1>4 DEF Scope, Part
  <2> QED BY <1>1, <1>4, <2>1
<1> QED BY <1>3, <1>4

LEMMA ReplaceFacts ==
  ASSUME NEW f \in [Item -> Nat], Known(f), ver \in [Item -> Nat], NEW part, NEW a,
         \A i \in Item \cap DOMAIN a : a[i] \in Nat /\ a[i] <= ver[i]
  PROVE  LET r == Replace(f, part, a)
         IN /\ r \in [Item -> Nat] /\ Known(r)
            /\ \A i \in Item : /\ PartOf(i) # part => r[i] = f[i]
                               /\ PartOf(i) = part /\ i \in DOMAIN a => r[i] = a[i]
                               /\ PartOf(i) = part /\ i \notin DOMAIN a => r[i] = 0
<1> DEFINE r == Replace(f, part, a)
<1>1. \A i \in Item : /\ PartOf(i) # part => r[i] = f[i]
                      /\ PartOf(i) = part /\ i \in DOMAIN a => r[i] = a[i]
                      /\ PartOf(i) = part /\ i \notin DOMAIN a => r[i] = 0
  BY DEF Replace
<1>2. \A i \in Item : r[i] \in Nat /\ r[i] <= ver[i]
  BY <1>1 DEF Known
<1>3. r = [i \in Item |-> r[i]]
  BY DEF Replace
<1> HIDE DEF r
<1>4. r \in [Item -> Nat]
  BY <1>2, <1>3
<1> QED BY <1>1, <1>2, <1>4 DEF r, Known

(* The end of a load.                                                       *)
LEMMA FinishStep ==
  ASSUME Inv, UNCHANGED <<server, page, id, acked, overlapped>>, NEW j \in Job, Reads(job[j]),
         NEW v \in View, Known(v.shown), v.busy = view.busy, v.acting = view.acting, ~v.loading,
         page = "Users" /\ v.twice => v.error,
         ~overlapped /\ ~v.error => Settled(v, acked, id),
         Render(Ended(Closed(v, job[j].does), j), [job EXCEPT ![j] = Idle])
  PROVE  Inv'
<1> DEFINE u == Closed(v, job[j].does)
           x == Ended(u, j)
           q == [job EXCEPT ![j] = Idle]
<1>1. u \in View /\ Same(v, u) /\ u.busy = v.busy
  BY ClosedFacts
<1> HIDE DEF u
<1>2. /\ x \in View /\ Same(u, x)
      /\ x.busy = IF job[j].own THEN u.busy \ {job[j].does} ELSE u.busy
  BY <1>1, EndedFacts
<1>3. Render(x, q)
  BY DEF u
<1> HIDE DEF x
<1>4. Backend /\ view \in View /\ CallOK(job[j]) /\ job[j] \in Call
  BY DEF Inv, Base
<1>5. Base(x, q)
  <2>1. CallOK(Idle)
    BY <1>4, IdleOK
  <2> QED BY <1>1, <1>2, <2>1, BaseStep DEF Same
<1>6. Flag(x, q)
  <2>1. ~x.loading /\ x.acting = view.acting /\ job[j].does # "toggle"
    BY <1>1, <1>2, <1>4 DEF Same, Reads, CallOK
  <2>2. x.busy = Ended(view, j).busy /\ Idle.does \notin Dialogs
    BY <1>1, <1>2, <1>4, EndedFacts, IdleFacts, DialogFacts
  <2>3. page = "Users" /\ x.twice => x.loading \/ x.error
    BY <1>1, <1>2 DEF Same
  <2> QED BY <1>2, <2>1, <2>2, <2>3, FlagStep
<1>7. ASSUME ~overlapped PROVE Alone(x, q, acked, id)
  <2>1. Alone(view, job, acked, id) /\ Live(job[j])
    BY <1>7 DEF Inv, Live, Reads
  <2>2. \A k \in Job : Live(job[k]) => k = j
    BY <2>1 DEF Alone
  <2>3. ~Live(Idle)
    BY IdleFacts DEF Live
  <2>4. ~x.loading /\ ~x.error => Settled(x, acked, id)
    BY <1>1, <1>2, <1>7 DEF Settled, Same
  <2> QED BY <2>2, <2>3, <2>4, AloneStep
<1>8. id' \in Case /\ ver[<<"cases", id'>>] > 0 /\ acked' \in [Item -> Nat] /\ Known(acked')
      /\ overlapped' \in BOOLEAN
  BY <1>4 DEF Backend, Known
<1> HIDE DEF q
<1> QED BY <1>3, <1>5, <1>6, <1>7, <1>8, ClientStep

(* What a load has when it comes to the request next: all it asked for.     *)
Gained(v, got, next) ==
  /\ \A i \in Item, k \in 1..(next - 1) : PartOf(i) = Plan[k] =>
       /\ ~v.partial /\ Relevant(i, id) =>
            acked[i] <= IF page = "Dashboard" THEN got[i] ELSE v.shown[i]
       /\ ~Relevant(i, id) =>
            \/ v.shown[i] = 0
            \/ page = "DocumentDetails" /\ PartOf(i) = "cases" /\ v.partial /\ next > Len(Plan)
  /\ page = "CaseDetails" => v.shown[<<"cases", id>>] > 0

LEMMA ProceedsStep ==
  ASSUME Inv, UNCHANGED <<server, page, id, acked, overlapped>>, NEW j \in Job, Reads(job[j]),
         NEW v \in View, Known(v.shown), NEW got \in [Item -> Nat], Known(got),
         v.busy = view.busy, v.acting = view.acting, v.loading = view.loading,
         NEW next \in Nat, next > job[j].step, page = "Users" => ~v.twice,
         ~overlapped => Gained(v, got, next), Proceeds(j, v, got, next)
  PROVE  Inv'
<1>1. /\ Backend /\ page \in Pages /\ CallOK(job[j]) /\ job[j] \in Call /\ Flag(view, job)
  BY DEF Inv, Base, Backend
<1>2. CASE next <= Len(Plan)
  <2> DEFINE low == IF Plan[next - 1] = "fanout" THEN job[j].low ELSE ver
             c == [job[j] EXCEPT !.step = next, !.got = got, !.low = low]
             q == [job EXCEPT ![j] = c]
  <2>1. Render(v, q)
    BY <1>1, <1>2 DEF Proceeds, Inv, Base
  <2>2. low \in [Item -> Nat] /\ Known(low)
    BY <1>1 DEF Backend, CallOK, Call, Known
  <2> HIDE DEF low
  <2>3. /\ c \in Call /\ c.does = job[j].does /\ c.at = "load" /\ c.step = next
        /\ c.for = job[j].for /\ c.url = job[j].url /\ c.low = low /\ c.got = got
        /\ c.own = job[j].own
    BY <1>1, <2>2 DEF Call, Reads
  <2> HIDE DEF c
  <2>4. CallOK(c)
    <3>1. next \in 1..Len(Plan)
      BY <1>1, <1>2, PlanFacts DEF CallOK, Reads
    <3> QED BY <1>1, <2>2, <2>3, <3>1 DEF CallOK, Reads
  <2>5. Base(v, q)
    BY <2>4, BaseStep
  <2>6. Flag(v, q)
    <3>1. Reads(c)
      BY <2>3 DEF Reads
    <3>2. v.acting # 0 => job[j].does # "toggle" /\ c.does # "toggle"
      BY <1>1, <2>3 DEF CallOK, Reads
    <3> QED BY <2>3, <3>1, <3>2, FlagStep
  <2>7. ASSUME ~overlapped PROVE Alone(v, q, acked, id)
    <3>1. Alone(view, job, acked, id) /\ Live(job[j])
      BY <2>7 DEF Inv, Live, Reads
    <3>2. \A k \in Job : Live(job[k]) => k = j
      BY <3>1 DEF Alone
    <3>3. AloneCall(job[j], view, acked, id)
      BY <3>1 DEF Alone
    <3>4. view.loading /\ \A i \in Item : acked[i] <= job[j].low[i]
      BY <3>3 DEF AloneCall, Sound, Reads
    <3>5. \A i \in Item : acked[i] <= c.low[i]
      BY <1>1, <2>3, <3>4 DEF low, Backend, Known
    <3>6. \A i \in Item : Held(c, v)[i] = IF page = "Dashboard" THEN got[i] ELSE v.shown[i]
      BY <2>3 DEF Held
    <3>7. next # 1
      BY <1>1 DEF CallOK, Reads
    <3>8. Sound(c, v, acked, id)
      BY <1>2, <2>3, <2>7, <3>4, <3>5, <3>6, <3>7 DEF Sound, Gained
    <3>9. AloneCall(c, v, acked, id)
      BY <1>1, <2>3, <3>3, <3>8 DEF AloneCall, Reads, CallOK
    <3> QED BY <3>2, <3>4, <3>9, AloneStep
  <2>8. id' \in Case /\ ver[<<"cases", id'>>] > 0 /\ acked' \in [Item -> Nat] /\ Known(acked')
        /\ overlapped' \in BOOLEAN
    BY <1>1 DEF Backend, Known
  <2> HIDE DEF q
  <2> QED BY <2>1, <2>5, <2>6, <2>7, <2>8, ClientStep
<1>3. CASE ~(next <= Len(Plan))
  <2> DEFINE w == IF page = "Dashboard" THEN [v EXCEPT !.shown = got, !.twice = FALSE] ELSE v
             x == [w EXCEPT !.loading = FALSE]
  <2>1. Render(Ended(Closed(x, job[j].does), j), [job EXCEPT ![j] = Idle])
    BY <1>3 DEF Proceeds
  <2>2. /\ w \in View /\ w.shown = (IF page = "Dashboard" THEN got ELSE v.shown)
        /\ w.busy = v.busy /\ w.acting = v.acting /\ w.partial = v.partial
        /\ page # "Dashboard" => w.twice = v.twice
    BY DEF View
  <2> HIDE DEF w
  <2>3. /\ x \in View /\ x.shown = w.shown /\ x.busy = w.busy /\ x.acting = w.acting
        /\ x.partial = w.partial /\ x.twice = w.twice /\ ~x.loading
    BY <2>2 DEF View
  <2> HIDE DEF x
  <2>4. ASSUME ~overlapped PROVE Settled(x, acked, id)
    <3>1. Gained(v, got, next)
      BY <2>4
    <3>2. ASSUME NEW i \in Item, PartOf(i) \in PartsOf(Plan)
          PROVE  /\ ~x.partial /\ Relevant(i, id) => acked[i] <= x.shown[i]
                 /\ ~Relevant(i, id) =>
                      \/ x.shown[i] = 0
                      \/ page = "DocumentDetails" /\ PartOf(i) = "cases" /\ x.partial
      <4>1. PICK k \in 1..Len(Plan) : Plan[k] = PartOf(i)
        BY <1>1, <3>2, PlanParts
      <4>2. k \in 1..(next - 1)
        BY <1>1, <1>3, PlanFacts
      <4>3. ~Relevant(i, id) => page # "Dashboard"
        BY DEF Relevant, Details
      <4> QED BY <2>2, <2>3, <3>1, <4>1, <4>2, <4>3 DEF Gained
    <3>3. page = "CaseDetails" => x.shown[<<"cases", id>>] > 0
      BY <2>2, <2>3, <3>1 DEF Gained
    <3> QED BY <3>2, <3>3 DEF Settled
  <2>5. Known(x.shown) /\ (page = "Users" => ~x.twice)
    BY <2>2, <2>3
  <2> QED BY <2>1, <2>2, <2>3, <2>4, <2>5, FinishStep
<1> QED BY <1>2, <1>3
(* What a load that runs alone knows.                                       *)
LEMMA LoadFacts ==
  ASSUME Inv, NEW j \in Job, Reads(job[j])
  PROVE  /\ Backend /\ page \in Pages /\ view \in View /\ Known(view.shown)
         /\ CallOK(job[j]) /\ job[j] \in Call /\ job[j].for \in Case
         /\ job[j].step \in 1..Len(Plan) /\ Len(Plan) \in Nat
         /\ job[j].got \in [Item -> Nat] /\ Known(job[j].got) /\ ver \in [Item -> Nat]
         /\ ~overlapped => Sound(job[j], view, acked, id)
                           /\ (page \in Details => id = job[j].for)
<1>1. /\ Backend /\ page \in Pages /\ view \in View /\ Known(view.shown)
      /\ CallOK(job[j]) /\ job[j] \in Call /\ ver \in [Item -> Nat]
  BY DEF Inv, Base, Backend
<1>2. /\ job[j].for \in Case /\ job[j].step \in 1..Len(Plan) /\ Len(Plan) \in Nat
      /\ job[j].got \in [Item -> Nat] /\ Known(job[j].got)
  BY <1>1, PlanFacts DEF CallOK, Reads, Call
<1>3. ASSUME ~overlapped
      PROVE  Sound(job[j], view, acked, id) /\ (page \in Details => id = job[j].for)
  <2>1. Alone(view, job, acked, id) /\ Live(job[j])
    BY <1>3 DEF Inv, Live, Reads
  <2>2. AloneCall(job[j], view, acked, id)
    BY <2>1 DEF Alone
  <2> QED BY <2>2 DEF AloneCall, Reads
<1> QED BY <1>1, <1>2, <1>3

LEMMA AnsweredInv ==
  ASSUME Inv, UNCHANGED <<server, page, id, acked, overlapped>>, NEW j \in Job, Reads(job[j]),
         Answered(j)
  PROVE  Inv'
<1> DEFINE k == job[j].step
           part == Plan[k]
           set == page # "Dashboard" /\ part \in Part
           scope == Scope(part, job[j].for)
<1>1. PICK a \in Answers(j, part) : \E holes \in Holes(j, part) :
        LET b == [i \in DOMAIN a |-> IF CaseOf(i) \in holes THEN 0 ELSE a[i]]
            got == Replace(job[j].got, part, b)
            v == [view EXCEPT !.shown = IF set THEN Replace(@, part, b) ELSE @,
                              !.twice = @ /\ ~set,
                              !.partial = holes # {} \/ (@ /\ job[j].step > 1)]
        IN Proceeds(j, v, got, k + 1)
  BY DEF Answered
<1>2. PICK holes \in Holes(j, part) :
        LET b == [i \in DOMAIN a |-> IF CaseOf(i) \in holes THEN 0 ELSE a[i]]
            got == Replace(job[j].got, part, b)
            v == [view EXCEPT !.shown = IF set THEN Replace(@, part, b) ELSE @,
                              !.twice = @ /\ ~set,
                              !.partial = holes # {} \/ (@ /\ job[j].step > 1)]
        IN Proceeds(j, v, got, k + 1)
  BY <1>1
<1> DEFINE b == [i \in DOMAIN a |-> IF CaseOf(i) \in holes THEN 0 ELSE a[i]]
           got == Replace(job[j].got, part, b)
           new == Replace(view.shown, part, b)
           shown == IF set THEN new ELSE view.shown
           twice == view.twice /\ ~set
           partial == holes # {} \/ (view.partial /\ k > 1)
           v == [view EXCEPT !.shown = shown, !.twice = twice, !.partial = partial]
<1>3. Proceeds(j, v, got, k + 1)
  BY <1>2
<1>4. /\ Backend /\ page \in Pages /\ view \in View /\ Known(view.shown)
      /\ job[j].for \in Case /\ k \in 1..Len(Plan) /\ Len(Plan) \in Nat
      /\ job[j].got \in [Item -> Nat] /\ Known(job[j].got) /\ ver \in [Item -> Nat]
      /\ view.shown \in [Item -> Nat]
  BY LoadFacts DEF View
<1> HIDE DEF k
<1>5. /\ scope \subseteq Item
      /\ \A i \in Item : PartOf(i) = part => (i \in scope <=> Relevant(i, job[j].for))
  BY <1>4, ScopeFacts
<1>6. /\ DOMAIN a = scope
      /\ \A i \in scope : a[i] \in Nat /\ job[j].low[i] <= a[i] /\ a[i] <= ver[i]
  BY BoundsArePositive DEF Answers, Versions
<1> HIDE DEF scope, part
<1>7. /\ DOMAIN b = scope
      /\ \A i \in scope : b[i] \in Nat /\ b[i] <= ver[i] /\ (holes = {} => b[i] = a[i])
  BY <1>4, <1>5, <1>6
<1> HIDE DEF b
<1>8. /\ got \in [Item -> Nat] /\ Known(got)
      /\ \A i \in Item : /\ PartOf(i) # part => got[i] = job[j].got[i]
                         /\ PartOf(i) = part /\ i \in scope => got[i] = b[i]
                         /\ PartOf(i) = part /\ i \notin scope => got[i] = 0
  BY <1>4, <1>7, ReplaceFacts
<1>9. /\ new \in [Item -> Nat] /\ Known(new)
      /\ \A i \in Item : /\ PartOf(i) # part => new[i] = view.shown[i]
                         /\ PartOf(i) = part /\ i \in scope => new[i] = b[i]
                         /\ PartOf(i) = part /\ i \notin scope => new[i] = 0
  BY <1>4, <1>7, ReplaceFacts
<1> HIDE DEF got, new
<1>10. shown \in [Item -> Nat] /\ Known(shown) /\ partial \in BOOLEAN /\ twice \in BOOLEAN
  BY <1>4, <1>9 DEF View
<1> HIDE DEF shown, partial, twice
<1>11. /\ v \in View /\ v.shown = shown /\ v.twice = twice /\ v.partial = partial
       /\ v.busy = view.busy /\ v.acting = view.acting /\ v.loading = view.loading
  BY <1>4, <1>10 DEF View
<1> HIDE DEF v
<1>12. page = "Users" => ~v.twice
  <2>1. ASSUME page = "Users" PROVE part \in Part
    <3>1. Len(Plan) = 1 /\ Plan[1] = "users"
      BY <1>4, <2>1, PlanFacts
    <3>2. k = 1
      BY <1>4, <3>1
    <3> QED BY <3>1, <3>2 DEF part, Part
  <2> QED BY <1>11, <2>1 DEF twice
<1>13. page \in Details => holes = {} /\ set
  <2>1. page \in Details => part \in Part
    BY <1>4, PlanFacts DEF part
  <2>2. page \in Details => holes \in {{}}
    BY DEF Holes, Details
  <2> QED BY <2>1, <2>2 DEF Details
<1>14. ASSUME ~overlapped PROVE Gained(v, got, k + 1)
  <2>1. Sound(job[j], view, acked, id) /\ (page \in Details => id = job[j].for)
    BY <1>14, LoadFacts
  <2>2. \A i \in Item : Relevant(i, id) <=> Relevant(i, job[j].for)
    BY <2>1 DEF Relevant
  <2>3. \A i \in Item : acked[i] \in Nat /\ job[j].low[i] \in Nat /\ acked[i] <= job[j].low[i]
    BY <2>1, LoadFacts DEF Sound, Backend, Call
  <2>4. ASSUME NEW i \in Item, NEW l \in 1..k, PartOf(i) = Plan[l]
        PROVE  /\ ~v.partial /\ Relevant(i, id) =>
                    acked[i] <= IF page = "Dashboard" THEN got[i] ELSE v.shown[i]
               /\ ~Relevant(i, id) => v.shown[i] = 0
    <3>1. CASE l = k
      <4>1. PartOf(i) = part /\ part \in Part
        BY <2>4, <3>1 DEF part, Item, PartOf
      <4>2. ASSUME ~v.partial, Relevant(i, id)
            PROVE  acked[i] <= IF page = "Dashboard" THEN got[i] ELSE v.shown[i]
        <5>1. i \in scope /\ holes = {}
          BY <1>5, <1>11, <2>2, <4>1, <4>2 DEF partial
        <5>2. got[i] = a[i] /\ new[i] = a[i] /\ acked[i] <= a[i]
          BY <1>6, <1>7, <1>8, <1>9, <2>3, <4>1, <5>1
        <5> QED BY <1>11, <4>1, <5>2 DEF shown
      <4>3. ASSUME ~Relevant(i, id) PROVE v.shown[i] = 0
        <5>1. i \notin scope /\ set
          BY <1>5, <1>13, <2>2, <4>1, <4>3 DEF Relevant
        <5> QED BY <1>9, <1>11, <4>1, <5>1 DEF shown
      <4> QED BY <4>2, <4>3
    <3>2. CASE l # k
      <4>1. l \in 1..(k - 1) /\ k > 1 /\ PartOf(i) # part
        BY <1>4, <2>4, <3>2, PlanFacts DEF part
      <4>2. got[i] = job[j].got[i] /\ v.shown[i] = view.shown[i]
        BY <1>8, <1>9, <1>11, <4>1 DEF shown
      <4>3. ~v.partial => ~view.partial
        BY <1>11, <4>1 DEF partial
      <4>4. /\ ~view.partial /\ Relevant(i, id) => acked[i] <= Held(job[j], view)[i]
            /\ ~Relevant(i, id) => view.shown[i] = 0
        BY <2>1, <2>4, <4>1 DEF Sound, k
      <4> QED BY <4>2, <4>3, <4>4 DEF Held
    <3> QED BY <3>1, <3>2
  <2>5. ASSUME page = "CaseDetails" PROVE v.shown[<<"cases", id>>] > 0
    <3> DEFINE h == <<"cases", id>>
    <3>1. h \in Item /\ PartOf(h) = "cases" /\ Relevant(h, id) /\ set /\ holes = {}
      BY <1>4, <1>13, <2>5 DEF Backend, Item, Part, PartOf, CaseOf, Relevant, Details
    <3>2. CASE k = 1
      <4>1. part = "cases" /\ job[j].low[h] > 0
        BY <1>4, <2>1, <2>5, <3>2, PlanFacts DEF part, Sound, k
      <4>2. h \in scope
        BY <1>5, <2>2, <3>1, <4>1
      <4>3. new[h] = a[h] /\ job[j].low[h] <= a[h] /\ a[h] \in Nat /\ job[j].low[h] \in Nat
        BY <1>6, <1>7, <1>9, <2>3, <3>1, <4>1, <4>2
      <4> QED BY <1>11, <3>1, <4>1, <4>3 DEF shown
    <3>3. CASE k # 1
      <4>1. part # "cases"
        BY <1>4, <2>5, <3>3, PlanFacts DEF part
      <4>2. view.shown[h] > 0
        BY <2>1, <2>5, <3>3 DEF Sound, k
      <4> QED BY <1>9, <1>11, <3>1, <4>1, <4>2 DEF shown
    <3> QED BY <3>2, <3>3
  <2> QED BY <1>4, <2>4, <2>5 DEF Gained
<1>15. Known(v.shown) /\ k + 1 \in Nat /\ k + 1 > job[j].step
  BY <1>4, <1>10, <1>11 DEF k
<1>16. Proceeds(j, v, got, k + 1)
  BY <1>3 DEF v, shown, twice, partial, got, new, b, k, part
<1> QED BY <1>8, <1>11, <1>12, <1>14, <1>15, <1>16, ProceedsStep
LEMMA FailedInv ==
  ASSUME Inv, UNCHANGED <<server, page, id, acked, overlapped>>, NEW j \in Job, Reads(job[j]),
         Failed(j)
  PROVE  Inv'
<1> DEFINE k == job[j].step
           part == Plan[k]
<1>1. /\ Backend /\ page \in Pages /\ view \in View /\ Known(view.shown)
      /\ job[j].for \in Case /\ k \in 1..Len(Plan) /\ Len(Plan) \in Nat
      /\ job[j].got \in [Item -> Nat] /\ Known(job[j].got) /\ ver \in [Item -> Nat]
      /\ view.shown \in [Item -> Nat]
  BY LoadFacts DEF View
<1>2. CASE k = 1
  <2> DEFINE v == [view EXCEPT !.error = TRUE, !.loading = FALSE]
  <2>1. Render(Ended(Closed(v, job[j].does), j), [job EXCEPT ![j] = Idle])
    BY <1>2 DEF Failed
  <2>2. /\ v \in View /\ v.shown = view.shown /\ v.busy = view.busy /\ v.acting = view.acting
        /\ ~v.loading /\ v.error
    BY <1>1 DEF View
  <2> HIDE DEF v
  <2> QED BY <1>1, <2>1, <2>2, FinishStep
<1>3. CASE k # 1
  <2> DEFINE empty == IF part = "fanout" THEN "documents" ELSE part
             next == IF part = "fanout" THEN k + 2 ELSE k + 1
             new == Replace(view.shown, part, <<>>)
             got == Replace(job[j].got, empty, <<>>)
             shown == IF page = "CaseDetails" THEN new ELSE view.shown
             v == [view EXCEPT !.partial = TRUE, !.shown = shown]
  <2>1. Proceeds(j, v, got, next)
    BY <1>3 DEF Failed
  <2> HIDE DEF k
  <2>2. next \in Nat /\ next > k
    BY <1>1
  <2>3. Item \cap DOMAIN <<>> = {}
    OBVIOUS
  <2>4. got \in [Item -> Nat] /\ Known(got)
    <3> HIDE DEF empty
    <3> QED BY <1>1, <2>3, ReplaceFacts
  <2> HIDE DEF got, part
  <2>5. /\ new \in [Item -> Nat] /\ Known(new)
        /\ \A i \in Item : new[i] = IF PartOf(i) = part THEN 0 ELSE view.shown[i]
    BY <1>1, <2>3, ReplaceFacts
  <2> HIDE DEF new
  <2>6. shown \in [Item -> Nat] /\ Known(shown)
    BY <1>1, <2>5
  <2> HIDE DEF shown
  <2>7. /\ v \in View /\ v.shown = shown /\ v.partial /\ v.busy = view.busy
        /\ v.acting = view.acting /\ v.loading = view.loading
    BY <1>1, <2>6 DEF View
  <2>8. page # "Users"
    <3> SUFFICES ASSUME page = "Users" PROVE FALSE
      OBVIOUS
    <3>1. Len(Plan) = 1
      BY <1>1, PlanFacts
    <3>2. k \in 1..1
      BY <1>1, <3>1
    <3> QED BY <1>3, <3>2
  <2> HIDE DEF v
  <2>9. ASSUME ~overlapped PROVE Gained(v, got, next)
    <3>1. Sound(job[j], view, acked, id) /\ (page \in Details => id = job[j].for)
      BY <2>9, LoadFacts
    <3>2. part = "fanout" => page \notin Details
      BY <1>1, PlanFacts DEF part
    <3>3. ASSUME NEW i \in Item, NEW l \in 1..(next - 1), PartOf(i) = Plan[l], ~Relevant(i, id)
          PROVE  \/ v.shown[i] = 0
                 \/ page = "DocumentDetails" /\ PartOf(i) = "cases" /\ v.partial
                    /\ next > Len(Plan)
      <4>1. page \in Details
        BY <3>3 DEF Relevant
      <4>2. next = k + 1
        BY <3>2, <4>1
      <4>3. CASE l = k
        <5>1. CASE page = "CaseDetails"
          BY <2>5, <2>7, <3>3, <4>3, <5>1 DEF shown, part
        <5>2. CASE page = "DocumentDetails"
          <6>1. Len(Plan) = 2 /\ Plan[2] = "cases"
            BY <1>1, <5>2, PlanFacts
          <6>2. k = 2
            BY <1>1, <1>3, <6>1
          <6> QED BY <2>7, <3>3, <4>2, <4>3, <5>2, <6>1, <6>2
        <5> QED BY <4>1, <5>1, <5>2 DEF Details
      <4>4. CASE l # k
        <5>1. l \in 1..(k - 1)
          BY <1>1, <3>3, <4>2, <4>4
        <5>2. view.shown[i] = 0
          BY <3>1, <3>3, <5>1 DEF Sound, k
        <5> QED BY <2>5, <2>7, <5>2 DEF shown
      <4> QED BY <4>3, <4>4
    <3>4. ASSUME page = "CaseDetails" PROVE v.shown[<<"cases", id>>] > 0
      <4> DEFINE h == <<"cases", id>>
      <4>1. h \in Item /\ PartOf(h) = "cases"
        BY <1>1 DEF Backend, Item, Part, PartOf
      <4>2. part # "cases"
        BY <1>1, <1>3, <3>4, PlanFacts DEF part
      <4>3. view.shown[h] > 0
        BY <1>3, <3>1, <3>4 DEF Sound, k
      <4> QED BY <2>5, <2>7, <4>1, <4>2, <4>3 DEF shown
    <3> QED BY <2>7, <3>3, <3>4 DEF Gained
  <2>10. Known(v.shown)
    BY <2>6, <2>7
  <2>11. (page = "Users" => ~v.twice) /\ next > job[j].step
    BY <2>2, <2>8 DEF k
  <2>12. Proceeds(j, v, got, next)
    BY <2>1 DEF v, shown, got, new, k, part
  <2> HIDE DEF next
  <2> QED BY <2>2, <2>4, <2>7, <2>9, <2>10, <2>11, <2>12, ProceedsStep
<1> QED BY <1>2, <1>3

LEMMA TakeLoadInv ==
  ASSUME Inv, NEW j \in Job, TakeLoad(j)
  PROVE  Inv'
<1>1. Reads(job[j]) /\ UNCHANGED <<server, page, id, acked, overlapped>>
      /\ (Answered(j) \/ Failed(j))
  BY DEF TakeLoad, IsLoad, Reads
<1> QED BY <1>1, AnsweredInv, FailedInv
-----------------------------------------------------------------------------
(* The page that has just been mounted.                                     *)
LEMMA MountedPage ==
  ASSUME Init
  PROVE  Inv
<1>1. PICK m \in Case : ver = [i \in Item |-> IF CaseOf(i) <= m THEN 1 ELSE 0]
  BY DEF Init
<1>2. /\ writes = 0 /\ page \in Pages /\ id \in Case /\ ver[<<"cases", id>>] = 1
      /\ view = Fresh /\ acked = Nothing /\ ~overlapped /\ overlapped \in BOOLEAN
  BY DEF Init
<1>3. ver \in [Item -> Nat] /\ \A i \in Item : ver[i] <= 1
  BY <1>1
<1>4. Backend
  BY <1>2, <1>3, BoundsArePositive DEF Backend, Known, Nothing
<1>5. /\ view \in View /\ view.shown = Nothing /\ view.loading /\ ~view.error /\ view.busy = {}
      /\ view.acting = 0 /\ ~view.twice
  BY <1>2 DEF Fresh, View, Nothing
<1>6. ASSUME NEW does \in {"load", "active"}
      PROVE  LET n == Loading(does, FALSE)
             IN /\ n \in Call /\ n.does = does /\ n.at = "load" /\ n.step = 1 /\ n.for = id
                /\ n.low = ver /\ n.got = Nothing
  BY <1>4, IdleFacts DEF Loading, Idle, Call, Does, Backend
<1> DEFINE main == Loading("load", FALSE)
           side == Loading("active", FALSE)
<1>7. /\ 1 \in Job /\ job[1] = main
      /\ \A j \in Job : job[j] = main \/ job[j] = Idle
                        \/ (job[j] = side /\ page \in {"Documents", "Evidence"})
      /\ \A j \in Job : job[j] = main => j = 1
      /\ job = [j \in Job |-> job[j]]
  <2>1. job = [j \in Job |-> CASE j = 1 -> main
                [] j = 2 /\ page \in {"Documents", "Evidence"} -> side
                [] OTHER -> Idle]
    BY DEF Init
  <2>2. main.does = "load" /\ side.does = "active" /\ Idle.does = "nothing"
    BY <1>6, IdleFacts
  <2>3. main # side /\ main # Idle
    BY <2>2
  <2> HIDE DEF main, side
  <2>4. 1 \in Job
    BY BoundsArePositive
  <2> QED BY <2>1, <2>3, <2>4
<1>8. /\ main \in Call /\ main.does = "load" /\ main.at = "load" /\ main.step = 1
      /\ main.for = id /\ main.low = ver /\ main.got = Nothing
      /\ side \in Call /\ side.does = "active" /\ side.at = "load" /\ side.step = 1
      /\ side.for = id /\ side.low = ver /\ side.got = Nothing
  BY <1>6
<1> HIDE DEF main, side
<1>9. ASSUME NEW c, c = main \/ (c = side /\ page \in {"Documents", "Evidence"})
      PROVE  CallOK(c)
  <2>1. 1 \in 1..Len(Plan)
    BY <1>2, PlanFacts
  <2>2. Known(c.low) /\ Known(c.got)
    BY <1>3, <1>8, <1>9 DEF Known, Nothing
  <2> QED BY <1>4, <1>8, <1>9, <2>1, <2>2 DEF CallOK, Backend
<1>10. Base(view, job)
  <2>1. \A j \in Job : CallOK(job[j])
    BY <1>4, <1>7, <1>9, IdleOK
  <2>2. job \in [Job -> Call]
    BY <1>7, <1>8, IdleFacts
  <2> QED BY <1>3, <1>5, <2>1, <2>2 DEF Base, Known, Nothing
<1>11. \A j \in Job : job[j].does \in {"load", "active", "nothing"}
  BY <1>7, <1>8, IdleFacts
<1>12. Flag(view, job)
  <2>1. Reads(job[1])
    BY <1>7, <1>8 DEF Reads
  <2>2. \A j \in Job : job[j].does \notin Dialogs
    BY <1>11, DialogFacts
  <2> QED BY <1>5, <1>7, <2>1, <2>2 DEF Flag
<1>13. Alone(view, job, acked, id)
  <2>1. \A j \in Job : Live(job[j]) => j = 1
    BY <1>7, <1>8, IdleFacts DEF Live
  <2>2. Sound(main, view, acked, id)
    BY <1>2, <1>3, <1>5, <1>8 DEF Sound, Nothing
  <2>3. AloneCall(main, view, acked, id)
    BY <1>8, <2>2 DEF AloneCall
  <2> QED BY <1>5, <1>7, <2>1, <2>3 DEF Alone
<1>14. ReadOnly(acked)
  BY <1>2 DEF ReadOnly, Nothing
<1> QED BY <1>2, <1>4, <1>5, <1>10, <1>12, <1>13, <1>14 DEF Inv

(* Every step keeps the invariant.                                          *)
LEMMA Stepped ==
  ASSUME Inv, [Next]_vars
  PROVE  Inv'
<1>1. CASE UNCHANGED vars
  <2> USE <1>1 DEF vars, server
  <2>1. Dialogs' = Dialogs /\ Plan' = Plan
    BY DEF Dialogs, Plan
  <2>2. Does' = Does /\ Mounted(view)' = Mounted(view) /\ PartsOf(Plan)' = PartsOf(Plan)
    BY <2>1 DEF Does, Mounted, Content, PartsOf
  <2>3. Call' = Call /\ View' = View
    BY <2>1, <2>2 DEF Call, View
  <2>4. Backend' /\ Base(view, job)'
    BY <2>1, <2>3 DEF Inv, Backend, Base, CallOK, Known
  <2>5. Flag(view, job)'
    BY <2>1 DEF Inv, Flag
  <2>6. ~overlapped' => Alone(view, job, acked, id)'
    BY <2>1, <2>2 DEF Inv, Alone, AloneCall, Settled, Sound, Held, Relevant
  <2> QED BY <2>2, <2>4, <2>5, <2>6 DEF Inv, ReadOnly
<1>2. CASE Elsewhere
  BY <1>2, ElsewhereInv
<1>3. CASE ClickRefresh \/ ClickRetry
  BY <1>3, ClickInv
<1>4. CASE CloseDialog
  BY <1>4, CloseDialogInv
<1>5. CASE \E c \in Case : GoTo(c) \/ handleToggleStatus(c)
  BY <1>5, GoToInv, ToggleInv
<1>6. CASE \E d \in Dialogs : OpenDialog(d)
  BY <1>6, OpenDialogInv
<1>7. CASE CaseForm \/ UserProvisionModal \/ DocumentUpload \/ EvidenceUpload \/ ChainOfCustodyLog
  <2>1. 0 \in {0} \cup Case /\ WriteTarget \in {0} \cup Case /\ view.on \in {0} \cup Case
    BY WriteTargetType DEF Inv, Base, View
  <2> QED BY <1>7, <2>1, SubmitInv
          DEF CaseForm, UserProvisionModal, DocumentUpload, EvidenceUpload, ChainOfCustodyLog
<1>8. CASE \E j \in Job : Proceed(j)
  <2>1. PICK j \in Job : Proceed(j)
    BY <1>8
  <2> QED BY <2>1, ServeInv, TakeLoadInv, TakeActiveCaseInv, TakeCreatedInv, TakeUploadedInv,
             TakeToggledInv, TakeRefusedInv DEF Proceed
<1> QED BY <1>1, <1>2, <1>3, <1>4, <1>5, <1>6, <1>7, <1>8 DEF Next

LEMMA Holds == Spec => []Inv
<1>1. Init => Inv
  BY MountedPage
<1>2. Inv /\ [Next]_vars => Inv'
  BY Stepped
<1> QED BY <1>1, <1>2, PTL DEF Spec
-----------------------------------------------------------------------------
(* However many calls, cases and writes there are, every variable holds a   *)
(* value of its kind, and no page shows or was answered a version of a case,*)
(* document, exhibit or officer that the backend never had.                 *)
THEOREM PagesTyped == Spec => []TypeOK
<1>1. Inv => TypeOK
  <2> SUFFICES ASSUME Inv PROVE TypeOK
    OBVIOUS
  <2>1. Backend /\ view \in View /\ Known(view.shown) /\ Known(acked)
    BY DEF Inv, Base, Backend
  <2>2. ASSUME NEW i \in Item PROVE ver[i] \in Versions
    <3>1. ver[i] \in Nat /\ ver[i] <= writes + 1 /\ writes \in 0..MaxWrites
      BY <2>1 DEF Backend
    <3> QED BY <3>1, BoundsArePositive DEF Versions
  <2>3. ver \in [Item -> Versions] /\ writes \in 0..MaxWrites /\ id \in Case
    BY <2>1, <2>2 DEF Backend
  <2> QED BY <2>1, <2>3 DEF TypeOK, Known, View, Inv
<1> QED BY <1>1, Holds, PTL

(* The finally blocks: a spinner, a disabled button or a row in progress    *)
(* always has a call in flight that will end it, though overlapping loads   *)
(* share one flag and a dialog can be closed and unmounted under its call.  *)
THEOREM FlagsEnd == Spec => []FlagsHaveCause
<1>1. Inv => FlagsHaveCause
  BY DEF Inv, Flag, FlagsHaveCause, Reads, IsLoad
<1> QED BY <1>1, Holds, PTL

(* The loading flag of CaseForm, DocumentUpload, EvidenceUpload,            *)
(* ChainOfCustodyLog and UserProvisionModal: where a page keeps its dialogs *)
(* mounted, no form is in flight twice, whatever is closed and reopened.    *)
THEOREM FormsOnce == Spec => []SubmitOnce
<1>1. Inv => SubmitOnce
  <2> SUFFICES ASSUME Inv, page \in Steady, NEW d \in Dialogs
               PROVE  Cardinality({j \in Job : job[j].does = d}) <= 1
    BY DEF SubmitOnce, Steady
  <2> DEFINE S == {j \in Job : job[j].does = d}
  <2>1. \A j, k \in S : j = k
    BY DEF Inv, Flag
  <2>2. S = {} \/ \E j : S = {j}
    BY <2>1
  <2> HIDE DEF S
  <2>3. Cardinality(S) \in {0, 1}
    BY <2>2, FS_EmptySet, FS_Singleton
  <2> QED BY <2>3 DEF S
<1> QED BY <1>1, Holds, PTL

(* handleUserCreated prepends the new officer without a filter: whenever the*)
(* table is on screen, UserStatsCards counts the officers of the table.     *)
THEOREM OfficersOnce == Spec => []NoRowTwice
<1>1. Inv => NoRowTwice
  <2> SUFFICES ASSUME Inv, page = "Users", Body = "content"
               PROVE  UserStatsCards = Cardinality(UserTable)
    BY DEF NoRowTwice
  <2>1. ~view.twice
    BY DEF Inv, Flag, Body, Base, View
  <2>2. IsFiniteSet({"users"}) /\ IsFiniteSet(Case)
    <3>1. IsFiniteSet(Case)
      BY FS_Interval, BoundsArePositive DEF Case
    <3>2. IsFiniteSet({"users"})
      BY FS_Singleton
    <3> QED BY <3>1, <3>2
  <2>3. IsFiniteSet({"users"} \X Case)
    BY <2>2, FS_Product
  <2>4. Rows("users") \in SUBSET ({"users"} \X Case)
    BY DEF Rows, Item, PartOf
  <2>5. Cardinality(Rows("users")) \in Nat
    BY <2>3, <2>4, FS_Subset, FS_CardinalityType
  <2> QED BY <2>1, <2>5 DEF UserStatsCards, UserTable
<1> QED BY <1>1, Holds, PTL

(* A page at rest whose calls did not overlap.                              *)
LEMMA AtRest ==
  ASSUME Inv, ~overlapped, Body = "content", Calls = {} \/ page # "Dashboard"
  PROVE  Settled(view, acked, id) /\ page \in Pages /\ view \in View
<1>1. ~view.loading
  <2>1. CASE Calls = {}
    <3>1. ~\E j \in Job : Reads(job[j])
      BY <2>1, IdleFacts DEF Calls, Reads
    <3> QED BY <3>1 DEF Inv, Flag
  <2>2. CASE page # "Dashboard"
    BY <2>2 DEF Body
  <2> QED BY <2>1, <2>2
<1>2. ~view.error
  BY <1>1 DEF Body
<1> QED BY <1>1, <1>2 DEF Inv, Alone, Base, Backend

(* A jump in the browser's history from one case to another: unless calls   *)
(* overlapped, CaseDetails and DocumentDetails show and write nothing but   *)
(* the case in the URL, however the loads of both cases interleave.         *)
THEOREM OneCaseShown == Spec => []OneDossier
<1>1. Inv => OneDossier
  <2> SUFFICES ASSUME Inv, page \in Details, Body = "content", ~overlapped
               PROVE  /\ \A i \in Screen : CaseOf(i) = id
                      /\ page = "CaseDetails" => WriteTarget = id
                      /\ \A i \in DocumentCase : CaseOf(i) = id \/ view.partial
    BY DEF OneDossier
  <2>1. Settled(view, acked, id) /\ page \in Pages /\ id \in Case
    BY AtRest DEF Details, Inv, Backend
  <2>2. ASSUME NEW i \in Item, PartOf(i) \in PartsOf(Plan), view.shown[i] > 0
        PROVE  CaseOf(i) = id
               \/ (page = "DocumentDetails" /\ PartOf(i) = "cases" /\ view.partial)
    BY <2>1, <2>2 DEF Settled, Relevant
  <2>3. CASE page = "CaseDetails"
    <3>1. PartsOf(Plan) = {"cases", "documents", "evidence"}
      <4>1. Plan = <<"cases", "documents", "evidence">>
        BY <2>3 DEF Plan, loadCaseData
      <4> QED BY <4>1 DEF PartsOf, Part
    <3>2. ASSUME NEW i \in Screen PROVE CaseOf(i) = id
      <4>1. i \in Item /\ PartOf(i) \in PartsOf(Plan) /\ view.shown[i] > 0
        BY <2>3, <3>1, <3>2
           DEF Screen, Dossier, DossierHeader, DocumentsTab, EvidenceTab, Rows
      <4> QED BY <2>2, <2>3, <4>1
    <3>3. WriteTarget = id
      <4> DEFINE S == {c \in Case : view.shown[<<"cases", c>>] > 0}
      <4>1. ASSUME NEW c \in S PROVE c = id
        <5>1. <<"cases", c>> \in Item /\ PartOf(<<"cases", c>>) = "cases"
              /\ CaseOf(<<"cases", c>>) = c
          BY DEF Item, Part, PartOf, CaseOf
        <5> QED BY <2>2, <2>3, <3>1, <5>1
      <4>2. id \in S
        BY <2>1, <2>3 DEF Settled
      <4>3. S = {id}
        BY <4>1, <4>2
      <4> HIDE DEF S
      <4>4. Newest(S) = id
        <5>1. id >= id
          BY <2>1, BoundsArePositive DEF Case
        <5> QED BY <4>3, <5>1 DEF Newest, Max
      <4> QED BY <2>3, <4>4 DEF WriteTarget, HeaderCase, S
    <3>4. ASSUME NEW i \in DocumentCase PROVE CaseOf(i) = id
      BY <2>2, <2>3, <3>1, <3>4 DEF DocumentCase, Rows
    <3> QED BY <3>2, <3>3, <3>4
  <2>4. CASE page = "DocumentDetails"
    <3>1. PartsOf(Plan) = {"documents", "cases"}
      <4>1. Plan = <<"documents", "cases">>
        BY <2>4 DEF Plan, fetchDocument
      <4> QED BY <4>1 DEF PartsOf, Part
    <3>2. ASSUME NEW i \in Screen PROVE CaseOf(i) = id
      <4>1. i \in Item /\ PartOf(i) = "documents" /\ view.shown[i] > 0
        BY <2>4, <3>2 DEF Screen, DocumentRecord, Rows
      <4> QED BY <2>2, <3>1, <4>1
    <3>3. ASSUME NEW i \in DocumentCase PROVE CaseOf(i) = id \/ view.partial
      BY <2>2, <3>1, <3>3 DEF DocumentCase, Rows
    <3> QED BY <2>4, <3>2, <3>3
  <2> QED BY <2>3, <2>4 DEF Details
<1> QED BY <1>1, Holds, PTL

(* The optimistic rows and the reloads: once a page has come to rest, what  *)
(* its user was told was done is on screen, at least as new as the answer,  *)
(* unless calls overlapped or part of the load failed without a word.       *)
THEOREM WritesOnScreen == Spec => []OwnWritesShown
<1>1. Inv => OwnWritesShown
  <2> SUFFICES ASSUME Inv, Calls = {}, Body = "content", ~overlapped, ~view.partial,
                      NEW i \in Item, PartOf(i) \in PartsOf(Plan),
                      page \in Details => CaseOf(i) = id, acked[i] > 0
               PROVE  i \in Screen /\ view.shown[i] >= acked[i]
    BY DEF OwnWritesShown
  <2>1. Settled(view, acked, id) /\ page \in Pages /\ view \in View
    BY AtRest
  <2>2. acked[i] <= view.shown[i] /\ acked[i] \in Nat /\ view.shown[i] \in Nat
    BY <2>1 DEF Settled, Relevant, View, Inv, Backend
  <2>3. i \in Rows(PartOf(i))
    BY <2>2 DEF Rows
  <2>4. ASSUME NEW p \in PartsOf(Plan), page # "DocumentDetails" PROVE Rows(p) \subseteq Screen
    <3>1. CASE page = "Dashboard"
      <4>1. p \in {"cases", "documents", "evidence"}
        BY <2>4, <3>1 DEF PartsOf, Plan, loadDashboardData, Part
      <4> QED BY <3>1, <4>1 DEF Screen, DashboardTiles, DashboardTable
    <3>2. CASE page = "Cases"
      <4>1. p = "cases"
        BY <2>4, <3>2 DEF PartsOf, Plan, fetchCases
      <4> QED BY <3>2, <4>1 DEF Screen, CaseList
    <3>3. CASE page = "Documents"
      <4>1. p = "documents"
        BY <2>4, <3>3 DEF PartsOf, Plan, fetchDocuments, Part
      <4> QED BY <3>3, <4>1 DEF Screen, DocumentList
    <3>4. CASE page = "Evidence"
      <4>1. p = "evidence"
        BY <2>4, <3>4 DEF PartsOf, Plan, fetchEvidence
      <4> QED BY <3>4, <4>1 DEF Screen, EvidenceList
    <3>5. CASE page = "Users"
      <4>1. p = "users"
        BY <2>4, <3>5 DEF PartsOf, Plan, fetchUsers
      <4> QED BY <3>5, <4>1 DEF Screen, UserTable
    <3>6. CASE page = "CaseDetails"
      <4>1. p \in {"cases", "documents", "evidence"}
        BY <2>4, <3>6 DEF PartsOf, Plan, loadCaseData
      <4> QED BY <3>6, <4>1 DEF Screen, Dossier, DossierHeader, DocumentsTab, EvidenceTab
    <3> QED BY <2>1, <2>4, <3>1, <3>2, <3>3, <3>4, <3>5, <3>6 DEF Pages
  <2>5. page # "DocumentDetails"
    BY <2>2 DEF Inv, ReadOnly
  <2> QED BY <2>2, <2>3, <2>4, <2>5
<1> QED BY <1>1, Holds, PTL
=============================================================================
