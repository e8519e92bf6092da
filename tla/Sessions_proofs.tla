--------------------------- MODULE Sessions_proofs ---------------------------
(***************************************************************************)
(* What the account handlers keep, for any number of calls and addresses,  *)
(* however they overlap and wherever each ends.  First what needs no       *)
(* history: rows and calls stay well formed, a spent refresh token stays   *)
(* spent, administrators come from administrators.  Then what two          *)
(* statements without a transaction still promise: a row that a call has   *)
(* read is the stored one, unless the call met one that wrote it.          *)
(***************************************************************************)
EXTENDS Sessions, TLAPS

UserIds == {u.id : u \in users}
Done(r) == pc[r] \in {"idle", "ok", "error"}

(* What a call carries, by its kind.                                        *)
OpShape(o) ==
  /\ o.kind \in Endpoints \cup {"none"}
  /\ o.kind = "register" => o.email \in Email /\ o.role \in Roles
  /\ o.kind = "patch" => /\ o.email \in Email \cup {None} /\ o.role \in Roles \cup {None}
                         /\ o.status \in Statuses \cup {None} /\ o.on \in UserIds
  /\ o.kind = "refresh" => o.on \in Request /\ pc[o.on] = "ok"

KindOf(stage) ==
  CASE stage = "idle" -> {"none"}
    [] stage = "counted" -> {"register"}
    [] stage = "rotating" -> {"refresh"}
    [] stage = "issuing" -> {"register", "login", "refresh"}
    [] stage \in {"read", "checked", "updated"} -> {"patch"}
    [] OTHER -> Endpoints

CallsTyped ==
  /\ pc \in [Request -> Stages] /\ DOMAIN op = Request
  /\ seen \in [Request -> UserRows \cup {NoUser}]
  /\ \A r \in Request : OpShape(op[r]) /\ op[r].kind \in KindOf(pc[r])

(* Rows have ids of their own, those of calls that are past their insert.   *)
RowsTyped ==
  /\ users \subseteq UserRows
  /\ tokens \subseteq [id : Request, user : Request, revoked : BOOLEAN]
  /\ jwts \subseteq Claims
  /\ \A u, v \in users : u.id = v.id => u = v
  /\ \A t, s \in tokens : t.id = s.id => t = s
  /\ \A u \in users : op[u.id].kind = "register" /\ pc[u.id] \in {"issuing", "ok", "error"}
  /\ \A t \in tokens : pc[t.id] = "ok" /\ t.user \in UserIds

(* The row a call has read may be out of date, its id is still a user's.    *)
SeenFits(r) ==
  /\ pc[r] \in {"read", "checked"} => seen[r] \in UserRows /\ seen[r].id = op[r].on
  /\ pc[r] \in {"rotating", "issuing"} => seen[r] \in UserRows /\ seen[r].id \in UserIds

(* A refresh that is past its revocation left no live token behind.         *)
Spent(id) == \A t \in tokens : t.id = id => t.revoked
SpentStay == \A r \in Request : op[r].kind = "refresh" /\ pc[r] \in {"issuing", "ok"} => Spent(op[r].on)

(* Before an administrator bootstraps, no row, claim or row read names one, *)
(* and no PATCH is let in.                                                  *)
Crowned == \E u \in Uninvited : op[u.id].role = "admin"
NoAdmins ==
  /\ \A u \in users : u.role # "admin"
  /\ \A j \in jwts : j.role # "admin"
  /\ \A r \in Request : /\ ~IsAdmin(op[r].as)
                        /\ seen[r] \in UserRows => seen[r].role # "admin"
                        /\ op[r].kind = "patch" => Done(r)

FreeInv ==
  /\ CallsTyped /\ RowsTyped /\ SpentStay
  /\ \A r \in Request : SeenFits(r)
  /\ Crowned \/ NoAdmins

-----------------------------------------------------------------------------
(* The row a handler finds under an id that is there.                       *)
LEMMA UserFound == ASSUME NEW id \in UserIds PROVE User(id) \in users /\ User(id).id = id
BY DEF User, UserIds

(* Whose id is in the users table.                                          *)
LEMMA RowOwner == ASSUME RowsTyped, NEW r \in UserIds PROVE pc[r] \in {"issuing", "ok", "error"}
BY DEF RowsTyped, UserIds

(* An account made without an admin is never deleted.                       *)
LEMMA CrownStays ==
  ASSUME Crowned, UserIds \subseteq UserIds', \A id \in UserIds : op'[id] = op[id]
  PROVE  Crowned'
<1>1. PICK u \in users : ~IsAdmin(op[u.id].as) /\ op[u.id].role = "admin"
  BY DEF Crowned, Uninvited
<1>2. u.id \in UserIds
  BY DEF UserIds
<1>3. PICK v \in users' : v.id = u.id
  BY <1>2 DEF UserIds
<1> QED BY <1>1, <1>2, <1>3 DEF Crowned, Uninvited, IsAdmin

(* A call leaves the stage it was at, the calls and their rows stay what    *)
(* they were.                                                               *)
LEMMA CallsStay ==
  ASSUME FreeInv, NEW r \in Request, ~Done(r), NEW to \in Stages, Goto(r, to), op' = op,
         seen' \in [Request -> UserRows \cup {NoUser}],
         \A s \in Request : s # r => seen'[s] = seen[s],
         op[r].kind \in KindOf(to), UserIds \subseteq UserIds', SeenFits(r)'
  PROVE  /\ CallsTyped' /\ \A s \in Request : SeenFits(s)'
         /\ pc'[r] = to /\ pc[r] # "ok" /\ \A s \in Request : s # r => pc'[s] = pc[s]
<1>1. /\ pc' \in [Request -> Stages] /\ pc'[r] = to /\ pc[r] # "ok"
      /\ \A s \in Request : s # r => pc'[s] = pc[s]
  BY DEF FreeInv, CallsTyped, Goto, Done
<1>2. \A s \in Request : pc[s] = "ok" => pc'[s] = "ok"
  BY <1>1
<1>3. \A s \in Request : OpShape(op[s])'
  BY <1>2 DEF FreeInv, CallsTyped, OpShape
<1>4. CallsTyped'
  BY <1>1, <1>3 DEF FreeInv, CallsTyped
<1>5. \A s \in Request : s # r => SeenFits(s)'
  BY <1>1 DEF FreeInv, SeenFits
<1> QED BY <1>1, <1>4, <1>5

(* A step that leaves the tables alone, and may read a row of users.        *)
LEMMA QuietFree ==
  ASSUME FreeInv, NEW r \in Request, ~Done(r), NEW to \in Stages, Goto(r, to),
         UNCHANGED <<op, users, tokens, jwts>>,
         NEW u \in users \cup {seen[r]}, seen' = [seen EXCEPT ![r] = u],
         op[r].kind \in KindOf(to),
         to \in {"issuing", "ok"} => op[r].kind # "refresh",
         r \in UserIds => to \in {"issuing", "ok", "error"},
         SeenFits(r)'
  PROVE  FreeInv'
<1>1. /\ seen' \in [Request -> UserRows \cup {NoUser}] /\ seen'[r] = u
      /\ \A s \in Request : s # r => seen'[s] = seen[s]
  BY DEF FreeInv, CallsTyped, RowsTyped
<1>2. UserIds' = UserIds
  BY DEF UserIds
<1>3. /\ CallsTyped' /\ \A s \in Request : SeenFits(s)'
      /\ pc'[r] = to /\ pc[r] # "ok" /\ \A s \in Request : s # r => pc'[s] = pc[s]
  BY <1>1, <1>2, CallsStay
<1>4. RowsTyped'
  <2>1. \A v \in users : v.id \in Request /\ v.id \in UserIds
    BY DEF FreeInv, RowsTyped, UserRows, UserIds
  <2>2. \A v \in users : pc'[v.id] \in {"issuing", "ok", "error"}
    BY <1>3, <2>1 DEF FreeInv, RowsTyped
  <2>3. \A t \in tokens : t.id \in Request /\ pc'[t.id] = "ok"
    BY <1>3 DEF FreeInv, RowsTyped
  <2> QED BY <1>2, <2>2, <2>3 DEF FreeInv, RowsTyped
<1>5. SpentStay'
  BY <1>3 DEF FreeInv, SpentStay, Spent
<1>6. Crowned' \/ NoAdmins'
  <2>1. CASE Crowned
    BY <1>2, <2>1, CrownStays
  <2>2. CASE NoAdmins
    <3>1. \A s \in Request : seen'[s] \in UserRows => seen'[s].role # "admin"
      BY <1>1, <2>2 DEF NoAdmins
    <3>2. \A s \in Request : op[s].kind = "patch" => Done(s)'
      BY <1>3, <2>2 DEF NoAdmins, Done
    <3> QED BY <2>2, <3>1, <3>2 DEF NoAdmins, IsAdmin
  <2> QED BY <2>1, <2>2 DEF FreeInv
<1> QED BY <1>3, <1>4, <1>5, <1>6 DEF FreeInv

(* The same where nothing is read.                                          *)
LEMMA UnreadFree ==
  ASSUME FreeInv, NEW r \in Request, ~Done(r), NEW to \in Stages, Goto(r, to),
         UNCHANGED <<op, seen, users, tokens, jwts>>,
         op[r].kind \in KindOf(to),
         to \in {"issuing", "ok"} => op[r].kind # "refresh",
         r \in UserIds => to \in {"issuing", "ok", "error"},
         SeenFits(r)'
  PROVE  FreeInv'
<1>1. seen' = [seen EXCEPT ![r] = seen[r]]
  BY DEF FreeInv, CallsTyped
<1> QED BY <1>1, QuietFree

(* A call that ends badly, wherever it stood.                               *)
LEMMA RefuseFree ==
  ASSUME FreeInv, NEW r \in Request, ~Done(r), Goto(r, "error"),
         UNCHANGED <<op, seen, users, tokens, jwts>>
  PROVE  FreeInv'
<1>1. op[r].kind \in Endpoints /\ pc'[r] = "error"
  BY DEF FreeInv, CallsTyped, KindOf, Endpoints, Stages, Done, Goto
<1>2. op[r].kind \in KindOf("error") /\ "error" \in Stages
  BY <1>1 DEF KindOf, Stages
<1>3. SeenFits(r)'
  BY <1>1 DEF SeenFits
<1> QED BY <1>2, <1>3, UnreadFree

-----------------------------------------------------------------------------
(* Every step keeps it, however many calls are in flight.                   *)
LEMMA ReceiveFree == ASSUME FreeInv, NEW r \in Request, Receive(r) PROVE FreeInv'
<1>1. PICK o \in Ops : /\ op' = [op EXCEPT ![r] = o]
                       /\ Goto(r, IF Forbidden(o) THEN "error" ELSE "received")
  BY DEF Receive
<1>2. pc[r] = "idle" /\ UNCHANGED <<seen, users, tokens, jwts>> /\ UserIds' = UserIds
  BY DEF Receive, UserIds
<1>3. /\ pc' \in [Request -> Stages] /\ pc'[r] = (IF Forbidden(o) THEN "error" ELSE "received")
      /\ \A s \in Request : s # r => pc'[s] = pc[s] /\ op'[s] = op[s]
      /\ op'[r] = o /\ DOMAIN op' = Request
  BY <1>1 DEF FreeInv, CallsTyped, Goto, Stages
<1>4. o.kind \in Endpoints /\ OpShape(o)
  <2>1. \A t \in tokens : t.id \in Request /\ pc[t.id] = "ok"
    BY DEF FreeInv, RowsTyped
  <2> QED BY <1>1, <2>1 DEF Ops, OpShape, UserIds, Endpoints
<1>5. \A s \in Request : pc[s] = "ok" => pc'[s] = "ok"
  BY <1>2, <1>3
<1>6. CallsTyped'
  <2>1. OpShape(o)'
    BY <1>2, <1>4, <1>5 DEF OpShape
  <2>2. \A s \in Request \ {r} : OpShape(op[s])'
    BY <1>2, <1>3, <1>5 DEF OpShape, FreeInv, CallsTyped
  <2>3. \A s \in Request : OpShape(op[s])'
    BY <1>3, <2>1, <2>2 DEF OpShape
  <2>4. op'[r].kind \in KindOf(pc'[r])
    BY <1>3, <1>4 DEF KindOf
  <2>5. \A s \in Request : op'[s].kind \in KindOf(pc'[s])
    BY <1>3, <2>4 DEF FreeInv, CallsTyped
  <2> QED BY <1>2, <1>3, <2>3, <2>5 DEF FreeInv, CallsTyped
<1>7. \A id \in UserIds : id \in Request /\ id # r
  BY <1>2 DEF FreeInv, RowsTyped, UserRows, UserIds
<1>8. RowsTyped'
  <2>1. \A t \in tokens : t.id \in Request /\ pc'[t.id] = "ok" /\ t.user \in UserIds
    BY <1>5 DEF FreeInv, RowsTyped
  <2>2. \A u \in users : op'[u.id] = op[u.id] /\ pc'[u.id] = pc[u.id]
    BY <1>3, <1>7 DEF UserIds
  <2> QED BY <1>2, <2>1, <2>2 DEF FreeInv, RowsTyped
<1>9. SpentStay'
  BY <1>2, <1>3 DEF FreeInv, SpentStay, Spent
<1>10. \A s \in Request : SeenFits(s)'
  BY <1>2, <1>3 DEF FreeInv, SeenFits
<1>11. Crowned' \/ NoAdmins'
  <2>1. CASE Crowned
    BY <1>2, <1>3, <1>7, <2>1, CrownStays
  <2>2. CASE NoAdmins
    <3>1. ~IsAdmin(o.as) /\ (o.kind = "patch" => o.as.role # "admin")
      BY <2>2 DEF Ops, NoAdmins, IsAdmin
    <3>2. o.kind = "patch" => Done(r)'
      BY <1>3, <3>1 DEF Forbidden, Done
    <3>3. \A s \in Request : s # r => ~IsAdmin(op'[s].as) /\ (op'[s].kind = "patch" => Done(s)')
      BY <1>3, <2>2 DEF NoAdmins, Done, IsAdmin
    <3> QED BY <1>2, <1>3, <2>2, <3>1, <3>2, <3>3 DEF NoAdmins, IsAdmin
  <2> QED BY <2>1, <2>2 DEF FreeInv
<1> QED BY <1>6, <1>8, <1>9, <1>10, <1>11 DEF FreeInv

LEMMA RegisterReadsFree ==
  ASSUME FreeInv, NEW r \in Request, CountUsers(r) \/ EmailTaken(r) PROVE FreeInv'
<1>1. CASE EmailTaken(r) \/ (CountUsers(r) /\ ~MayRegister(r))
  <2>1. pc[r] \in {"received", "counted"} /\ Goto(r, "error")
        /\ UNCHANGED <<op, seen, users, tokens, jwts>>
    BY <1>1 DEF EmailTaken, CountUsers, Refuse, Step
  <2> QED BY <2>1, RefuseFree DEF Done
<1>2. CASE CountUsers(r) /\ MayRegister(r)
  <2>1. /\ pc[r] = "received" /\ Goto(r, "counted") /\ op[r].kind = "register"
        /\ UNCHANGED <<op, seen, users, tokens, jwts>>
    BY <1>2 DEF CountUsers, Step
  <2>2. ~Done(r) /\ "counted" \in Stages /\ op[r].kind \in KindOf("counted")
    BY <2>1 DEF Done, Stages, KindOf
  <2>3. r \notin UserIds /\ pc'[r] = "counted"
    BY <2>1, RowOwner DEF FreeInv, CallsTyped, Goto
  <2>4. SeenFits(r)'
    BY <2>3 DEF SeenFits
  <2> QED BY <2>1, <2>2, <2>3, <2>4, UnreadFree
<1> QED BY <1>1, <1>2

(* Login, refresh and PATCH read a row of users.                            *)
LEMMA ReadRowFree ==
  ASSUME FreeInv, NEW r \in Request, NEW u \in users, NEW to \in {"issuing", "rotating", "read"},
         pc[r] = "received", Goto(r, to), seen' = [seen EXCEPT ![r] = u],
         UNCHANGED <<op, users, tokens, jwts>>,
         op[r].kind \in KindOf(to), to = "issuing" => op[r].kind = "login",
         to = "read" => u.id = op[r].on
  PROVE  FreeInv'
<1>1. ~Done(r) /\ to \in Stages
  BY DEF Done, Stages
<1>2. r \notin UserIds
  BY RowOwner DEF FreeInv
<1>3. pc'[r] = to /\ seen'[r] = u /\ u \in UserRows /\ u.id \in UserIds'
  BY DEF FreeInv, CallsTyped, RowsTyped, Goto, UserIds
<1>4. SeenFits(r)'
  BY <1>3 DEF SeenFits
<1> QED BY <1>1, <1>2, <1>4, QuietFree

LEMMA ReadsFree ==
  ASSUME FreeInv, NEW r \in Request, ReadLogin(r) \/ ReadToken(r) \/ ReadRow(r) PROVE FreeInv'
<1>1. CASE ReadLogin(r)
  BY <1>1, ReadRowFree DEF ReadLogin, KindOf
<1>2. CASE ReadToken(r)
  <2>1. PICK t \in tokens : t.id = op[r].on
    BY <1>2 DEF ReadToken
  <2>2. Token(r) \in tokens
    BY <2>1 DEF Token
  <2>3. User(Token(r).user) \in users
    BY <2>2, UserFound DEF FreeInv, RowsTyped
  <2> QED BY <1>2, <2>3, ReadRowFree DEF ReadToken, KindOf
<1>3. CASE ReadRow(r)
  <2>1. User(op[r].on) \in users /\ User(op[r].on).id = op[r].on
    BY <1>3, UserFound DEF ReadRow, FreeInv, CallsTyped, OpShape
  <2> QED BY <1>3, <2>1, ReadRowFree DEF ReadRow, Step, KindOf
<1> QED BY <1>1, <1>2, <1>3

LEMMA RefusalsFree ==
  ASSUME FreeInv, NEW r \in Request,
         LoginRefused(r) \/ TokenRefused(r) \/ UpdateClashes(r) \/ Abandon(r)
  PROVE  FreeInv'
<1>1. ~Done(r) /\ Goto(r, "error") /\ UNCHANGED <<op, seen, users, tokens, jwts>>
  BY DEF LoginRefused, TokenRefused, UpdateClashes, Abandon, Refuse, Step, InFlight, Done
<1> QED BY <1>1, RefuseFree

LEMMA CountAdminsFree == ASSUME FreeInv, NEW r \in Request, CountAdmins(r) PROVE FreeInv'
<1>1. PICK to \in {"error", "checked"} : pc[r] = "read" /\ Goto(r, to)
  BY DEF CountAdmins, Step
<1>2. UNCHANGED <<op, seen, users, tokens, jwts>> /\ UserIds' = UserIds
  BY DEF CountAdmins, UserIds
<1>3. ~Done(r) /\ to \in Stages /\ op[r].kind \in KindOf(to)
  BY <1>1 DEF FreeInv, CallsTyped, Done, Stages, KindOf, Endpoints
<1>4. r \notin UserIds /\ pc'[r] = to
  BY <1>1, RowOwner DEF FreeInv, CallsTyped, Goto
<1>5. SeenFits(r)'
  BY <1>1, <1>2, <1>4 DEF FreeInv, SeenFits
<1> QED BY <1>1, <1>2, <1>3, <1>4, <1>5, UnreadFree

LEMMA MeFree == ASSUME FreeInv, NEW r \in Request, Me(r) PROVE FreeInv'
<1>1. /\ pc[r] = "received" /\ Goto(r, "ok") /\ op[r].kind = "me"
      /\ UNCHANGED <<op, seen, users, tokens, jwts>>
  BY DEF Me, Step
<1>2. ~Done(r) /\ "ok" \in Stages /\ op[r].kind \in KindOf("ok")
  BY <1>1 DEF Done, Stages, KindOf, Endpoints
<1>3. SeenFits(r)'
  BY <1>1 DEF FreeInv, CallsTyped, Goto, SeenFits
<1> QED BY <1>1, <1>2, <1>3, UnreadFree

LEMMA InsertUserFree == ASSUME FreeInv, NEW r \in Request, InsertUser(r) PROVE FreeInv'
<1> DEFINE u == [id |-> r, email |-> op[r].email, role |-> op[r].role, status |-> "active"]
<1>1. /\ pc[r] = "counted" /\ Goto(r, "issuing") /\ users' = users \cup {u}
      /\ seen' = [seen EXCEPT ![r] = u] /\ UNCHANGED <<op, tokens, jwts>>
  BY DEF InsertUser, Step
<1>2. op[r].kind = "register" /\ u \in UserRows
  BY <1>1 DEF FreeInv, CallsTyped, OpShape, KindOf, UserRows, Statuses
<1>3. u.id = r /\ u.role = op[r].role
  OBVIOUS
<1> HIDE DEF u
<1>4. ~Done(r) /\ "issuing" \in Stages /\ op[r].kind \in KindOf("issuing")
  BY <1>1, <1>2 DEF Done, Stages, KindOf
<1>5. /\ pc'[r] = "issuing" /\ seen' \in [Request -> UserRows \cup {NoUser}] /\ seen'[r] = u
      /\ \A s \in Request : s # r => seen'[s] = seen[s]
  BY <1>1, <1>2 DEF FreeInv, CallsTyped, Goto
<1>6. UserIds \subseteq UserIds' /\ r \in UserIds'
  BY <1>1, <1>3 DEF UserIds
<1>7. SeenFits(r)'
  BY <1>2, <1>3, <1>5, <1>6 DEF SeenFits
<1>8. /\ CallsTyped' /\ \A s \in Request : SeenFits(s)'
      /\ \A s \in Request : s # r => pc'[s] = pc[s]
  BY <1>1, <1>4, <1>5, <1>6, <1>7, CallsStay
<1>9. \A v \in users : v.id \in Request /\ v.id # r
  BY <1>1 DEF FreeInv, RowsTyped, UserRows
<1>10. RowsTyped'
  <2>1. \A v, w \in users' : v.id = w.id => v = w
    BY <1>1, <1>3, <1>9 DEF FreeInv, RowsTyped
  <2>2. \A v \in users' : op'[v.id].kind = "register" /\ pc'[v.id] \in {"issuing", "ok", "error"}
    BY <1>1, <1>2, <1>3, <1>5, <1>8, <1>9 DEF FreeInv, RowsTyped
  <2>3. \A t \in tokens : t.id \in Request /\ pc'[t.id] = "ok" /\ t.user \in UserIds'
    BY <1>1, <1>6, <1>8 DEF FreeInv, RowsTyped
  <2> QED BY <1>1, <1>2, <2>1, <2>2, <2>3 DEF FreeInv, RowsTyped
<1>11. SpentStay'
  BY <1>1, <1>2, <1>8 DEF FreeInv, SpentStay, Spent
<1>12. Crowned' \/ NoAdmins'
  <2>1. CASE Crowned
    BY <1>1, <1>6, <2>1, CrownStays
  <2>2. CASE NoAdmins /\ op[r].role = "admin"
    BY <1>1, <1>3, <2>2 DEF NoAdmins, Crowned, Uninvited, IsAdmin
  <2>3. CASE NoAdmins /\ op[r].role # "admin"
    <3>1. \A s \in Request : seen'[s] \in UserRows => seen'[s].role # "admin"
      BY <1>3, <1>5, <2>3 DEF NoAdmins
    <3>2. \A s \in Request : op[s].kind = "patch" => Done(s)'
      BY <1>2, <1>8, <2>3 DEF NoAdmins, Done
    <3> QED BY <1>1, <1>3, <2>3, <3>1, <3>2 DEF NoAdmins, IsAdmin
  <2> QED BY <2>1, <2>2, <2>3 DEF FreeInv
<1> QED BY <1>8, <1>10, <1>11, <1>12 DEF FreeInv

(* The rows of refresh_tokens after a revocation.                           *)
LEMMA TokensRevoked ==
  ASSUME FreeInv, NEW r \in Request, Revoke(r)
  PROVE  /\ \A t \in tokens' : \E o \in tokens : /\ o.id = t.id /\ o.user = t.user
                                                 /\ o.revoked \/ o.id = op[r].on => t.revoked
         /\ tokens' \subseteq [id : Request, user : Request, revoked : BOOLEAN]
         /\ \A t, s \in tokens' : t.id = s.id => t = s
<1> DEFINE Spend(t) == IF t.id = op[r].on THEN [t EXCEPT !.revoked = TRUE] ELSE t
<1>1. tokens' = {Spend(t) : t \in tokens}
  BY DEF Revoke
<1>2. \A t \in tokens : /\ Spend(t).id = t.id /\ Spend(t).user = t.user
                        /\ Spend(t) \in [id : Request, user : Request, revoked : BOOLEAN]
                        /\ Spend(t).revoked = (t.revoked \/ t.id = op[r].on)
  <2>1. tokens \subseteq [id : Request, user : Request, revoked : BOOLEAN]
    BY DEF FreeInv, RowsTyped
  <2> QED BY <2>1
<1> HIDE DEF Spend
<1> QED BY <1>1, <1>2 DEF FreeInv, RowsTyped

LEMMA RevokeFree == ASSUME FreeInv, NEW r \in Request, Revoke(r) PROVE FreeInv'
<1>1. pc[r] = "rotating" /\ Goto(r, "issuing") /\ UNCHANGED <<op, seen, users, jwts>>
  BY DEF Revoke, Step
<1>2. /\ op[r].kind = "refresh" /\ ~Done(r) /\ "issuing" \in Stages
      /\ op[r].kind \in KindOf("issuing")
  BY <1>1 DEF FreeInv, CallsTyped, KindOf, Done, Stages
<1>3. pc'[r] = "issuing" /\ seen' \in [Request -> UserRows \cup {NoUser}] /\ UserIds' = UserIds
  BY <1>1 DEF FreeInv, CallsTyped, Goto, UserIds
<1>4. SeenFits(r)'
  BY <1>1, <1>3 DEF FreeInv, SeenFits
<1>5. /\ CallsTyped' /\ \A s \in Request : SeenFits(s)'
      /\ \A s \in Request : s # r => pc'[s] = pc[s]
  BY <1>1, <1>2, <1>3, <1>4, CallsStay
<1>6. RowsTyped'
  <2>1. \A t \in tokens' : pc'[t.id] = "ok" /\ t.user \in UserIds'
    <3> SUFFICES ASSUME NEW o \in tokens PROVE pc'[o.id] = "ok" /\ o.user \in UserIds'
      BY TokensRevoked
    <3>1. o.id \in Request /\ pc[o.id] = "ok" /\ o.user \in UserIds
      BY DEF FreeInv, RowsTyped
    <3> QED BY <1>1, <1>3, <1>5, <3>1
  <2>2. \A u \in users : u.id \in Request
    BY DEF FreeInv, RowsTyped, UserRows
  <2>3. \A u \in users' : op'[u.id].kind = "register" /\ pc'[u.id] \in {"issuing", "ok", "error"}
    BY <1>1, <1>3, <1>5, <2>2 DEF FreeInv, RowsTyped
  <2> QED BY <1>1, <2>1, <2>3, TokensRevoked DEF FreeInv, RowsTyped
<1>7. SpentStay'
  <2>1. ASSUME NEW id, Spent(id) \/ id = op[r].on PROVE Spent(id)'
    <3> SUFFICES ASSUME NEW t \in tokens', t.id = id PROVE t.revoked
      BY DEF Spent
    <3>1. PICK o \in tokens : o.id = t.id /\ (o.revoked \/ o.id = op[r].on => t.revoked)
      BY TokensRevoked
    <3> QED BY <2>1, <3>1 DEF Spent
  <2>2. Spent(op[r].on)'
    BY <1>1, <2>1 DEF Spent
  <2>3. \A s \in Request : s # r /\ op[s].kind = "refresh" /\ pc'[s] \in {"issuing", "ok"} =>
          Spent(op[s].on)
    BY <1>5 DEF FreeInv, SpentStay
  <2> QED BY <1>1, <2>1, <2>2, <2>3 DEF SpentStay, Spent
<1>8. Crowned' \/ NoAdmins'
  <2>1. CASE Crowned
    BY <1>1, <1>3, <2>1, CrownStays
  <2>2. CASE NoAdmins
    BY <1>1, <1>2, <1>5, <2>2 DEF NoAdmins, IsAdmin, Done
  <2> QED BY <2>1, <2>2 DEF FreeInv
<1> QED BY <1>5, <1>6, <1>7, <1>8 DEF FreeInv

LEMMA IssueFree == ASSUME FreeInv, NEW r \in Request, Issue(r) PROVE FreeInv'
<1> DEFINE t == [id |-> r, user |-> seen[r].id, revoked |-> FALSE]
           j == [user |-> seen[r].id, role |-> seen[r].role]
<1>1. /\ pc[r] = "issuing" /\ Goto(r, "ok") /\ UNCHANGED <<op, seen, users>>
      /\ tokens' = tokens \cup {t} /\ jwts' = jwts \cup {j}
  BY DEF Issue, Step
<1>2. seen[r] \in UserRows /\ seen[r].id \in UserIds
  BY <1>1 DEF FreeInv, SeenFits
<1>3. /\ t \in [id : Request, user : Request, revoked : BOOLEAN] /\ j \in Claims
      /\ t.id = r /\ t.user \in UserIds /\ j.role = seen[r].role
  BY <1>2 DEF UserRows, Claims
<1> HIDE DEF t, j
<1>4. ~Done(r) /\ "ok" \in Stages /\ op[r].kind \in KindOf("ok") /\ op[r].kind # "patch"
  BY <1>1 DEF FreeInv, CallsTyped, KindOf, Done, Stages, Endpoints
<1>5. pc'[r] = "ok" /\ seen' \in [Request -> UserRows \cup {NoUser}] /\ UserIds' = UserIds
  BY <1>1 DEF FreeInv, CallsTyped, Goto, UserIds
<1>6. SeenFits(r)'
  BY <1>5 DEF SeenFits
<1>7. /\ CallsTyped' /\ \A s \in Request : SeenFits(s)'
      /\ \A s \in Request : s # r => pc'[s] = pc[s]
  BY <1>1, <1>4, <1>5, <1>6, CallsStay
<1>8. \A s \in tokens : s.id \in Request /\ s.id # r
  BY <1>1 DEF FreeInv, RowsTyped
<1>9. RowsTyped'
  <2>1. \A s, v \in tokens' : s.id = v.id => s = v
    BY <1>1, <1>3, <1>8 DEF FreeInv, RowsTyped
  <2>2. \A s \in tokens' : pc'[s.id] = "ok" /\ s.user \in UserIds'
    BY <1>1, <1>3, <1>5, <1>7, <1>8 DEF FreeInv, RowsTyped
  <2>3. \A u \in users : u.id \in Request
    BY DEF FreeInv, RowsTyped, UserRows
  <2>4. \A u \in users' : op'[u.id].kind = "register" /\ pc'[u.id] \in {"issuing", "ok", "error"}
    BY <1>1, <1>5, <1>7, <2>3 DEF FreeInv, RowsTyped
  <2> QED BY <1>1, <1>3, <2>1, <2>2, <2>4 DEF FreeInv, RowsTyped
<1>10. SpentStay'
  <2>1. \A s \in Request : op[s].kind = "refresh" => op[s].on # r
    BY <1>1 DEF FreeInv, CallsTyped, OpShape
  <2>2. \A s \in Request : op[s].kind = "refresh" /\ Spent(op[s].on) => Spent(op[s].on)'
    BY <1>1, <1>3, <2>1 DEF Spent
  <2>3. \A s \in Request : pc'[s] \in {"issuing", "ok"} => pc[s] \in {"issuing", "ok"}
    BY <1>1, <1>7
  <2> QED BY <1>1, <2>2, <2>3 DEF FreeInv, SpentStay, Spent
<1>11. Crowned' \/ NoAdmins'
  <2>1. CASE Crowned
    BY <1>1, <1>5, <2>1, CrownStays
  <2>2. CASE NoAdmins
    BY <1>1, <1>2, <1>3, <1>4, <1>7, <2>2 DEF NoAdmins, IsAdmin, Done
  <2> QED BY <2>1, <2>2 DEF FreeInv
<1> QED BY <1>7, <1>9, <1>10, <1>11 DEF FreeInv

(* The row an UPDATE writes, of whatever age the row it was merged into.    *)
LEMMA MergedFits ==
  ASSUME FreeInv, NEW r \in Request, pc[r] = "checked"
  PROVE  /\ Merged(r) \in UserRows /\ Merged(r).id = op[r].on
         /\ seen[r] \in UserRows /\ seen[r].id = op[r].on /\ op[r].on \in UserIds
         /\ Merged(r).status = Patched(op[r].status, seen[r].status)
<1>1. seen[r].id = op[r].on /\ seen[r] \in UserRows
  BY DEF FreeInv, SeenFits
<1>2. /\ op[r].email \in Email \cup {None} /\ op[r].role \in Roles \cup {None}
      /\ op[r].status \in Statuses \cup {None} /\ op[r].on \in UserIds
  BY DEF FreeInv, CallsTyped, OpShape, KindOf
<1>3. /\ Patched(op[r].email, seen[r].email) \in Email
      /\ Patched(op[r].role, seen[r].role) \in Roles
      /\ Patched(op[r].status, seen[r].status) \in Statuses
  BY <1>1, <1>2 DEF Patched, UserRows
<1> QED BY <1>1, <1>2, <1>3 DEF Merged, UserRows

(* After the UPDATE every user is there who was, and the others unchanged.  *)
LEMMA RowsUpdated ==
  ASSUME FreeInv, NEW r \in Request, UpdateRow(r)
  PROVE  /\ \A v \in users' : v = Merged(r) \/ (v \in users /\ v.id # op[r].on)
         /\ \A u \in users : u.id # op[r].on => u \in users'
         /\ Merged(r) \in users' /\ UserIds' = UserIds /\ pc[r] = "checked"
<1>1. /\ pc[r] = "checked" /\ users' = {IF u.id = op[r].on THEN Merged(r) ELSE u : u \in users}
  BY DEF UpdateRow
<1>2. op[r].on \in UserIds /\ Merged(r).id = op[r].on
  BY <1>1, MergedFits
<1>3. \A v \in users' : v = Merged(r) \/ (v \in users /\ v.id # op[r].on)
  BY <1>1
<1>4. \A u \in users : u.id # op[r].on => u \in users'
  BY <1>1
<1>5. Merged(r) \in users'
  <2>1. PICK u \in users : u.id = op[r].on
    BY <1>2 DEF UserIds
  <2> QED BY <1>1, <2>1
<1>6. UserIds' = UserIds
  <2>1. \A v \in users' : v.id \in UserIds
    BY <1>2, <1>3 DEF UserIds
  <2>2. \A u \in users : \E v \in users' : v.id = u.id
    BY <1>2, <1>4, <1>5
  <2> QED BY <2>1, <2>2 DEF UserIds
<1> QED BY <1>1, <1>3, <1>4, <1>5, <1>6

LEMMA UpdateRowFree == ASSUME FreeInv, NEW r \in Request, UpdateRow(r) PROVE FreeInv'
<1>1. PICK to \in {"updated", "ok"} : pc[r] = "checked" /\ Goto(r, to)
  BY DEF UpdateRow, Step
<1>2. UNCHANGED <<op, seen, tokens, jwts>>
  BY DEF UpdateRow
<1>3. /\ op[r].kind = "patch" /\ ~Done(r) /\ to \in Stages /\ op[r].kind \in KindOf(to)
  BY <1>1 DEF FreeInv, CallsTyped, KindOf, Done, Stages, Endpoints
<1>4. seen' \in [Request -> UserRows \cup {NoUser}] /\ UserIds' = UserIds /\ pc'[r] = to
  BY <1>1, <1>2, RowsUpdated DEF FreeInv, CallsTyped, Goto
<1>5. SeenFits(r)'
  BY <1>1, <1>4 DEF SeenFits
<1>6. /\ CallsTyped' /\ \A s \in Request : SeenFits(s)'
      /\ \A s \in Request : s # r => pc'[s] = pc[s]
  BY <1>1, <1>2, <1>3, <1>4, <1>5, CallsStay
<1>7. Merged(r) \in UserRows /\ Merged(r).id = op[r].on
  BY <1>1, MergedFits
<1>8. RowsTyped'
  <2>1. \A u, v \in users' : u.id = v.id => u = v
    BY <1>7, RowsUpdated DEF FreeInv, RowsTyped
  <2>2. users' \subseteq UserRows
    BY <1>7, RowsUpdated DEF FreeInv, RowsTyped
  <2>3. \A id \in UserIds : op[id].kind = "register" /\ pc'[id] \in {"issuing", "ok", "error"}
    <3>1. \A id \in UserIds : id \in Request /\ id # r
      BY <1>1, RowOwner DEF FreeInv, RowsTyped, UserRows, UserIds
    <3> QED BY <1>6, <3>1 DEF FreeInv, RowsTyped, UserIds
  <2>4. \A u \in users' : u.id \in UserIds
    BY <1>4 DEF UserIds
  <2>5. \A t \in tokens : t.id \in Request /\ pc'[t.id] = "ok" /\ t.user \in UserIds'
    BY <1>1, <1>4, <1>6 DEF FreeInv, RowsTyped
  <2> QED BY <1>2, <2>1, <2>2, <2>3, <2>4, <2>5 DEF FreeInv, RowsTyped
<1>9. SpentStay'
  BY <1>2, <1>3, <1>6 DEF FreeInv, SpentStay, Spent
<1>10. Crowned'
  <2>1. Crowned
    BY <1>3 DEF FreeInv, NoAdmins
  <2> QED BY <1>2, <1>4, <2>1, CrownStays
<1> QED BY <1>6, <1>8, <1>9, <1>10 DEF FreeInv

LEMMA DeleteTokensFree == ASSUME FreeInv, NEW r \in Request, DeleteTokens(r) PROVE FreeInv'
<1>1. /\ pc[r] = "updated" /\ Goto(r, "ok") /\ UNCHANGED <<op, seen, users, jwts>>
      /\ tokens' \subseteq tokens
  BY DEF DeleteTokens, Step
<1>2. /\ op[r].kind = "patch" /\ ~Done(r) /\ "ok" \in Stages /\ op[r].kind \in KindOf("ok")
  BY <1>1 DEF FreeInv, CallsTyped, KindOf, Done, Stages, Endpoints
<1>3. pc'[r] = "ok" /\ seen' \in [Request -> UserRows \cup {NoUser}] /\ UserIds' = UserIds
  BY <1>1 DEF FreeInv, CallsTyped, Goto, UserIds
<1>4. SeenFits(r)'
  BY <1>3 DEF SeenFits
<1>5. /\ CallsTyped' /\ \A s \in Request : SeenFits(s)'
      /\ \A s \in Request : s # r => pc'[s] = pc[s]
  BY <1>1, <1>2, <1>3, <1>4, CallsStay
<1>6. RowsTyped'
  <2>1. \A u \in users : u.id \in Request
    BY DEF FreeInv, RowsTyped, UserRows
  <2>2. \A u \in users' : op'[u.id].kind = "register" /\ pc'[u.id] \in {"issuing", "ok", "error"}
    BY <1>1, <1>3, <1>5, <2>1 DEF FreeInv, RowsTyped
  <2>3. \A t \in tokens' : t.id \in Request /\ pc'[t.id] = "ok" /\ t.user \in UserIds'
    BY <1>1, <1>3, <1>5 DEF FreeInv, RowsTyped
  <2> QED BY <1>1, <2>2, <2>3 DEF FreeInv, RowsTyped
<1>7. SpentStay'
  BY <1>1, <1>2, <1>5 DEF FreeInv, SpentStay, Spent
<1>8. Crowned'
  <2>1. Crowned
    BY <1>2 DEF FreeInv, NoAdmins
  <2> QED BY <1>1, <1>3, <2>1, CrownStays
<1> QED BY <1>5, <1>6, <1>7, <1>8 DEF FreeInv

LEMMA ExpireJwtFree == ASSUME FreeInv, ExpireJwt PROVE FreeInv'
<1>1. UNCHANGED <<pc, op, seen, users, tokens>> /\ jwts' \subseteq jwts
  BY DEF ExpireJwt
<1> QED BY <1>1 DEF FreeInv, CallsTyped, OpShape, RowsTyped, UserIds, SpentStay, Spent, SeenFits,
               Crowned, NoAdmins, Uninvited, IsAdmin, Done

LEMMA InitFree == Init => FreeInv
BY DEF Init, FreeInv, CallsTyped, Stages, NoOp, OpShape, KindOf, RowsTyped, SpentStay, SeenFits,
       NoAdmins, IsAdmin, Done, NoUser, UserRows

LEMMA StepFree == ASSUME FreeInv, [Next]_vars PROVE FreeInv'
<1>1. CASE UNCHANGED vars
  BY <1>1 DEF vars, FreeInv, CallsTyped, OpShape, RowsTyped, UserIds, SpentStay, Spent, SeenFits,
              Crowned, NoAdmins, Uninvited, IsAdmin, Done
<1>2. CASE Next
  BY <1>2, ReceiveFree, RegisterReadsFree, InsertUserFree, ReadsFree, RefusalsFree, RevokeFree,
     IssueFree, CountAdminsFree, UpdateRowFree, DeleteTokensFree, MeFree, ExpireJwtFree DEF Next
<1> QED BY <1>1, <1>2

LEMMA FreeHolds == Spec => []FreeInv
<1>1. FreeInv /\ [Next]_vars => FreeInv'
  BY StepFree
<1> QED BY <1>1, InitFree, PTL DEF Spec

(* auth.rs, register, and users.rs: nobody becomes an administrator but by  *)
(* an administrator, or on the empty table, however calls overlap.          *)
THEOREM AdminsCrowned == Spec => []AdminsFromAdmins
<1>1. FreeInv => AdminsFromAdmins
  BY DEF FreeInv, Crowned, NoAdmins, AdminsFromAdmins
<1> QED BY <1>1, FreeHolds, PTL

-----------------------------------------------------------------------------
(* Two calls in flight have met, meeting is mutual, and a call not yet made *)
(* has met nobody.                                                          *)
MetFits ==
  /\ met \in [Request -> SUBSET Request]
  /\ \A r \in Request, s \in Request : s \in met[r] => r \in met[s] /\ pc[s] # "idle"
  /\ \A r \in Request, s \in Request : ~Done(r) /\ ~Done(s) /\ r # s => s \in met[r]

Rotated(s) == op[s].kind = "refresh" /\ pc[s] \in {"issuing", "ok"}

(* What a call has read is so still, or the call met one that changed it.   *)
Fresh(r) ==
  /\ pc[r] = "counted" /\ ~IsAdmin(op[r].as) => UserIds \subseteq met[r]
  /\ pc[r] = "rotating" => \A s \in Request : Rotated(s) /\ op[s].on = op[r].on => s \in met[r]
  /\ pc[r] \in {"read", "checked"} => MetPatchOf(r, op[r].on) \/ seen[r] \in users
  /\ pc[r] = "checked" => \/ MetPatch(r)
                          \/ seen[r] \in users /\ (StripsAdmin(r) => OtherAdmins(r) # {})

BootIds ==
  \A i, j \in UserIds : ~IsAdmin(op[i].as) /\ ~IsAdmin(op[j].as) /\ i # j => j \in met[i]

(* Whoever holds a token of a suspended user, or is about to, met a PATCH.  *)
Severed(id) ==
  /\ \A t \in tokens : t.user = id => MetPatchOf(t.id, id)
  /\ \A c \in Request : pc[c] \in {"rotating", "issuing"} /\ seen[c].id = id => MetPatchOf(c, id)
SuspendedSevered ==
  \A u \in users : u.status = "suspended" => SuspensionUnfinished(u.id) \/ Severed(u.id)

MeetInv ==
  /\ FreeInv /\ MetFits /\ BootIds /\ RotationsOverlap /\ SuspendedSevered
  /\ \A r \in Request : Fresh(r)

-----------------------------------------------------------------------------
(* A call that has been received moves on: what the others have read stays  *)
(* fresh, for it has met every call that can see it move.                   *)
LEMMA OthersFresh ==
  ASSUME MeetInv, NEW r \in Request, ~Done(r), NEW to \in Stages \ {"idle"}, Goto(r, to),
         UNCHANGED <<op, met>>,
         \A s \in Request : s # r => seen'[s] = seen[s],
         \/ users \subseteq users' /\ UserIds' \subseteq UserIds \cup {r}
         \/ UpdateRow(r)
  PROVE  /\ MetFits' /\ pc'[r] = to
         /\ \A s \in Request : s # r => pc'[s] = pc[s] /\ Fresh(s)'
<1>1. pc'[r] = to /\ \A s \in Request : s # r => pc'[s] = pc[s]
  BY DEF MeetInv, FreeInv, CallsTyped, Goto
<1>2. MetFits'
  BY <1>1 DEF MeetInv, MetFits, Done
<1>3. ASSUME NEW s \in Request, s # r PROVE Fresh(s)'
  <2>1. pc'[s] = pc[s] /\ seen'[s] = seen[s] /\ Fresh(s)
    BY <1>1, <1>3 DEF MeetInv
  <2>2. ~Done(s) => r \in met[s]
    BY <1>3 DEF MeetInv, MetFits
  <2>3. pc[s] = "counted" /\ ~IsAdmin(op[s].as) => UserIds' \subseteq met[s]
    <3>1. UserIds' \subseteq UserIds \cup {r}
      BY RowsUpdated DEF MeetInv
    <3> QED BY <2>1, <2>2, <3>1 DEF Fresh, Done
  <2>4. pc[s] = "rotating" =>
          \A x \in Request : Rotated(x)' /\ op[x].on = op[s].on => x \in met[s]
    BY <1>1, <2>1, <2>2 DEF Fresh, Rotated, Done
  <2>5. CASE users \subseteq users'
    <3>1. OtherAdmins(s) \subseteq OtherAdmins(s)'
      BY <2>5 DEF OtherAdmins, ActiveAdmins
    <3>2. StripsAdmin(s)' = StripsAdmin(s)
      BY <2>1 DEF StripsAdmin, Merged
    <3>3. MetPatch(s)' = MetPatch(s) /\ MetPatchOf(s, op[s].on)' = MetPatchOf(s, op[s].on)
      BY DEF MetPatch, MetPatchOf
    <3>4. pc[s] \in {"read", "checked"} => MetPatchOf(s, op[s].on)' \/ seen[s] \in users'
      BY <2>1, <2>5, <3>3 DEF Fresh
    <3>5. pc[s] = "checked" => \/ MetPatch(s)'
                               \/ seen[s] \in users' /\ (StripsAdmin(s)' => OtherAdmins(s)' # {})
      BY <2>1, <2>5, <3>1, <3>2, <3>3 DEF Fresh
    <3> QED BY <2>1, <2>3, <2>4, <3>4, <3>5 DEF Fresh, IsAdmin
  <2>6. CASE UpdateRow(r)
    <3>1. /\ op[r].kind = "patch"
          /\ \A u \in users : u.id # op[r].on => u \in users'
      BY <2>6, RowsUpdated DEF MeetInv, FreeInv, CallsTyped, KindOf
    <3>2. ~Done(s) => MetPatch(s)'
      BY <2>2, <3>1 DEF MetPatch
    <3>3. ~Done(s) /\ op[r].on = op[s].on => MetPatchOf(s, op[s].on)'
      BY <2>2, <3>1 DEF MetPatchOf
    <3>4. pc[s] \in {"read", "checked"} => seen[s].id = op[s].on
      BY DEF MeetInv, FreeInv, SeenFits
    <3>5. pc[s] \in {"read", "checked"} => MetPatchOf(s, op[s].on)' \/ seen[s] \in users'
      <4>1. MetPatchOf(s, op[s].on)' = MetPatchOf(s, op[s].on)
        BY DEF MetPatchOf
      <4> QED BY <2>1, <3>1, <3>3, <3>4, <4>1 DEF Fresh, Done
    <3>6. pc[s] = "checked" => MetPatch(s)'
      BY <3>2 DEF Done
    <3> QED BY <2>1, <2>3, <2>4, <3>5, <3>6 DEF Fresh, IsAdmin
  <2> QED BY <2>5, <2>6
<1> QED BY <1>1, <1>2, <1>3

(* No suspension is lost sight of by a step that ends none, adds a token    *)
(* only for a call that was about to get it, and reads active users only.   *)
LEMMA SeveredStays ==
  ASSUME MeetInv, FreeInv', NEW r \in Request, ~Done(r), NEW to \in Stages, Goto(r, to),
         UNCHANGED <<op, met>>,
         \A s \in Request : s # r => seen'[s] = seen[s],
         \A u \in users' : u.status = "suspended" =>
           \/ SuspensionUnfinished(u.id)'
           \/ \E o \in users : o.id = u.id /\ o.status = "suspended",
         \A t \in tokens' : \/ \E o \in tokens : o.id = t.id /\ o.user = t.user
                            \/ pc[r] = "issuing" /\ t.id = r /\ t.user = seen[r].id,
         to \in {"rotating", "issuing"} =>
           \/ pc[r] \in {"rotating", "issuing"} /\ seen' = seen
           \/ seen'[r] \in users' /\ seen'[r].status = "active",
         pc[r] = "updated" => to = "error" /\ seen' = seen
  PROVE  SuspendedSevered'
<1>1. pc'[r] = to /\ \A s \in Request : s # r => pc'[s] = pc[s]
  BY DEF MeetInv, FreeInv, CallsTyped, Goto
<1> SUFFICES ASSUME NEW u \in users', u.status = "suspended", ~SuspensionUnfinished(u.id)'
             PROVE  Severed(u.id)'
  BY DEF SuspendedSevered
<1>2. ~SuspensionUnfinished(u.id)
  <2> SUFFICES ASSUME NEW s \in Request, op[s].kind = "patch", op[s].on = u.id,
                      pc[s] \in {"updated", "error"}, seen[s].id = u.id,
                      Merged(s).status = "suspended"
               PROVE  FALSE
    BY DEF SuspensionUnfinished
  <2>1. pc'[s] \in {"updated", "error"} /\ seen'[s] = seen[s]
    BY <1>1 DEF Done
  <2>2. Merged(s)' = Merged(s)
    BY <2>1 DEF Merged
  <2> QED BY <2>1, <2>2 DEF SuspensionUnfinished
<1>3. Severed(u.id)
  BY <1>2 DEF MeetInv, SuspendedSevered
<1>4. \A c : MetPatchOf(c, u.id)' = MetPatchOf(c, u.id)
  BY DEF MetPatchOf
<1>5. \A t \in tokens' : t.user = u.id => MetPatchOf(t.id, u.id)
  BY <1>3 DEF Severed
<1>6. ASSUME NEW c \in Request, pc'[c] \in {"rotating", "issuing"}, seen'[c].id = u.id
      PROVE  MetPatchOf(c, u.id)
  <2>1. CASE c # r \/ (pc[r] \in {"rotating", "issuing"} /\ seen' = seen)
    BY <1>1, <1>3, <1>6, <2>1 DEF Severed
  <2>2. CASE c = r /\ seen'[r] \in users' /\ seen'[r].status = "active"
    BY <1>6, <2>2 DEF FreeInv, RowsTyped
  <2> QED BY <1>1, <1>6, <2>1, <2>2
<1> QED BY <1>4, <1>5, <1>6 DEF Severed

(* A step that writes no table but jwts, and is no step of a rotation.      *)
LEMMA QuietMeet ==
  ASSUME MeetInv, FreeInv', NEW r \in Request, ~Done(r), NEW to \in Stages \ {"idle"},
         Goto(r, to), UNCHANGED <<op, users, tokens, met>>,
         \A s \in Request : s # r => seen'[s] = seen[s],
         to \in {"issuing", "ok"} => op[r].kind # "refresh",
         to \in {"rotating", "issuing"} => seen'[r] \in users /\ seen'[r].status = "active",
         pc[r] = "updated" => to = "error" /\ seen' = seen,
         Fresh(r)'
  PROVE  MeetInv'
<1>1. UserIds' = UserIds
  BY DEF UserIds
<1>2. /\ MetFits' /\ pc'[r] = to
      /\ \A s \in Request : s # r => pc'[s] = pc[s] /\ Fresh(s)'
  BY <1>1, OthersFresh
<1>3. RotationsOverlap'
  BY <1>2 DEF MeetInv, RotationsOverlap
<1>4. BootIds'
  BY <1>1 DEF MeetInv, BootIds, IsAdmin
<1>5. SuspendedSevered'
  BY SeveredStays
<1> QED BY <1>2, <1>3, <1>4, <1>5 DEF MeetInv

(* A call that ended badly, wherever it stood.                              *)
LEMMA RefuseMeet ==
  ASSUME MeetInv, FreeInv', NEW r \in Request, ~Done(r), Goto(r, "error"),
         UNCHANGED <<op, seen, users, tokens, jwts, met>>
  PROVE  MeetInv'
<1>1. pc'[r] = "error" /\ "error" \in Stages \ {"idle"}
  BY DEF MeetInv, FreeInv, CallsTyped, Goto, Stages
<1>2. Fresh(r)'
  BY <1>1 DEF Fresh
<1> QED BY <1>1, <1>2, QuietMeet

-----------------------------------------------------------------------------
(* Every step keeps it.                                                     *)
LEMMA ReceiveMeets == ASSUME MeetInv, FreeInv', NEW r \in Request, Receive(r) PROVE MeetInv'
<1>1. PICK o \in Ops : /\ op' = [op EXCEPT ![r] = o]
                       /\ Goto(r, IF Forbidden(o) THEN "error" ELSE "received")
                       /\ met' = IF Forbidden(o) THEN met ELSE WithMeeting(r)
  BY DEF Receive
<1>2. pc[r] = "idle" /\ UNCHANGED <<seen, users, tokens, jwts>> /\ UserIds' = UserIds
  BY DEF Receive, UserIds
<1>3. /\ pc'[r] = (IF Forbidden(o) THEN "error" ELSE "received")
      /\ \A s \in Request : s # r => pc'[s] = pc[s] /\ op'[s] = op[s]
  BY <1>1 DEF MeetInv, FreeInv, CallsTyped, Goto
<1>4. \A s \in Request : r \notin met[s] /\ met[r] = {}
  BY <1>2 DEF MeetInv, MetFits
<1>5. \A s \in Request : s \in InFlight <=> ~Done(s)
  BY DEF InFlight, Done
<1>6. MetFits' /\ \A s \in Request : met[s] \subseteq met'[s]
  <2>1. CASE Forbidden(o)
    BY <1>1, <1>2, <1>3, <1>4, <2>1 DEF MeetInv, MetFits, Done
  <2>2. CASE ~Forbidden(o)
    <3>1. met' = WithMeeting(r) /\ InFlight \subseteq Request /\ r \notin InFlight
      BY <1>1, <1>2, <1>5, <2>2 DEF InFlight, Done
    <3>2. /\ met' \in [Request -> SUBSET Request] /\ met'[r] = InFlight
          /\ \A s \in Request : s # r =>
               met'[s] = IF s \in InFlight THEN met[s] \cup {r} ELSE met[s]
      BY <3>1 DEF WithMeeting, MeetInv, MetFits
    <3>3. ASSUME NEW x \in Request, NEW s \in Request, s \in met'[x]
          PROVE  x \in met'[s] /\ pc'[s] # "idle"
      <4>1. CASE x = r
        BY <1>2, <1>3, <1>5, <3>2, <3>3, <4>1 DEF Done
      <4>2. CASE x # r /\ s = r
        BY <1>3, <1>4, <3>2, <3>3, <4>2
      <4>3. CASE x # r /\ s # r
        <5>1. s \in met[x] /\ x \in met[s] /\ pc[s] # "idle"
          BY <3>2, <3>3, <4>3 DEF MeetInv, MetFits
        <5> QED BY <1>3, <3>2, <4>3, <5>1
      <4> QED BY <4>1, <4>2, <4>3
    <3>4. ASSUME NEW x \in Request, NEW s \in Request, ~Done(x)', ~Done(s)', x # s
          PROVE  s \in met'[x]
      <4>1. x # r => ~Done(x)
        BY <1>3, <3>4 DEF Done
      <4>2. s # r => ~Done(s)
        BY <1>3, <3>4 DEF Done
      <4> QED BY <1>5, <3>2, <3>4, <4>1, <4>2 DEF MeetInv, MetFits
    <3>5. \A s \in Request : met[s] \subseteq met'[s]
      BY <1>4, <3>2
    <3> QED BY <3>2, <3>3, <3>4, <3>5 DEF MetFits
  <2> QED BY <2>1, <2>2
<1>7. \A s \in Request : \A x \in met[s] : op'[x] = op[x]
  BY <1>3, <1>4 DEF MeetInv, MetFits
<1>9. ASSUME NEW s \in Request PROVE Fresh(s)'
  <2>1. CASE s = r
    BY <1>3, <2>1 DEF Fresh
  <2>2. CASE s # r
    <3>1. pc'[s] = pc[s] /\ op'[s] = op[s] /\ seen'[s] = seen[s] /\ met[s] \subseteq met'[s]
      BY <1>2, <1>3, <1>6, <2>2
    <3>2. pc[s] = "counted" /\ ~IsAdmin(op'[s].as) => UserIds' \subseteq met'[s]
      BY <1>2, <3>1 DEF MeetInv, Fresh, IsAdmin
    <3>3. \A x \in Request : Rotated(x)' => Rotated(x) /\ op'[x] = op[x]
      BY <1>3 DEF Rotated
    <3>4. StripsAdmin(s)' = StripsAdmin(s) /\ OtherAdmins(s)' = OtherAdmins(s)
      BY <1>2, <3>1 DEF StripsAdmin, Merged, OtherAdmins, ActiveAdmins
    <3>5. pc[s] = "rotating" =>
            \A x \in Request : Rotated(x)' /\ op'[x].on = op'[s].on => x \in met'[s]
      BY <3>1, <3>3 DEF MeetInv, Fresh
    <3>6. MetPatch(s) => MetPatch(s)'
      BY <1>7, <3>1 DEF MetPatch
    <3>7. MetPatchOf(s, op[s].on) => MetPatchOf(s, op[s].on)'
      BY <1>7, <3>1 DEF MetPatchOf
    <3>8. Fresh(s)
      BY DEF MeetInv
    <3>9. pc[s] \in {"read", "checked"} => MetPatchOf(s, op[s].on)' \/ seen[s] \in users'
      BY <1>2, <3>7, <3>8 DEF Fresh
    <3>10. pc[s] = "checked" => \/ MetPatch(s)'
                                \/ seen[s] \in users' /\ (StripsAdmin(s)' => OtherAdmins(s)' # {})
      BY <1>2, <3>4, <3>6, <3>8 DEF Fresh
    <3> QED BY <3>1, <3>2, <3>5, <3>9, <3>10 DEF Fresh, IsAdmin
  <2> QED BY <2>1, <2>2
<1>10. \A id \in UserIds : id \in Request /\ id # r
  BY <1>2, RowOwner DEF MeetInv, FreeInv, RowsTyped, UserRows, UserIds
<1>11. BootIds'
  BY <1>2, <1>3, <1>6, <1>10 DEF MeetInv, BootIds, IsAdmin
<1>12. RotationsOverlap'
  BY <1>3, <1>6 DEF MeetInv, RotationsOverlap
<1>13. SuspendedSevered'
  <2> SUFFICES ASSUME NEW u \in users, u.status = "suspended"
               PROVE  SuspensionUnfinished(u.id)' \/ Severed(u.id)'
    BY <1>2 DEF SuspendedSevered
  <2>1. CASE SuspensionUnfinished(u.id)
    <3>1. PICK s \in Request : /\ op[s].kind = "patch" /\ op[s].on = u.id
                               /\ pc[s] \in {"updated", "error"} /\ seen[s].id = u.id
                               /\ Merged(s).status = "suspended"
      BY <2>1 DEF SuspensionUnfinished
    <3>2. op'[s] = op[s] /\ pc'[s] = pc[s] /\ seen'[s] = seen[s]
      BY <1>2, <1>3, <3>1
    <3>3. Merged(s)' = Merged(s)
      BY <3>2 DEF Merged
    <3> QED BY <3>1, <3>2, <3>3 DEF SuspensionUnfinished
  <2>2. CASE Severed(u.id)
    <3>1. \A t \in tokens : t.id \in Request
      BY DEF MeetInv, FreeInv, RowsTyped
    <3>2. \A c \in Request : pc'[c] \in {"rotating", "issuing"} => pc'[c] = pc[c]
      BY <1>3
    <3>3. \A c \in Request : MetPatchOf(c, u.id) => MetPatchOf(c, u.id)'
      BY <1>6, <1>7 DEF MetPatchOf
    <3>4. \A t \in tokens' : t.user = u.id => MetPatchOf(t.id, u.id)'
      BY <1>2, <2>2, <3>1, <3>3 DEF Severed
    <3>5. \A c \in Request : pc'[c] \in {"rotating", "issuing"} /\ seen'[c].id = u.id =>
            MetPatchOf(c, u.id)'
      BY <1>2, <2>2, <3>2, <3>3 DEF Severed
    <3> QED BY <3>4, <3>5 DEF Severed
  <2> QED BY <2>1, <2>2 DEF MeetInv, SuspendedSevered
<1> QED BY <1>6, <1>9, <1>11, <1>12, <1>13 DEF MeetInv

LEMMA RegisterReadsMeet ==
  ASSUME MeetInv, FreeInv', NEW r \in Request, CountUsers(r) \/ EmailTaken(r) PROVE MeetInv'
<1>1. CASE EmailTaken(r) \/ (CountUsers(r) /\ ~MayRegister(r))
  <2>1. pc[r] \in {"received", "counted"} /\ Goto(r, "error")
        /\ UNCHANGED <<op, seen, users, tokens, jwts, met>>
    BY <1>1 DEF EmailTaken, CountUsers, Refuse, Step
  <2> QED BY <2>1, RefuseMeet DEF Done
<1>2. CASE CountUsers(r) /\ MayRegister(r)
  <2>1. /\ pc[r] = "received" /\ Goto(r, "counted") /\ "counted" \in Stages \ {"idle"}
        /\ UNCHANGED <<op, seen, users, tokens, jwts, met>>
    BY <1>2 DEF CountUsers, Step, Stages
  <2>2. pc'[r] = "counted"
    BY <2>1 DEF MeetInv, FreeInv, CallsTyped, Goto
  <2>3. ~IsAdmin(op'[r].as) => UserIds' \subseteq met'[r]
    BY <1>2, <2>1 DEF MayRegister, UserIds, IsAdmin
  <2>4. Fresh(r)'
    BY <2>2, <2>3 DEF Fresh, IsAdmin
  <2> QED BY <2>1, <2>4, QuietMeet DEF Done
<1> QED BY <1>1, <1>2

LEMMA LoginMeets ==
  ASSUME MeetInv, FreeInv', NEW r \in Request, ReadLogin(r) PROVE MeetInv'
<1>1. PICK u \in users : u.status = "active" /\ seen' = [seen EXCEPT ![r] = u]
  BY DEF ReadLogin
<1>2. /\ pc[r] = "received" /\ Goto(r, "issuing") /\ "issuing" \in Stages \ {"idle"}
      /\ op[r].kind = "login" /\ UNCHANGED <<op, users, tokens, jwts, met>>
  BY DEF ReadLogin, Stages
<1>3. /\ pc'[r] = "issuing" /\ seen'[r] = u
      /\ \A s \in Request : s # r => seen'[s] = seen[s]
  BY <1>1, <1>2 DEF MeetInv, FreeInv, CallsTyped, Goto
<1>4. Fresh(r)'
  BY <1>3 DEF Fresh
<1> QED BY <1>1, <1>2, <1>3, <1>4, QuietMeet DEF Done

LEMMA TokenReadMeets ==
  ASSUME MeetInv, FreeInv', NEW r \in Request, ReadToken(r) PROVE MeetInv'
<1>1. PICK t \in tokens : t.id = op[r].on /\ ~t.revoked
  BY DEF ReadToken
<1> DEFINE u == User(Token(r).user)
<1>2. u \in users
  <2>1. Token(r) \in tokens
    BY <1>1 DEF Token
  <2> QED BY <2>1, UserFound DEF MeetInv, FreeInv, RowsTyped
<1>3. u.status = "active" /\ seen' = [seen EXCEPT ![r] = u]
  BY DEF ReadToken
<1> HIDE DEF u
<1>4. /\ pc[r] = "received" /\ Goto(r, "rotating") /\ "rotating" \in Stages \ {"idle"}
      /\ UNCHANGED <<op, users, tokens, jwts, met>>
  BY DEF ReadToken, Stages
<1>5. /\ pc'[r] = "rotating" /\ seen'[r] = u
      /\ \A s \in Request : s # r => pc'[s] = pc[s] /\ seen'[s] = seen[s]
  BY <1>3, <1>4 DEF MeetInv, FreeInv, CallsTyped, Goto
<1>6. \A s \in Request : ~(Rotated(s)' /\ op'[s].on = op'[r].on)
  <2>1. ~Spent(op[r].on)
    BY <1>1 DEF Spent
  <2> QED BY <1>4, <1>5, <2>1 DEF Rotated, MeetInv, FreeInv, SpentStay
<1>7. Fresh(r)'
  BY <1>5, <1>6 DEF Fresh
<1> QED BY <1>2, <1>3, <1>4, <1>5, <1>7, QuietMeet DEF Done

LEMMA RowReadMeets ==
  ASSUME MeetInv, FreeInv', NEW r \in Request, ReadRow(r) PROVE MeetInv'
<1>1. /\ pc[r] = "received" /\ Goto(r, "read") /\ "read" \in Stages \ {"idle"}
      /\ op[r].kind = "patch" /\ seen' = [seen EXCEPT ![r] = User(op[r].on)]
      /\ UNCHANGED <<op, users, tokens, jwts, met>>
  BY DEF ReadRow, Step, Stages
<1>2. User(op[r].on) \in users
  BY <1>1, UserFound DEF MeetInv, FreeInv, CallsTyped, OpShape
<1>3. /\ pc'[r] = "read" /\ seen'[r] = User(op[r].on)
      /\ \A s \in Request : s # r => seen'[s] = seen[s]
  BY <1>1 DEF MeetInv, FreeInv, CallsTyped, Goto
<1>4. Fresh(r)'
  BY <1>1, <1>2, <1>3 DEF Fresh
<1> QED BY <1>1, <1>3, <1>4, QuietMeet DEF Done

LEMMA AdminsCountedMeets ==
  ASSUME MeetInv, FreeInv', NEW r \in Request, CountAdmins(r) PROVE MeetInv'
<1>1. pc[r] = "read" /\ ~Done(r) /\ UNCHANGED <<op, seen, users, tokens, jwts, met>>
  BY DEF CountAdmins, Done
<1>2. CASE StripsAdmin(r) /\ OtherAdmins(r) = {}
  BY <1>1, <1>2, RefuseMeet DEF CountAdmins, Step
<1>3. CASE ~(StripsAdmin(r) /\ OtherAdmins(r) = {})
  <2>1. Goto(r, "checked") /\ "checked" \in Stages \ {"idle"}
    BY <1>3 DEF CountAdmins, Step, Stages
  <2>2. pc'[r] = "checked"
    BY <1>1, <2>1 DEF MeetInv, FreeInv, CallsTyped, Goto
  <2>3. MetPatchOf(r, op[r].on) \/ seen[r] \in users
    BY <1>1 DEF MeetInv, Fresh
  <2>4. /\ MetPatchOf(r, op[r].on) => MetPatch(r)
        /\ MetPatch(r)' = MetPatch(r)
        /\ MetPatchOf(r, op[r].on)' = MetPatchOf(r, op[r].on)
    BY <1>1 DEF MetPatchOf, MetPatch
  <2>5. StripsAdmin(r)' => OtherAdmins(r)' # {}
    BY <1>1, <1>3 DEF StripsAdmin, Merged, Patched, OtherAdmins, ActiveAdmins
  <2>6. MetPatchOf(r, op[r].on)' => \E x \in met'[r] : op'[x].kind = "patch" /\ op'[x].on = op'[r].on
    BY <1>1 DEF MetPatchOf
  <2>7. Fresh(r)'
    BY <1>1, <2>2, <2>3, <2>4, <2>5, <2>6 DEF Fresh, MetPatchOf
  <2> QED BY <1>1, <2>1, <2>7, QuietMeet
<1> QED BY <1>2, <1>3

LEMMA OthersMeet ==
  ASSUME MeetInv, FreeInv', NEW r \in Request,
         LoginRefused(r) \/ TokenRefused(r) \/ UpdateClashes(r) \/ Me(r) \/ Abandon(r)
  PROVE  MeetInv'
<1>1. CASE LoginRefused(r) \/ TokenRefused(r) \/ UpdateClashes(r) \/ Abandon(r)
  <2>1. ~Done(r) /\ Goto(r, "error") /\ UNCHANGED <<op, seen, users, tokens, jwts, met>>
    BY <1>1 DEF LoginRefused, TokenRefused, UpdateClashes, Abandon, Refuse, Step, InFlight, Done
  <2> QED BY <2>1, RefuseMeet
<1>2. CASE Me(r)
  <2>1. /\ pc[r] = "received" /\ Goto(r, "ok") /\ "ok" \in Stages \ {"idle"} /\ op[r].kind = "me"
        /\ UNCHANGED <<op, seen, users, tokens, jwts, met>>
    BY <1>2 DEF Me, Step, Stages
  <2>2. Fresh(r)'
    BY <2>1 DEF MeetInv, FreeInv, CallsTyped, Goto, Fresh
  <2> QED BY <2>1, <2>2, QuietMeet DEF Done
<1> QED BY <1>1, <1>2

LEMMA InsertUserMeets == ASSUME MeetInv, FreeInv', NEW r \in Request, InsertUser(r) PROVE MeetInv'
<1> DEFINE u == [id |-> r, email |-> op[r].email, role |-> op[r].role, status |-> "active"]
<1>1. /\ pc[r] = "counted" /\ Goto(r, "issuing") /\ users' = users \cup {u}
      /\ seen' = [seen EXCEPT ![r] = u] /\ UNCHANGED <<op, tokens, jwts, met>>
  BY DEF InsertUser, Step
<1>2. u.id = r /\ u.status = "active"
  OBVIOUS
<1> HIDE DEF u
<1>3. ~Done(r) /\ "issuing" \in Stages \ {"idle"} /\ op[r].kind = "register"
  BY <1>1 DEF MeetInv, FreeInv, CallsTyped, KindOf, Done, Stages
<1>4. /\ pc'[r] = "issuing" /\ seen'[r] = u
      /\ \A s \in Request : s # r => seen'[s] = seen[s]
  BY <1>1 DEF MeetInv, FreeInv, CallsTyped, Goto
<1>5. UserIds' = UserIds \cup {r}
  BY <1>1, <1>2 DEF UserIds
<1>6. Fresh(r)'
  BY <1>4 DEF Fresh
<1>7. MetFits' /\ \A s \in Request : s # r => pc'[s] = pc[s] /\ Fresh(s)'
  BY <1>1, <1>3, <1>4, <1>5, OthersFresh
<1>8. RotationsOverlap'
  BY <1>1, <1>3, <1>7 DEF MeetInv, RotationsOverlap
<1>9. BootIds'
  <2>1. UserIds \subseteq Request
    BY DEF MeetInv, FreeInv, RowsTyped, UserRows, UserIds
  <2>2. ~IsAdmin(op[r].as) => UserIds \subseteq met[r] /\ \A i \in UserIds : r \in met[i]
    BY <1>1, <2>1 DEF MeetInv, Fresh, MetFits
  <2> QED BY <1>1, <1>5, <2>2 DEF MeetInv, BootIds, IsAdmin
<1>10. SuspendedSevered'
  BY <1>1, <1>2, <1>3, <1>4, SeveredStays
<1> QED BY <1>6, <1>7, <1>8, <1>9, <1>10 DEF MeetInv

LEMMA RevokeMeets == ASSUME MeetInv, FreeInv', NEW r \in Request, Revoke(r) PROVE MeetInv'
<1>1. pc[r] = "rotating" /\ Goto(r, "issuing") /\ UNCHANGED <<op, seen, users, jwts, met>>
  BY DEF Revoke, Step
<1>2. ~Done(r) /\ "issuing" \in Stages \ {"idle"} /\ UserIds' = UserIds
  BY <1>1 DEF Done, Stages, UserIds
<1>3. /\ MetFits' /\ pc'[r] = "issuing"
      /\ \A s \in Request : s # r => pc'[s] = pc[s] /\ Fresh(s)'
  BY <1>1, <1>2, OthersFresh
<1>4. Fresh(r)'
  BY <1>3 DEF Fresh
<1>5. RotationsOverlap'
  <2>1. ASSUME NEW s \in Request, s # r, Rotated(s)', op[s].on = op[r].on
        PROVE  s \in met[r] /\ r \in met[s]
    <3>1. Rotated(s)
      BY <1>1, <1>3, <2>1 DEF Rotated
    <3>2. s \in met[r]
      BY <1>1, <2>1, <3>1 DEF MeetInv, Fresh
    <3> QED BY <3>2 DEF MeetInv, MetFits
  <2> QED BY <1>1, <1>3, <2>1 DEF MeetInv, RotationsOverlap, Rotated
<1>6. BootIds'
  BY <1>1, <1>2 DEF MeetInv, BootIds, IsAdmin
<1>7. SuspendedSevered'
  <2>1. \A t \in tokens' : \E o \in tokens : o.id = t.id /\ o.user = t.user
    BY TokensRevoked DEF MeetInv
  <2> QED BY <1>1, <1>2, <2>1, SeveredStays
<1> QED BY <1>3, <1>4, <1>5, <1>6, <1>7 DEF MeetInv

LEMMA IssueMeets == ASSUME MeetInv, FreeInv', NEW r \in Request, Issue(r) PROVE MeetInv'
<1>1. /\ pc[r] = "issuing" /\ Goto(r, "ok") /\ UNCHANGED <<op, seen, users, met>>
      /\ tokens' = tokens \cup {[id |-> r, user |-> seen[r].id, revoked |-> FALSE]}
  BY DEF Issue, Step
<1>2. ~Done(r) /\ "ok" \in Stages \ {"idle"} /\ UserIds' = UserIds
  BY <1>1 DEF Done, Stages, UserIds
<1>3. /\ MetFits' /\ pc'[r] = "ok"
      /\ \A s \in Request : s # r => pc'[s] = pc[s] /\ Fresh(s)'
  BY <1>1, <1>2, OthersFresh
<1>4. Fresh(r)'
  BY <1>3 DEF Fresh
<1>5. RotationsOverlap'
  BY <1>1, <1>3 DEF MeetInv, RotationsOverlap
<1>6. BootIds'
  BY <1>1, <1>2 DEF MeetInv, BootIds, IsAdmin
<1>7. SuspendedSevered'
  BY <1>1, <1>2, SeveredStays
<1> QED BY <1>3, <1>4, <1>5, <1>6, <1>7 DEF MeetInv

LEMMA UpdateRowMeets == ASSUME MeetInv, FreeInv', NEW r \in Request, UpdateRow(r) PROVE MeetInv'
<1>1. /\ pc[r] = "checked"
      /\ Goto(r, IF Merged(r).status = "suspended" THEN "updated" ELSE "ok")
      /\ UNCHANGED <<op, seen, tokens, jwts, met>> /\ UserIds' = UserIds
  BY RowsUpdated DEF UpdateRow, Step, MeetInv
<1> DEFINE to == IF Merged(r).status = "suspended" THEN "updated" ELSE "ok"
<1>2. op[r].kind = "patch" /\ ~Done(r) /\ to \in Stages \ {"idle"} /\ to \in {"updated", "ok"}
  BY <1>1 DEF MeetInv, FreeInv, CallsTyped, KindOf, Done, Stages
<1>3. /\ MetFits' /\ pc'[r] = to
      /\ \A s \in Request : s # r => pc'[s] = pc[s] /\ Fresh(s)'
  BY <1>1, <1>2, OthersFresh
<1>4. Fresh(r)'
  BY <1>2, <1>3 DEF Fresh
<1>5. RotationsOverlap'
  BY <1>1, <1>2, <1>3 DEF MeetInv, RotationsOverlap
<1>6. BootIds'
  BY <1>1 DEF MeetInv, BootIds, IsAdmin
<1>7. SuspendedSevered'
  <2>1. ASSUME NEW u \in users', u.status = "suspended"
        PROVE  \/ SuspensionUnfinished(u.id)'
               \/ \E o \in users : o.id = u.id /\ o.status = "suspended"
    <3>1. CASE u = Merged(r)
      <4>1. Merged(r)' = Merged(r)
        BY <1>1 DEF Merged
      <4>2. Merged(r).id = op[r].on /\ seen[r].id = op[r].on
        BY <1>1, MergedFits DEF MeetInv
      <4>3. pc'[r] = "updated"
        BY <1>3, <2>1, <3>1
      <4> QED BY <1>1, <1>2, <2>1, <3>1, <4>1, <4>2, <4>3 DEF SuspensionUnfinished
    <3>2. CASE u \in users
      BY <2>1, <3>2
    <3> QED BY <3>1, <3>2, RowsUpdated DEF MeetInv
  <2> HIDE DEF to
  <2> QED BY <1>1, <1>2, <2>1, SeveredStays DEF to
<1> QED BY <1>3, <1>4, <1>5, <1>6, <1>7 DEF MeetInv

LEMMA DeleteTokensMeets ==
  ASSUME MeetInv, FreeInv', NEW r \in Request, DeleteTokens(r) PROVE MeetInv'
<1>1. /\ pc[r] = "updated" /\ Goto(r, "ok") /\ UNCHANGED <<op, seen, users, jwts, met>>
      /\ tokens' = {t \in tokens : t.user # op[r].on}
  BY DEF DeleteTokens, Step
<1>2. /\ op[r].kind = "patch" /\ ~Done(r) /\ "ok" \in Stages \ {"idle"} /\ UserIds' = UserIds
  BY <1>1 DEF MeetInv, FreeInv, CallsTyped, KindOf, Done, Stages, UserIds
<1>3. /\ MetFits' /\ pc'[r] = "ok"
      /\ \A s \in Request : s # r => pc'[s] = pc[s] /\ Fresh(s)'
  BY <1>1, <1>2, OthersFresh
<1>4. Fresh(r)'
  BY <1>3 DEF Fresh
<1>5. RotationsOverlap'
  BY <1>1, <1>2, <1>3 DEF MeetInv, RotationsOverlap
<1>6. BootIds'
  BY <1>1, <1>2 DEF MeetInv, BootIds, IsAdmin
<1>7. SuspendedSevered'
  <2> SUFFICES ASSUME NEW u \in users, u.status = "suspended"
               PROVE  SuspensionUnfinished(u.id)' \/ Severed(u.id)'
    BY <1>1 DEF SuspendedSevered
  <2>1. \A c : MetPatchOf(c, u.id)' = MetPatchOf(c, u.id)
    BY <1>1 DEF MetPatchOf
  <2>2. \A c \in Request : pc'[c] \in {"rotating", "issuing"} => pc[c] = pc'[c] /\ c # r
    BY <1>3
  <2>3. CASE u.id = op[r].on
    <3>1. \A c \in Request : pc'[c] \in {"rotating", "issuing"} => MetPatchOf(c, u.id)
      BY <1>2, <2>2, <2>3 DEF MeetInv, MetFits, Done, MetPatchOf
    <3>2. \A t \in tokens' : t.user # u.id
      BY <1>1, <2>3
    <3> QED BY <2>1, <3>1, <3>2 DEF Severed
  <2>4. CASE u.id # op[r].on /\ SuspensionUnfinished(u.id)
    <3>1. PICK s \in Request : /\ op[s].kind = "patch" /\ op[s].on = u.id
                               /\ pc[s] \in {"updated", "error"} /\ seen[s].id = u.id
                               /\ Merged(s).status = "suspended"
      BY <2>4 DEF SuspensionUnfinished
    <3>2. s # r /\ pc'[s] = pc[s]
      BY <1>3, <2>4, <3>1
    <3>3. Merged(s)' = Merged(s)
      BY <1>1 DEF Merged
    <3> QED BY <1>1, <3>1, <3>2, <3>3 DEF SuspensionUnfinished
  <2>5. CASE Severed(u.id)
    BY <1>1, <2>1, <2>2, <2>5 DEF Severed
  <2> QED BY <2>3, <2>4, <2>5 DEF MeetInv, SuspendedSevered
<1> QED BY <1>3, <1>4, <1>5, <1>6, <1>7 DEF MeetInv

-----------------------------------------------------------------------------
LEMMA InitMeets == Init => MeetInv
<1> SUFFICES ASSUME Init PROVE MeetInv
  OBVIOUS
<1>1. FreeInv /\ UserIds = {}
  BY InitFree DEF Init, UserIds
<1>2. MetFits
  BY DEF Init, MetFits, Done
<1> QED BY <1>1, <1>2 DEF Init, MeetInv, BootIds, RotationsOverlap, SuspendedSevered, Fresh

LEMMA StepMeets == ASSUME MeetInv, [Next]_vars PROVE MeetInv'
<1>1. FreeInv'
  BY StepFree DEF MeetInv
<1>2. CASE UNCHANGED <<pc, op, seen, users, tokens, met>>
  <2>1. MetFits' /\ BootIds' /\ RotationsOverlap'
    BY <1>2 DEF MeetInv, MetFits, Done, BootIds, UserIds, IsAdmin, RotationsOverlap
  <2>2. \A r : /\ MetPatch(r)' = MetPatch(r) /\ Merged(r)' = Merged(r)
               /\ \A id : MetPatchOf(r, id)' = MetPatchOf(r, id)
    BY <1>2 DEF MetPatch, MetPatchOf, Merged
  <2>3. SuspendedSevered'
    BY <1>2, <2>2 DEF MeetInv, SuspendedSevered, SuspensionUnfinished, Severed
  <2>4. ASSUME NEW r \in Request PROVE Fresh(r)'
    <3>1. StripsAdmin(r)' = StripsAdmin(r) /\ OtherAdmins(r)' = OtherAdmins(r) /\ UserIds' = UserIds
      BY <1>2, <2>2 DEF StripsAdmin, OtherAdmins, ActiveAdmins, UserIds
    <3>2. Fresh(r)
      BY DEF MeetInv
    <3> QED BY <1>2, <3>1, <3>2 DEF Fresh, Rotated, IsAdmin, MetPatch, MetPatchOf
  <2> QED BY <1>1, <2>1, <2>3, <2>4 DEF MeetInv
<1>3. CASE Next
  <2>1. CASE ExpireJwt
    BY <1>2, <2>1 DEF ExpireJwt
  <2>2. CASE ~ExpireJwt
    BY <1>1, <1>3, <2>2, ReceiveMeets, RegisterReadsMeet, InsertUserMeets, LoginMeets,
       TokenReadMeets, RevokeMeets, IssueMeets, RowReadMeets, AdminsCountedMeets, UpdateRowMeets,
       DeleteTokensMeets, OthersMeet DEF Next
  <2> QED BY <2>1, <2>2
<1> QED BY <1>2, <1>3 DEF vars

LEMMA MeetHolds == Spec => []MeetInv
<1>1. MeetInv /\ [Next]_vars => MeetInv'
  BY StepMeets
<1> QED BY <1>1, InitMeets, PTL DEF Spec

(* Which steps write the table users.                                       *)
LEMMA UsersWritten ==
  ASSUME Next PROVE users' = users \/ \E r \in Request : InsertUser(r) \/ UpdateRow(r)
BY DEF Next, Receive, CountUsers, EmailTaken, ReadLogin, LoginRefused, ReadToken, TokenRefused,
       Revoke, Issue, ReadRow, CountAdmins, UpdateClashes, DeleteTokens, Me, Abandon, ExpireJwt,
       Refuse

(* A row that changes is one a PATCH writes.                                *)
LEMMA ChangedByUpdate ==
  ASSUME MeetInv, Next, NEW u \in users, NEW v \in users', u.id = v.id, u # v
  PROVE  \E r \in Request : /\ UpdateRow(r) /\ pc[r] = "checked" /\ pc'[r] # "checked"
                            /\ op[r].on = u.id /\ v = Merged(r)
<1>1. v \notin users
  BY DEF MeetInv, FreeInv, RowsTyped
<1>2. ~\E r \in Request : InsertUser(r)
  <2> SUFFICES ASSUME NEW r \in Request, InsertUser(r) PROVE FALSE
    OBVIOUS
  <2>1. v.id = r /\ pc[r] = "counted"
    BY <1>1 DEF InsertUser, Step
  <2> QED BY <2>1 DEF MeetInv, FreeInv, RowsTyped
<1>3. PICK r \in Request : UpdateRow(r)
  BY <1>1, <1>2, UsersWritten
<1>4. pc[r] = "checked" /\ v = Merged(r)
  BY <1>1, <1>3, RowsUpdated DEF MeetInv
<1>5. Merged(r).id = op[r].on
  BY <1>4, MergedFits DEF MeetInv
<1>6. pc'[r] # "checked"
  BY <1>3 DEF UpdateRow, Step, Goto, MeetInv, FreeInv, CallsTyped
<1> QED BY <1>3, <1>4, <1>5, <1>6

LEMMA ChangeAsked ==
  ASSUME MeetInv, Next, NEW u \in users, NEW v \in users', NEW f \in {"email", "role", "status"},
         u.id = v.id, u[f] # v[f]
  PROVE  \E r \in Request : /\ pc[r] = "checked" /\ pc'[r] # "checked" /\ op[r].on = u.id
                            /\ op[r][f] = v[f] \/ MetPatchOf(r, u.id)
<1>1. PICK r \in Request : /\ pc[r] = "checked" /\ pc'[r] # "checked"
                           /\ op[r].on = u.id /\ v = Merged(r)
  BY ChangedByUpdate
<1>2. CASE MetPatchOf(r, u.id)
  BY <1>1, <1>2
<1>3. CASE ~MetPatchOf(r, u.id)
  <2>1. seen[r] \in users /\ seen[r].id = u.id
    BY <1>1, <1>3, MergedFits DEF MeetInv, Fresh
  <2>2. seen[r] = u /\ seen[r] \in UserRows
    BY <2>1 DEF MeetInv, FreeInv, RowsTyped
  <2>3. v[f] = Patched(op[r][f], u[f])
    BY <1>1, <2>2 DEF Merged, UserRows
  <2>4. op[r][f] = v[f]
    BY <2>3 DEF Patched
  <2> QED BY <1>1, <2>4
<1> QED BY <1>2, <1>3

LEMMA LastAdminLost ==
  ASSUME MeetInv, Next, NEW a \in ActiveAdmins, ActiveAdmins' = {}
  PROVE  \E r \in Request : pc[r] = "checked" /\ pc'[r] # "checked" /\ MetPatch(r)
<1>1. CASE users \subseteq users'
  BY <1>1 DEF ActiveAdmins
<1>2. CASE ~(users \subseteq users')
  <2>1. ~\E r \in Request : InsertUser(r)
    BY <1>2 DEF InsertUser
  <2>2. PICK r \in Request : UpdateRow(r)
    BY <1>2, <2>1, UsersWritten
  <2>3. /\ pc[r] = "checked" /\ Merged(r) \in users'
        /\ \A u \in users : u.id # op[r].on => u \in users'
    BY <2>2, RowsUpdated DEF MeetInv
  <2>4. pc'[r] # "checked"
    BY <2>2 DEF UpdateRow, Step, Goto, MeetInv, FreeInv, CallsTyped
  <2>5. OtherAdmins(r) = {}
    BY <2>3 DEF OtherAdmins, ActiveAdmins
  <2>6. a \in users /\ a.id = op[r].on /\ a.role = "admin" /\ a.status = "active"
    BY <2>5 DEF OtherAdmins, ActiveAdmins
  <2>7. ASSUME ~MetPatch(r) PROVE FALSE
    <3>1. seen[r] \in users /\ ~StripsAdmin(r)
      BY <2>3, <2>5, <2>7 DEF MeetInv, Fresh
    <3>2. seen[r].id = op[r].on /\ Merged(r) \in UserRows
      BY <2>3, MergedFits DEF MeetInv
    <3>3. seen[r] = a
      BY <2>6, <3>1, <3>2 DEF MeetInv, FreeInv, RowsTyped
    <3>4. Merged(r).role = "admin" /\ Merged(r).status = "active"
      BY <2>6, <3>1, <3>2, <3>3 DEF StripsAdmin, UserRows, Statuses
    <3> QED BY <2>3, <3>4 DEF ActiveAdmins
  <2> QED BY <2>3, <2>4, <2>7
<1> QED BY <1>1, <1>2

-----------------------------------------------------------------------------
(* Rows, tokens, claims and calls keep their shapes, however calls overlap. *)
THEOREM AccountsTyped == Spec => []TypeOK
<1>1. MeetInv => TypeOK
  BY DEF MeetInv, MetFits, FreeInv, CallsTyped, RowsTyped, TypeOK
<1> QED BY <1>1, MeetHolds, PTL

(* auth.rs, register: of two accounts made without an admin, each was made  *)
(* while the other's call was under way.                                    *)
THEOREM BootstrapRace == Spec => []BootstrapsOverlap
<1>1. ASSUME MeetInv PROVE BootstrapsOverlap
  <2> SUFFICES ASSUME NEW u \in Uninvited, NEW v \in Uninvited, u # v PROVE v.id \in met[u.id]
    BY DEF BootstrapsOverlap
  <2>1. u \in users /\ v \in users /\ ~IsAdmin(op[u.id].as) /\ ~IsAdmin(op[v.id].as)
    BY DEF Uninvited
  <2>2. u.id # v.id
    BY <1>1, <2>1 DEF MeetInv, FreeInv, RowsTyped
  <2> QED BY <1>1, <2>1, <2>2 DEF MeetInv, BootIds, UserIds
<1> QED BY <1>1, MeetHolds, PTL

(* auth.rs, refresh: a token that bought two pairs bought them in calls     *)
(* that overlapped, also when a third died between its two statements.      *)
THEOREM RotationRace == Spec => []RotationsOverlap
<1>1. MeetInv => RotationsOverlap
  BY DEF MeetInv
<1> QED BY <1>1, MeetHolds, PTL

(* users.rs: what a suspension leaves a user of refresh tokens.             *)
THEOREM SuspensionRace == Spec => []SuspensionEndsSessions
<1>1. MeetInv => SuspensionEndsSessions
  BY DEF MeetInv, SuspendedSevered, Severed, SuspensionEndsSessions
<1> QED BY <1>1, MeetHolds, PTL

(* users.rs, the merge: no column changes unasked but in overlapping calls. *)
THEOREM PatchRace == Spec => ChangedAsAsked
<1>1. MeetInv /\ [Next]_vars =>
        [\A u \in users, v \in users', f \in {"email", "role", "status"} :
           u.id = v.id /\ u[f] /= v[f] =>
             \E r \in Request :
               /\ pc[r] = "checked" /\ pc'[r] /= "checked" /\ op[r].on = u.id
               /\ op[r][f] = v[f] \/ MetPatchOf(r, u.id)]_vars
  BY ChangeAsked
<1> QED BY <1>1, MeetHolds, PTL DEF Spec, ChangedAsAsked

(* users.rs, "don't strand the system": the check before the UPDATE fails   *)
(* to keep the last active admin only where another PATCH came between.     *)
THEOREM LastAdminRace == Spec => LastAdminOverlaps
<1>1. MeetInv /\ [Next]_vars =>
        [ActiveAdmins /= {} /\ ActiveAdmins' = {} =>
           \E r \in Request : pc[r] = "checked" /\ pc'[r] /= "checked" /\ MetPatch(r)]_vars
  BY LastAdminLost
<1> QED BY <1>1, MeetHolds, PTL DEF Spec, LastAdminOverlaps
==============================================================================
