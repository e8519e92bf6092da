------------------------------- MODULE Sessions -------------------------------
(***************************************************************************)
(* Accounts and sessions: register, login and refresh (auth.rs), the admin *)
(* PATCH /users/:id (users.rs) and the AuthenticatedUser extractor.  None  *)
(* of these handlers opens a transaction: each SQL statement commits on    *)
(* its own, so a call is a row of statements other calls may come between, *)
(* and a call that dies half-way leaves what it has done.                  *)
(*                                                                         *)
(* A Request is one HTTP call; it also names the user a register creates   *)
(* and the refresh token a call issues, both fresh.  Passwords and token   *)
(* plaintexts are represented by whether they match.                       *)
(***************************************************************************)
EXTENDS Naturals, FiniteSets

CONSTANTS
  Request,    \* HTTP calls
  Email,      \* e-mail addresses
  Kind,       \* which endpoints the calls use, a subset of Endpoints
  Overlap,    \* how many calls may be in flight at a time
  None        \* an absent header, field or row

Endpoints == {"register", "login", "refresh", "patch", "me"}
Roles == {"supervisor", "admin"}          \* no check here tells investigator from supervisor
Statuses == {"active", "suspended"}

ASSUME KindAssumption == Kind \subseteq Endpoints
ASSUME OverlapAssumption == Overlap \in Nat \ {0}
ASSUME NoneAssumption == None \notin Request \cup Email \cup Roles \cup Statuses

VARIABLES
  pc,        \* where each call stands
  op,        \* what it asks for
  seen,      \* the user row it has read
  users,     \* table users
  tokens,    \* table refresh_tokens
  jwts,      \* access tokens handed out and not expired: claims sub and role
  met        \* history, read by no action: the calls each call was in flight with

vars == <<pc, op, seen, users, tokens, jwts, met>>

-----------------------------------------------------------------------------
Claims == [user : Request, role : Roles]

(* What a call carries: who it is from, what it names, what it would change. *)
Ops ==
  LET Call(kinds, as, on, email, role, status) ==
        [kind : kinds, as : as, on : on, email : email, role : role, status : status]
  IN {o \in Call({"register"}, jwts \cup {None}, {None}, Email, Roles, {None})
              \cup Call({"login"}, {None}, {None}, Email, {None}, {None})
              \cup Call({"refresh"}, {None}, {t.id : t \in tokens}, {None}, {None}, {None})
              \cup Call({"patch"}, jwts, {u.id : u \in users}, Email \cup {None},
                       Roles \cup {None}, Statuses \cup {None})
              \cup Call({"me"}, jwts, {None}, {None}, {None}, {None}) :
        o.kind \in Kind}

NoOp == [kind |-> "none", as |-> None, on |-> None, email |-> None, role |-> None,
         status |-> None]
NoUser == [id |-> None]

User(id) == CHOOSE u \in users : u.id = id
InFlight == {r \in Request : pc[r] \notin {"idle", "ok", "error"}}
ActiveAdmins == {u \in users : u.role = "admin" /\ u.status = "active"}

Goto(r, to) == pc' = [pc EXCEPT ![r] = to]
Step(r, from, to) == pc[r] = from /\ Goto(r, to)
Refuse(r, from) == Step(r, from, "error") /\ UNCHANGED <<op, seen, users, tokens, jwts, met>>

Init ==
  /\ pc = [r \in Request |-> "idle"]
  /\ op = [r \in Request |-> NoOp]
  /\ seen = [r \in Request |-> NoUser]
  /\ users = {} /\ tokens = {} /\ jwts = {}
  /\ met = [r \in Request |-> {}]

(* The extractor looks at the signature and expiry of the JWT only; the     *)
(* admin gate, the "nothing to update" check and the refusal to change      *)
(* one's own role or status need no database either.                        *)
ForbiddenUngated(o) ==                               \* mutant: the gates forgotten
  /\ o.kind = "patch"
  /\ o.email = None /\ o.role = None /\ o.status = None
Forbidden(o) ==
  /\ o.kind = "patch"
  /\ \/ o.as.role /= "admin"
     \/ o.email = None /\ o.role = None /\ o.status = None
     \/ o.on = o.as.user /\ (o.role /= None \/ o.status /= None)

WithMeeting(r) ==
  [s \in Request |-> IF s = r THEN InFlight
                     ELSE IF s \in InFlight THEN met[s] \cup {r} ELSE met[s]]

Receive(r) ==
  /\ pc[r] = "idle"
  /\ Cardinality(InFlight) < Overlap
  /\ \E o \in Ops :
       /\ op' = [op EXCEPT ![r] = o]
       /\ Goto(r, IF Forbidden(o) THEN "error" ELSE "received")
       /\ met' = IF Forbidden(o) THEN met ELSE WithMeeting(r)
  /\ UNCHANGED <<seen, users, tokens, jwts>>

-----------------------------------------------------------------------------
(* POST /auth/register: count, then (after a bcrypt hash) insert. *)

IsAdmin(claims) == claims /= None /\ claims.role = "admin"
MayRegisterAlways(r) == TRUE                         \* mutant: no caller check
MayRegister(r) == users = {} \/ IsAdmin(op[r].as)

CountUsers(r) ==
  /\ op[r].kind = "register"
  /\ Step(r, "received", IF MayRegister(r) THEN "counted" ELSE "error")
  /\ UNCHANGED <<op, seen, users, tokens, jwts, met>>

InsertUser(r) ==
  LET u == [id |-> r, email |-> op[r].email, role |-> op[r].role, status |-> "active"]
  IN /\ \A v \in users : v.email /= op[r].email
     /\ Step(r, "counted", "issuing")
     /\ users' = users \cup {u}
     /\ seen' = [seen EXCEPT ![r] = u]
     /\ UNCHANGED <<op, tokens, jwts, met>>

EmailTaken(r) == (\E v \in users : v.email = op[r].email) /\ Refuse(r, "counted")

(* POST /auth/login: read the user, check password and status. *)
ReadLoginAnyStatus(r) ==                             \* mutant: status not looked at
  /\ op[r].kind = "login" /\ pc[r] = "received"
  /\ \E u \in users : u.email = op[r].email /\ seen' = [seen EXCEPT ![r] = u]
  /\ Goto(r, "issuing")
  /\ UNCHANGED <<op, users, tokens, jwts, met>>
ReadLogin(r) ==
  /\ op[r].kind = "login" /\ pc[r] = "received"
  /\ \E u \in users :
       /\ u.email = op[r].email /\ u.status = "active"
       /\ seen' = [seen EXCEPT ![r] = u]
  /\ Goto(r, "issuing")
  /\ UNCHANGED <<op, users, tokens, jwts, met>>

LoginRefused(r) == op[r].kind = "login" /\ Refuse(r, "received")

(* POST /auth/refresh: the joined read of token and user ... *)
Token(r) == CHOOSE t \in tokens : t.id = op[r].on
ReadToken(r) ==
  /\ op[r].kind = "refresh" /\ pc[r] = "received"
  /\ \E t \in tokens : t.id = op[r].on /\ ~t.revoked
  /\ User(Token(r).user).status = "active"
  /\ seen' = [seen EXCEPT ![r] = User(Token(r).user)]
  /\ Goto(r, "rotating")
  /\ UNCHANGED <<op, users, tokens, jwts, met>>

(* Unknown, revoked or (at any time) expired token, or a suspended user. *)
TokenRefused(r) == op[r].kind = "refresh" /\ Refuse(r, "received")

(* ... then the unconditional revocation of the row that was read ... *)
RevokeNothing(r) ==                                  \* mutant: used token stays live
  /\ Step(r, "rotating", "issuing")
  /\ UNCHANGED <<op, seen, users, tokens, jwts, met>>
Revoke(r) ==
  /\ Step(r, "rotating", "issuing")
  /\ tokens' = {IF t.id = op[r].on THEN [t EXCEPT !.revoked = TRUE] ELSE t : t \in tokens}
  /\ UNCHANGED <<op, seen, users, jwts, met>>

(* ... and, as for register and login, a fresh pair for the row that was   *)
(* read.                                                                   *)
Issue(r) ==
  /\ Step(r, "issuing", "ok")
  /\ tokens' = tokens \cup {[id |-> r, user |-> seen[r].id, revoked |-> FALSE]}
  /\ jwts' = jwts \cup {[user |-> seen[r].id, role |-> seen[r].role]}
  /\ UNCHANGED <<op, seen, users, met>>

-----------------------------------------------------------------------------
(* PATCH /users/:id: read, merge, count, write all columns, revoke. *)

Patched(field, old) == IF field = None THEN old ELSE field
MergedFromDefaults(r) ==                             \* mutant: an absent field gets its default
  [seen[r] EXCEPT !.email = Patched(op[r].email, @),
                  !.role = Patched(op[r].role, "supervisor"),
                  !.status = Patched(op[r].status, "active")]
Merged(r) ==
  [seen[r] EXCEPT !.email = Patched(op[r].email, @), !.role = Patched(op[r].role, @),
                  !.status = Patched(op[r].status, @)]

StripsAdmin(r) ==
  /\ seen[r].role = "admin" /\ seen[r].status = "active"
  /\ Merged(r).role /= "admin" \/ Merged(r).status = "suspended"

ReadRow(r) ==
  /\ op[r].kind = "patch" /\ Step(r, "received", "read")
  /\ seen' = [seen EXCEPT ![r] = User(op[r].on)]
  /\ UNCHANGED <<op, users, tokens, jwts, met>>

OtherAdminsCountingSelf(r) == ActiveAdmins           \* mutant: id != $1 forgotten
OtherAdmins(r) == {u \in ActiveAdmins : u.id /= op[r].on}
CountAdmins(r) ==
  /\ pc[r] = "read"
  /\ Step(r, "read", IF StripsAdmin(r) /\ OtherAdmins(r) = {} THEN "error" ELSE "checked")
  /\ UNCHANGED <<op, seen, users, tokens, jwts, met>>

UpdateClashes(r) ==
  /\ pc[r] = "checked"
  /\ \E u \in users : u.id /= op[r].on /\ u.email = Merged(r).email
  /\ Refuse(r, "checked")

UpdateRow(r) ==
  /\ pc[r] = "checked"
  /\ \A u \in users : u.email = Merged(r).email => u.id = op[r].on
  /\ Step(r, "checked", IF Merged(r).status = "suspended" THEN "updated" ELSE "ok")
  /\ users' = {IF u.id = op[r].on THEN Merged(r) ELSE u : u \in users}
  /\ UNCHANGED <<op, seen, tokens, jwts, met>>

DeleteRevokedTokens(r) ==                            \* mutant: only the spent ones
  /\ Step(r, "updated", "ok")
  /\ tokens' = {t \in tokens : t.user /= op[r].on \/ ~t.revoked}
  /\ UNCHANGED <<op, seen, users, jwts, met>>
DeleteTokens(r) ==
  /\ Step(r, "updated", "ok")
  /\ tokens' = {t \in tokens : t.user /= op[r].on}
  /\ UNCHANGED <<op, seen, users, jwts, met>>

(* Any other call behind the extractor: GET /users/me answers from the     *)
(* row of the claims' subject.                                             *)
Me(r) ==
  /\ op[r].kind = "me" /\ Step(r, "received", "ok")
  /\ UNCHANGED <<op, seen, users, tokens, jwts, met>>

(* A statement fails, the client leaves or the process dies: the call ends *)
(* where it stands, and what it has written stays.                         *)
Abandon(r) ==
  /\ r \in InFlight
  /\ Goto(r, "error")
  /\ UNCHANGED <<op, seen, users, tokens, jwts, met>>

(* An access token reaches its fifteen minutes, a refresh token its days. *)
ExpireJwt ==
  /\ \E j \in jwts : jwts' = jwts \ {j}
  /\ UNCHANGED <<pc, op, seen, users, tokens, met>>

Next ==
  \/ \E r \in Request :
       \/ Receive(r)
       \/ CountUsers(r) \/ InsertUser(r) \/ EmailTaken(r)
       \/ ReadLogin(r) \/ LoginRefused(r)
       \/ ReadToken(r) \/ TokenRefused(r) \/ Revoke(r) \/ Issue(r)
       \/ ReadRow(r) \/ CountAdmins(r) \/ UpdateClashes(r) \/ UpdateRow(r) \/ DeleteTokens(r)
       \/ Me(r) \/ Abandon(r)
  \/ ExpireJwt

Spec == Init /\ [][Next]_vars

-----------------------------------------------------------------------------
UserRows == [id : Request, email : Email, role : Roles, status : Statuses]
Stages == {"idle", "received", "counted", "issuing", "rotating", "read", "checked",
           "updated", "ok", "error"}

(* Rows, claims and calls have the shapes the tables and structs give them. *)
TypeOK ==
  /\ pc \in [Request -> Stages]
  /\ DOMAIN op = Request
  /\ seen \in [Request -> UserRows \cup {NoUser}]
  /\ users \subseteq UserRows
  /\ tokens \subseteq [id : Request, user : Request, revoked : BOOLEAN]
  /\ jwts \subseteq Claims
  /\ met \in [Request -> SUBSET Request]

MetPatch(r) == \E s \in met[r] : op[s].kind = "patch"
MetPatchOf(r, id) == \E s \in met[r] : op[s].kind = "patch" /\ op[s].on = id

(* Administrators come from administrators, whatever overlaps: a row or an  *)
(* access token with that role is there only if an account of that role was *)
(* made without an admin, on the empty table.                               *)
Uninvited == {u \in users : ~IsAdmin(op[u.id].as)}
AdminsFromAdmins ==
  (\E u \in users : u.role = "admin") \/ (\E j \in jwts : j.role = "admin") =>
    \E u \in Uninvited : op[u.id].role = "admin"

(* auth.rs, the bootstrap rule, "first call wins": the count and the insert *)
(* are two statements, so a second account without an admin is possible,    *)
(* but only from a registration that overlapped the first.                  *)
BootstrapsOverlap == \A u, v \in Uninvited : u = v \/ v.id \in met[u.id]

(* auth.rs, "rotated on every use": the read and the revocation are two     *)
(* statements, so one refresh token can buy two pairs, but only in calls    *)
(* that overlapped; used again later it is refused.                         *)
RotationsOverlap ==
  \A r, s \in Request :
    /\ op[r].kind = "refresh" /\ op[s].kind = "refresh" /\ op[r].on = op[s].on
    /\ pc[r] \in {"issuing", "ok"} /\ pc[s] \in {"issuing", "ok"}
    => r = s \/ s \in met[r]

(* users.rs, the revocation after a suspension: a suspended user has a      *)
(* refresh token only from a call that overlapped a PATCH of that user, or  *)
(* while a suspending PATCH has not come to its DELETE or broke off before. *)
SuspensionUnfinished(id) ==
  \E s \in Request :
    /\ op[s].kind = "patch" /\ op[s].on = id /\ pc[s] \in {"updated", "error"}
    /\ seen[s].id = id /\ Merged(s).status = "suspended"
SuspensionEndsSessions ==
  \A u \in users, t \in tokens :
    u.status = "suspended" /\ t.user = u.id =>
      MetPatchOf(t.id, u.id) \/ SuspensionUnfinished(u.id)

(* users.rs, the merge with the row that was read: a column changes to what *)
(* a PATCH asks for, and a PATCH that does not ask for a change undoes one  *)
(* only if it overlapped another PATCH of the same user.                    *)
ChangedAsAsked ==
  [][\A u \in users, v \in users', f \in {"email", "role", "status"} :
       u.id = v.id /\ u[f] /= v[f] =>
         \E r \in Request :
           /\ pc[r] = "checked" /\ pc'[r] /= "checked" /\ op[r].on = u.id
           /\ op[r][f] = v[f] \/ MetPatchOf(r, u.id)]_vars

(* users.rs, "don't strand the system": the last active admin goes only     *)
(* with a PATCH that overlapped another PATCH.                              *)
LastAdminOverlaps ==
  [][ActiveAdmins /= {} /\ ActiveAdmins' = {} =>
       \E r \in Request : pc[r] = "checked" /\ pc'[r] /= "checked" /\ MetPatch(r)]_vars

(* What the comment at that check promises: once there is an active admin   *)
(* there always is one.                                                     *)
AdminRemains == [][ActiveAdmins /= {} => ActiveAdmins' /= {}]_vars
=============================================================================
