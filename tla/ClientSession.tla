---------------------------- MODULE ClientSession -----------------------------
(***************************************************************************)
(* The session in the browser: AuthContext, the API client and the guards  *)
(* of the routes.  Each tab has a React state and a sessionStorage of its  *)
(* own; localStorage is shared.  A handler runs to its next await, so a    *)
(* step is a click, a page load, or the answer to one API call; answers    *)
(* come in any order and nothing cancels a call but leaving the document.  *)
(***************************************************************************)
EXTENDS Naturals, FiniteSets

CONSTANTS
  Tab,
  Account,     \* officers who can log in
  Token,       \* bound: the access tokens the backend issues in a behaviour
  MaxCalls,    \* bound: API calls a tab has in flight
  Evaluation,  \* the evaluation user, and the string stored as its token
  None

ASSUME NamesAssumption ==
  /\ {Evaluation, None} \cap (Account \cup Token) = {}
  /\ Evaluation /= None
ASSUME CallsAssumption == MaxCalls \in Nat

VARIABLES
  session,    \* each tab's sessionStorage: chaindock_token
  local,      \* localStorage: chaindock_token
  user,       \* AuthContext's user
  isLoading,  \* AuthContext's isLoading
  at,         \* the route: "login", or "app" for the guarded ones
  calls,      \* API calls in flight
  issued,     \* backend: whose each token is
  expired,    \* backend: the tokens that no longer validate
  hurried     \* was the login page used before the restore was answered?

page == <<user, isLoading, at, calls, hurried>>
storage == <<session, local>>
backend == <<issued, expired>>
vars == <<page, storage, backend>>

-----------------------------------------------------------------------------
Kinds == {"restore", "login", "page"}

(* Backend: a token validates from its issue until it expires. *)
Valid(token) == token \in Token \ expired /\ issued[token] /= None

(* A call in flight: the token it was sent with and, as only the restore    *)
(* does something with a success, whether that was valid then; for a login, *)
(* the account.                                                             *)
Call(kind, token, account) ==
  [kind |-> kind, token |-> token, account |-> account,
   valid |-> kind = "restore" /\ Valid(token)]

(* How a call may end.  The backend looked at the token at some moment      *)
(* between the sending and now: it accepted one that was valid at first,    *)
(* or refused one that is not valid any more.                               *)
Answers(c) ==
  {"refused", "unreachable"}
    \cup (IF c.kind = "login" \/ c.valid THEN {"ok"} ELSE {})
    \cup (IF c.kind = "login" \/ ~Valid(c.token) THEN {"unauthorized"} ELSE {})

(* getAuthHeader: sessionStorage first. *)
Stored(s, l) == IF s /= None THEN s ELSE l
StoredToken(t) == Stored(session[t], local)
OwnerOf(token) == IF token = Evaluation THEN Evaluation ELSE issued[token]

SetUser(t, u) == user' = [user EXCEPT ![t] = u]
SetLoading(t, b) == isLoading' = [isLoading EXCEPT ![t] = b]
Pending(t, kind) == \E c \in calls[t] : c.kind = kind
Sent(t, c) == Cardinality(calls[t]) < MaxCalls /\ calls' = [calls EXCEPT ![t] = @ \cup {c}]

(* ProtectedRoute and RoleRoute: a guarded route shows its page only with a *)
(* user and nothing loading, and redirects to /login without a user.        *)
GuardedPage(t) == at[t] = "app" /\ ~isLoading[t] /\ user[t] /= None
Arrives(t, where) ==
  at' = [at EXCEPT ![t] = IF ~isLoading'[t] /\ user'[t] = None THEN "login" ELSE where]

Init ==
  /\ session = [t \in Tab |-> None] /\ local = None
  /\ user = [t \in Tab |-> None] /\ isLoading = [t \in Tab |-> FALSE]
  /\ at = [t \in Tab |-> "login"] /\ calls = [t \in Tab |-> {}]
  /\ issued = [k \in Token |-> None] /\ expired = {}
  /\ hurried = [t \in Tab |-> FALSE]

(* A tab is opened, or its document loaded again: AuthProvider mounts and   *)
(* restoreSession asks who the stored token is.                             *)
MountKeepsSpinner(t) ==                        \* mutant: early return without setIsLoading
  /\ session' \in {session, [session EXCEPT ![t] = None]}
  /\ LET token == Stored(session'[t], local)
     IN calls' = [calls EXCEPT ![t] =
                    IF token = None THEN {} ELSE {Call("restore", token, None)}]
  /\ SetLoading(t, TRUE)
  /\ SetUser(t, None)
  /\ \E where \in {"login", "app"} : Arrives(t, where)
  /\ hurried' = [hurried EXCEPT ![t] = FALSE]
  /\ UNCHANGED <<local, backend>>
Mount(t) ==
  /\ session' \in {session, [session EXCEPT ![t] = None]}
  /\ LET token == Stored(session'[t], local)
     IN /\ calls' = [calls EXCEPT ![t] =
                       IF token = None THEN {} ELSE {Call("restore", token, None)}]
        /\ SetLoading(t, token /= None)
  /\ SetUser(t, None)
  /\ \E where \in {"login", "app"} : Arrives(t, where)
  /\ hurried' = [hurried EXCEPT ![t] = FALSE]
  /\ UNCHANGED <<local, backend>>

(* The browser's back and forward between routes, without a page load. *)
Navigate(t) ==
  /\ UNCHANGED <<user, isLoading, calls, hurried, storage, backend>>
  /\ \E where \in {"login", "app"} : Arrives(t, where)
  /\ at' /= at

(* Login.tsx: one submit at a time, its button being disabled meanwhile.    *)
(* (The flag is the form's own: one left, by the evaluation shortcut and a  *)
(* logout, and opened again would take a second submit; this is left out.)  *)
Submit(t, a) ==
  /\ at[t] = "login" /\ ~Pending(t, "login")
  /\ Sent(t, Call("login", None, a))
  /\ SetLoading(t, TRUE)
  /\ hurried' = [hurried EXCEPT ![t] = @ \/ Pending(t, "restore")]
  /\ UNCHANGED <<user, at, storage, backend>>

(* Login.tsx: the evaluation shortcut, which no call in flight disables. *)
enterEvaluationSession(t) ==
  /\ at[t] = "login"
  /\ session' = [session EXCEPT ![t] = Evaluation]
  /\ SetUser(t, Evaluation)
  /\ UNCHANGED <<local, isLoading, calls, backend>>
  /\ Arrives(t, "app")
  /\ hurried' = [hurried EXCEPT ![t] = @ \/ Pending(t, "restore")]

ClearTokens(t) == session' = [session EXCEPT ![t] = None] /\ local' = None

logout(t) ==
  /\ GuardedPage(t)
  /\ ClearTokens(t)
  /\ SetUser(t, None)
  /\ UNCHANGED <<isLoading, calls, hurried, backend>>
  /\ Arrives(t, at[t])

(* A page asks the backend for something. *)
Ask(t) ==
  /\ GuardedPage(t)
  /\ Sent(t, Call("page", StoredToken(t), None))
  /\ UNCHANGED <<user, isLoading, at, hurried, storage, backend>>

Expire ==
  /\ \E k \in Token \ expired : issued[k] /= None /\ expired' = expired \cup {k}
  /\ UNCHANGED <<page, storage, issued>>

-----------------------------------------------------------------------------
(* What the answer to a call does. *)
Taken(t, c) ==
  /\ calls' = [calls EXCEPT ![t] = @ \ {c}]
  /\ UNCHANGED <<hurried, expired>>

(* ApiClient.request on a 401, whichever token it was for: both tokens go,  *)
(* and the event makes AuthContext drop the user.                           *)
UnauthorizedUnheard(t) == ClearTokens(t) /\ UNCHANGED user   \* mutant: no event dispatched
Unauthorized(t) == ClearTokens(t) /\ SetUser(t, None)

RestoreAnswered(t) ==
  \E c \in calls[t] : \E answer \in Answers(c) :
    /\ c.kind = "restore" /\ Taken(t, c)
    /\ CASE answer = "ok" -> SetUser(t, issued[c.token]) /\ UNCHANGED storage
         [] answer \in {"unauthorized", "unreachable"} -> ClearTokens(t) /\ SetUser(t, None)
         [] answer = "refused" -> SetUser(t, None) /\ UNCHANGED storage
    /\ SetLoading(t, FALSE)
    /\ UNCHANGED issued
    /\ Arrives(t, at[t])

LoginStoresLocally(t, token) ==                \* mutant: sessionStorage left as it was
  /\ local' = token /\ UNCHANGED session
StoreLogin(t, token) ==
  /\ local' = token /\ session' = [session EXCEPT ![t] = token]

LoggedIn(t) ==
  \E c \in calls[t], k \in {k \in Token : issued[k] = None} :
    /\ c.kind = "login" /\ Taken(t, c)
    /\ issued' = [issued EXCEPT ![k] = c.account]
    /\ StoreLogin(t, k)
    /\ SetUser(t, c.account)
    /\ SetLoading(t, FALSE)
    /\ Arrives(t, "app")

LoginFailed(t) ==
  \E c \in calls[t] : \E answer \in Answers(c) \ {"ok"} :
    /\ c.kind = "login" /\ Taken(t, c)
    /\ IF answer = "unauthorized" THEN Unauthorized(t) ELSE UNCHANGED <<user, storage>>
    /\ SetLoading(t, FALSE)
    /\ UNCHANGED issued
    /\ Arrives(t, at[t])

PageAnswered(t) ==
  \E c \in calls[t] : \E answer \in Answers(c) :
    /\ c.kind = "page" /\ Taken(t, c)
    /\ IF answer = "unauthorized" THEN Unauthorized(t) ELSE UNCHANGED <<user, storage>>
    /\ UNCHANGED <<isLoading, issued>>
    /\ Arrives(t, at[t])

Next ==
  \/ \E t \in Tab :
       \/ Mount(t) \/ Navigate(t) \/ (\E a \in Account : Submit(t, a))
       \/ enterEvaluationSession(t) \/ logout(t) \/ Ask(t)
       \/ RestoreAnswered(t) \/ LoggedIn(t) \/ LoginFailed(t) \/ PageAnswered(t)
  \/ Expire

Spec == Init /\ [][Next]_vars

-----------------------------------------------------------------------------
Tokens == Token \cup {Evaluation, None}

(* Each variable holds what its comment says. *)
TypeOK ==
  /\ session \in [Tab -> Tokens] /\ local \in Tokens
  /\ user \in [Tab -> Account \cup {Evaluation, None}]
  /\ isLoading \in [Tab -> BOOLEAN] /\ hurried \in [Tab -> BOOLEAN]
  /\ at \in [Tab -> {"login", "app"}]
  /\ calls \in [Tab -> SUBSET [kind : Kinds, token : Tokens, account : Account \cup {None},
                               valid : BOOLEAN]]
  /\ issued \in [Token -> Account \cup {None}] /\ expired \subseteq Token

(* The officer a tab shows is the one the backend will take it for: what is *)
(* done on screen as A is never recorded as done by B.  It is so for a tab  *)
(* with a token in its own sessionStorage, unless the login page was used   *)
(* while the restore was out, whose late answer overwrites the user.        *)
ActsAsShown ==
  \A t \in Tab :
    user[t] /= None /\ session[t] /= None /\ ~hurried[t] => OwnerOf(session[t]) = user[t]

(* AuthContext on the evaluation session: there is no genuine JWT behind    *)
(* it.  Whatever is stored by other tabs or answered late, a tab that shows *)
(* the evaluation user sends the evaluation token, which no call accepts.   *)
EvaluationPowerless ==
  \A t \in Tab : user[t] = Evaluation => StoredToken(t) = Evaluation

(* "Verifying Cryptographic Session..." ends: while it shows, a call whose  *)
(* answer will end it is in flight, however logins, evaluation sessions,    *)
(* 401s and reloads overlapped.                                             *)
SpinnerHasCause ==
  \A t \in Tab : isLoading[t] => Pending(t, "restore") \/ Pending(t, "login")
=============================================================================
