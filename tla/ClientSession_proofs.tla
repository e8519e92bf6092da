------------------------- MODULE ClientSession_proofs -------------------------
(***************************************************************************)
(* ActsAsShown, EvaluationPowerless and SpinnerHasCause for any number of  *)
(* tabs, officers, tokens and calls in flight.                             *)
(***************************************************************************)
EXTENDS ClientSession, TLAPS

Restores(t) == {c \in calls[t] : c.kind = "restore"}

(* Only tokens the backend issued are stored or sent. *)
TokensIssued ==
  /\ \A t \in Tab : session[t] \in Token => issued[session[t]] /= None
  /\ local \in Token => issued[local] /= None
  /\ \A t \in Tab : \A c \in calls[t] :
       /\ c.token \in Token => issued[c.token] /= None
       /\ c.valid => c.token \in Token
       /\ c.kind = "login" => c.account \in Account

(* Why a restore may set the user: there is one, and until the login page  *)
(* is used its answer is for the token still in sessionStorage.            *)
RestoreInv ==
  \A t \in Tab :
    /\ \A c, d \in Restores(t) : c = d
    /\ \A c \in Restores(t) : ~hurried[t] =>
         /\ isLoading[t] /\ ~Pending(t, "login")
         /\ session[t] /= None => session[t] = c.token

(* The evaluation user stays in the tab that entered it. *)
EvaluationInv == \A t \in Tab : user[t] = Evaluation => session[t] = Evaluation

ClientInv ==
  TypeOK /\ TokensIssued /\ RestoreInv /\ EvaluationInv /\ ActsAsShown /\ SpinnerHasCause

-----------------------------------------------------------------------------
(* One lemma per action of a tab, in it one step per part of the invariant. *)

LEMMA MountStep ==
  ASSUME ClientInv, NEW t \in Tab, Mount(t)
  PROVE  ClientInv'
<1> DEFINE token == Stored(session'[t], local)
           sent  == Call("restore", token, None)
<1>1. TypeOK'
  BY DEF ClientInv, TypeOK, Tokens, Kinds, Mount, Stored, SetUser, SetLoading,
      Arrives, Call, backend
<1>2. /\ \A u \in Tab \ {t} : calls'[u] = calls[u] /\ session'[u] = session[u]
                              /\ isLoading'[u] = isLoading[u] /\ hurried'[u] = hurried[u]
      /\ calls'[t] = IF token = None THEN {} ELSE {sent}
      /\ isLoading'[t] = (token /= None)
      /\ session'[t] \in {session[t], None}
      /\ UNCHANGED <<local, issued>>
  BY DEF ClientInv, TypeOK, Mount, SetLoading, backend
<1>3. /\ sent.kind = "restore" /\ sent.token = token
      /\ sent.valid => token \in Token
  BY DEF Call, Valid
<1> HIDE DEF sent
<1>4. TokensIssued'
  BY <1>2, <1>3, NamesAssumption DEF ClientInv, TokensIssued, Stored
<1>5. RestoreInv'
  <2>1. \A c \in calls'[t] : c = sent /\ token /= None /\ isLoading'[t]
    BY <1>2
  <2>2. session'[t] /= None => token = session'[t]
    BY DEF Stored
  <2>3. \A c \in calls'[t] : c.kind /= "login" /\ (session'[t] /= None => session'[t] = c.token)
    BY <1>3, <2>1, <2>2
  <2> QED BY <1>2, <2>1, <2>3 DEF ClientInv, RestoreInv, Restores, Pending
<1>6. EvaluationInv'
  BY NamesAssumption DEF ClientInv, TypeOK, EvaluationInv, Mount, SetUser
<1>7. ActsAsShown'
  BY DEF ClientInv, TypeOK, ActsAsShown, OwnerOf, Mount, SetUser, backend
<1>8. SpinnerHasCause'
  BY <1>2, <1>3 DEF ClientInv, SpinnerHasCause, Pending
<1> QED BY <1>1, <1>4, <1>5, <1>6, <1>7, <1>8 DEF ClientInv

LEMMA NavigateStep ==
  ASSUME ClientInv, NEW t \in Tab, Navigate(t)
  PROVE  ClientInv'
<1>1. TypeOK'
  BY DEF ClientInv, TypeOK, Navigate, Arrives, backend, storage
<1>2. TokensIssued'
  BY DEF ClientInv, TokensIssued, Navigate, backend, storage
<1>3. RestoreInv'
  BY DEF ClientInv, RestoreInv, Restores, Pending, Navigate, storage
<1>4. EvaluationInv'
  BY DEF ClientInv, EvaluationInv, Navigate, storage
<1>5. ActsAsShown'
  BY DEF ClientInv, ActsAsShown, OwnerOf, Navigate, backend, storage
<1>6. SpinnerHasCause'
  BY DEF ClientInv, SpinnerHasCause, Pending, Navigate
<1> QED BY <1>1, <1>2, <1>3, <1>4, <1>5, <1>6 DEF ClientInv

LEMMA SubmitStep ==
  ASSUME ClientInv, NEW t \in Tab, NEW a \in Account, Submit(t, a)
  PROVE  ClientInv'
<1> DEFINE sent == Call("login", None, a)
<1>1. /\ \A u \in Tab \ {t} : calls'[u] = calls[u] /\ isLoading'[u] = isLoading[u]
                              /\ hurried'[u] = hurried[u]
      /\ calls' = [calls EXCEPT ![t] = @ \cup {sent}]
      /\ isLoading' = [isLoading EXCEPT ![t] = TRUE]
      /\ hurried' = [hurried EXCEPT ![t] = @ \/ Pending(t, "restore")]
      /\ UNCHANGED <<user, at, session, local, issued, expired>>
  BY DEF ClientInv, TypeOK, Submit, Sent, SetLoading, backend, storage
<1>2. /\ sent \in [kind : Kinds, token : Tokens, account : Account \cup {None}, valid : BOOLEAN]
      /\ sent.kind = "login" /\ sent.token = None /\ sent.account = a /\ ~sent.valid
  BY DEF Call, Kinds, Tokens
<1> HIDE DEF sent
<1>3. calls'[t] = calls[t] \cup {sent}
  BY <1>1 DEF ClientInv, TypeOK
<1>4. TypeOK'
  <2>1. calls' \in [Tab -> SUBSET [kind : Kinds, token : Tokens,
                                   account : Account \cup {None}, valid : BOOLEAN]]
    BY <1>1, <1>2 DEF ClientInv, TypeOK
  <2>2. hurried' \in [Tab -> BOOLEAN]
    BY <1>1 DEF ClientInv, TypeOK, Pending
  <2> QED BY <1>1, <2>1, <2>2 DEF ClientInv, TypeOK, Tokens
<1>5. TokensIssued'
  BY <1>1, <1>2, <1>3, NamesAssumption DEF ClientInv, TokensIssued
<1>6. RestoreInv'
  <2>1. Restores(t)' = Restores(t)
    BY <1>2, <1>3 DEF Restores
  <2>2. hurried'[t] \/ Restores(t) = {}
    BY <1>1 DEF ClientInv, TypeOK, Pending, Restores
  <2> QED BY <1>1, <2>1, <2>2 DEF ClientInv, RestoreInv, Restores, Pending
<1>7. EvaluationInv'
  BY <1>1 DEF ClientInv, EvaluationInv
<1>8. ActsAsShown'
  BY <1>1 DEF ClientInv, TypeOK, ActsAsShown, OwnerOf
<1>9. SpinnerHasCause'
  BY <1>1, <1>2, <1>3 DEF ClientInv, TypeOK, SpinnerHasCause, Pending
<1> QED BY <1>4, <1>5, <1>6, <1>7, <1>8, <1>9 DEF ClientInv

LEMMA EvaluateStep ==
  ASSUME ClientInv, NEW t \in Tab, enterEvaluationSession(t)
  PROVE  ClientInv'
<1>1. TypeOK'
  BY DEF ClientInv, TypeOK, Tokens, enterEvaluationSession, SetUser, Arrives,
      backend
<1>2. TokensIssued'
  BY NamesAssumption DEF ClientInv, TokensIssued, enterEvaluationSession,
      backend
<1>3. RestoreInv'
  BY DEF ClientInv, TypeOK, RestoreInv, Restores, Pending,
      enterEvaluationSession
<1>4. EvaluationInv'
  BY DEF ClientInv, TypeOK, EvaluationInv, enterEvaluationSession, SetUser
<1>5. ActsAsShown'
  BY DEF ClientInv, TypeOK, ActsAsShown, OwnerOf, enterEvaluationSession,
      SetUser, backend
<1>6. SpinnerHasCause'
  BY DEF ClientInv, SpinnerHasCause, Pending, enterEvaluationSession
<1> QED BY <1>1, <1>2, <1>3, <1>4, <1>5, <1>6 DEF ClientInv

LEMMA LogoutStep ==
  ASSUME ClientInv, NEW t \in Tab, logout(t)
  PROVE  ClientInv'
<1>1. TypeOK'
  BY DEF ClientInv, TypeOK, Tokens, logout, ClearTokens, SetUser, Arrives,
      backend
<1>2. TokensIssued'
  BY NamesAssumption DEF ClientInv, TokensIssued, logout, ClearTokens, backend
<1>3. RestoreInv'
  BY DEF ClientInv, RestoreInv, Restores, Pending, logout, ClearTokens
<1>4. EvaluationInv'
  BY DEF ClientInv, TypeOK, EvaluationInv, logout, ClearTokens, SetUser
<1>5. ActsAsShown'
  BY DEF ClientInv, ActsAsShown, OwnerOf, logout, ClearTokens, SetUser, backend
<1>6. SpinnerHasCause'
  BY DEF ClientInv, SpinnerHasCause, Pending, logout
<1> QED BY <1>1, <1>2, <1>3, <1>4, <1>5, <1>6 DEF ClientInv

LEMMA AskStep ==
  ASSUME ClientInv, NEW t \in Tab, Ask(t)
  PROVE  ClientInv'
<1>1. TypeOK'
  BY DEF ClientInv, TypeOK, Kinds, Ask, GuardedPage, Sent, Call, StoredToken,
      Stored, backend, storage
<1>2. TokensIssued'
  BY DEF ClientInv, TypeOK, TokensIssued, Ask, GuardedPage, Sent, Call,
      StoredToken, Stored, backend, storage
<1>3. RestoreInv'
  BY DEF ClientInv, RestoreInv, Restores, Pending, Ask, Sent, Call, storage
<1>4. EvaluationInv'
  BY DEF ClientInv, EvaluationInv, Ask, storage
<1>5. ActsAsShown'
  BY DEF ClientInv, ActsAsShown, OwnerOf, Ask, backend, storage
<1>6. SpinnerHasCause'
  BY DEF ClientInv, SpinnerHasCause, Pending, Ask, Sent
<1> QED BY <1>1, <1>2, <1>3, <1>4, <1>5, <1>6 DEF ClientInv

LEMMA RestoreStep ==
  ASSUME ClientInv, NEW t \in Tab, RestoreAnswered(t)
  PROVE  ClientInv'
<1>1. PICK c \in calls[t] :
        /\ c.kind = "restore"
        /\ calls' = [calls EXCEPT ![t] = @ \ {c}]
        /\ isLoading' = [isLoading EXCEPT ![t] = FALSE]
        /\ UNCHANGED <<hurried, expired, issued>>
        /\ Arrives(t, at[t])
        /\ \/ c.valid /\ SetUser(t, issued[c.token]) /\ UNCHANGED storage
           \/ ClearTokens(t) /\ SetUser(t, None)
           \/ SetUser(t, None) /\ UNCHANGED storage
  <2>1. PICK c \in calls[t] : \E answer \in Answers(c) :
          /\ c.kind = "restore" /\ Taken(t, c)
          /\ CASE answer = "ok" -> SetUser(t, issued[c.token]) /\ UNCHANGED storage
               [] answer \in {"unauthorized", "unreachable"} -> ClearTokens(t) /\ SetUser(t, None)
               [] answer = "refused" -> SetUser(t, None) /\ UNCHANGED storage
          /\ SetLoading(t, FALSE)
          /\ UNCHANGED issued
          /\ Arrives(t, at[t])
    BY DEF RestoreAnswered
  <2>2. PICK answer \in Answers(c) :
          CASE answer = "ok" -> SetUser(t, issued[c.token]) /\ UNCHANGED storage
            [] answer \in {"unauthorized", "unreachable"} -> ClearTokens(t) /\ SetUser(t, None)
            [] answer = "refused" -> SetUser(t, None) /\ UNCHANGED storage
    BY <2>1
  <2>3. answer \in {"ok", "unauthorized", "unreachable", "refused"} /\ (answer = "ok" => c.valid)
    BY <2>1 DEF Answers
  <2>4. \/ c.valid /\ SetUser(t, issued[c.token]) /\ UNCHANGED storage
        \/ ClearTokens(t) /\ SetUser(t, None)
        \/ SetUser(t, None) /\ UNCHANGED storage
    BY <2>2, <2>3
  <2> QED BY <2>1, <2>4 DEF Taken, SetLoading
<1>2. /\ c.valid => c.token \in Token /\ issued[c.token] \in Account
      /\ c \in Restores(t)
  BY <1>1 DEF ClientInv, TypeOK, TokensIssued, Restores
<1>3. /\ user' \in [Tab -> Account \cup {Evaluation, None}]
      /\ \A u \in Tab \ {t} : user'[u] = user[u] /\ session'[u] = session[u]
                              /\ calls'[u] = calls[u] /\ isLoading'[u] = isLoading[u]
      /\ calls'[t] = calls[t] \ {c} /\ ~isLoading'[t]
      /\ local' \in {local, None} /\ session'[t] \in {session[t], None}
      /\ user'[t] \in {issued[c.token], None}
      /\ user'[t] /= None => c.valid /\ user'[t] = issued[c.token] /\ session' = session
  BY <1>1, <1>2 DEF ClientInv, TypeOK, SetUser, ClearTokens, storage
<1>4. TypeOK'
  <2>1. session' \in [Tab -> Tokens] /\ local' \in Tokens
    BY <1>1 DEF ClientInv, TypeOK, Tokens, ClearTokens, storage
  <2>2. isLoading' \in [Tab -> BOOLEAN] /\ at' \in [Tab -> {"login", "app"}]
    BY <1>1 DEF ClientInv, TypeOK, Arrives
  <2>3. calls' \in [Tab -> SUBSET [kind : Kinds, token : Tokens,
                                   account : Account \cup {None}, valid : BOOLEAN]]
    BY <1>1 DEF ClientInv, TypeOK
  <2> QED BY <1>1, <1>3, <2>1, <2>2, <2>3 DEF ClientInv, TypeOK, Tokens
<1>5. TokensIssued'
  BY <1>1, <1>3, NamesAssumption DEF ClientInv, TokensIssued
<1>6. RestoreInv'
  <2>1. Restores(t)' = {}
    BY <1>2, <1>3 DEF ClientInv, RestoreInv, Restores
  <2> QED BY <1>1, <1>3, <2>1 DEF ClientInv, RestoreInv, Restores, Pending
<1>7. EvaluationInv'
  BY <1>2, <1>3, NamesAssumption DEF ClientInv, EvaluationInv
<1>8. ActsAsShown'
  <2>1. ASSUME user'[t] /= None, session'[t] /= None, ~hurried'[t]
        PROVE  OwnerOf(session[t]) = user'[t]
    <3>1. session[t] = c.token
      BY <1>1, <1>2, <1>3, <2>1 DEF ClientInv, RestoreInv
    <3> QED BY <1>2, <1>3, <2>1, <3>1, NamesAssumption DEF OwnerOf
  <2>2. \A u \in Tab \ {t} : user'[u] = user[u] /\ session'[u] = session[u] /\ hurried' = hurried
    BY <1>1, <1>3
  <2> QED BY <1>1, <1>3, <2>1, <2>2 DEF ClientInv, ActsAsShown, OwnerOf
<1>9. SpinnerHasCause'
  BY <1>3 DEF ClientInv, SpinnerHasCause, Pending
<1> QED BY <1>4, <1>5, <1>6, <1>7, <1>8, <1>9 DEF ClientInv

LEMMA LoggedInStep ==
  ASSUME ClientInv, NEW t \in Tab, LoggedIn(t)
  PROVE  ClientInv'
<1>1. TypeOK'
  BY DEF ClientInv, TypeOK, Tokens, LoggedIn, Taken, StoreLogin, SetUser,
      SetLoading, Arrives
<1>2. TokensIssued'
  BY NamesAssumption DEF ClientInv, TypeOK, TokensIssued, LoggedIn, Taken,
      StoreLogin
<1>3. RestoreInv'
  BY DEF ClientInv, RestoreInv, Restores, Pending, LoggedIn, Taken, StoreLogin,
      SetLoading
<1>4. EvaluationInv'
  BY NamesAssumption DEF ClientInv, TypeOK, EvaluationInv, LoggedIn,
      StoreLogin, SetUser
<1>5. ActsAsShown'
  BY NamesAssumption DEF ClientInv, TypeOK, ActsAsShown, OwnerOf, LoggedIn,
      Taken, StoreLogin, SetUser
<1>6. SpinnerHasCause'
  BY DEF ClientInv, TypeOK, SpinnerHasCause, Pending, LoggedIn, Taken,
      SetLoading
<1> QED BY <1>1, <1>2, <1>3, <1>4, <1>5, <1>6 DEF ClientInv

LEMMA LoginFailedStep ==
  ASSUME ClientInv, NEW t \in Tab, LoginFailed(t)
  PROVE  ClientInv'
<1>1. TypeOK'
  BY DEF ClientInv, TypeOK, Tokens, LoginFailed, Taken, Unauthorized,
      ClearTokens, SetUser, SetLoading, Arrives, storage
<1>2. TokensIssued'
  BY NamesAssumption DEF ClientInv, TypeOK, TokensIssued, LoginFailed, Taken,
      Unauthorized, ClearTokens, storage
<1>3. RestoreInv'
  BY DEF ClientInv, TypeOK, RestoreInv, Restores, Pending, LoginFailed, Taken,
      Unauthorized, ClearTokens, SetLoading, storage
<1>4. EvaluationInv'
  BY DEF ClientInv, TypeOK, EvaluationInv, LoginFailed, Unauthorized,
      ClearTokens, SetUser, storage
<1>5. ActsAsShown'
  BY DEF ClientInv, TypeOK, ActsAsShown, OwnerOf, LoginFailed, Taken,
      Unauthorized, ClearTokens, SetUser, storage
<1>6. SpinnerHasCause'
  BY DEF ClientInv, TypeOK, SpinnerHasCause, Pending, LoginFailed, Taken,
      SetLoading
<1> QED BY <1>1, <1>2, <1>3, <1>4, <1>5, <1>6 DEF ClientInv

LEMMA PageStep ==
  ASSUME ClientInv, NEW t \in Tab, PageAnswered(t)
  PROVE  ClientInv'
<1>1. TypeOK'
  BY DEF ClientInv, TypeOK, Tokens, PageAnswered, Taken, Unauthorized,
      ClearTokens, SetUser, Arrives, storage
<1>2. TokensIssued'
  BY NamesAssumption DEF ClientInv, TypeOK, TokensIssued, PageAnswered, Taken,
      Unauthorized, ClearTokens, storage
<1>3. RestoreInv'
  BY DEF ClientInv, TypeOK, RestoreInv, Restores, Pending, PageAnswered, Taken,
      Unauthorized, ClearTokens, storage
<1>4. EvaluationInv'
  BY DEF ClientInv, TypeOK, EvaluationInv, PageAnswered, Unauthorized,
      ClearTokens, SetUser, storage
<1>5. ActsAsShown'
  BY DEF ClientInv, TypeOK, ActsAsShown, OwnerOf, PageAnswered, Taken,
      Unauthorized, ClearTokens, SetUser, storage
<1>6. SpinnerHasCause'
  BY DEF ClientInv, SpinnerHasCause, Pending, PageAnswered, Taken
<1> QED BY <1>1, <1>2, <1>3, <1>4, <1>5, <1>6 DEF ClientInv

LEMMA ExpireStep == ASSUME ClientInv, Expire PROVE ClientInv'
BY DEF ClientInv, TypeOK, TokensIssued, RestoreInv, Restores, Pending, EvaluationInv, ActsAsShown,
       OwnerOf, SpinnerHasCause, Expire, page, storage

LEMMA StutterStep == ASSUME ClientInv, UNCHANGED vars PROVE ClientInv'
BY DEF ClientInv, TypeOK, TokensIssued, RestoreInv, Restores, Pending, EvaluationInv, ActsAsShown,
       OwnerOf, SpinnerHasCause, vars, page, storage, backend

LEMMA InitClient == Init => ClientInv
  BY NamesAssumption DEF Init, ClientInv, TypeOK, Tokens, TokensIssued, RestoreInv, Restores, Pending,
       EvaluationInv, ActsAsShown, SpinnerHasCause

LEMMA NextClient == ClientInv /\ [Next]_vars => ClientInv'
<1> SUFFICES ASSUME ClientInv, [Next]_vars PROVE ClientInv'
  OBVIOUS
<1>1. ASSUME NEW t \in Tab, \/ Mount(t) \/ Navigate(t) \/ (\E a \in Account : Submit(t, a))
                            \/ enterEvaluationSession(t) \/ logout(t) \/ Ask(t)
      PROVE ClientInv'
  BY <1>1, MountStep, NavigateStep, SubmitStep, EvaluateStep, LogoutStep, AskStep
<1>2. ASSUME NEW t \in Tab, RestoreAnswered(t) \/ LoggedIn(t) \/ LoginFailed(t) \/ PageAnswered(t)
      PROVE ClientInv'
  BY <1>2, RestoreStep, LoggedInStep, LoginFailedStep, PageStep
<1> QED BY <1>1, <1>2, ExpireStep, StutterStep DEF Next

(* For any number of tabs, officers, tokens and calls in flight: a tab with *)
(* a token of its own acts as the user it shows, unless the login page was  *)
(* used before the restore was answered.                                    *)
THEOREM ShownIsActing == Spec => []ActsAsShown
<1>1. ClientInv => ActsAsShown
  BY DEF ClientInv
<1> QED BY <1>1, InitClient, NextClient, PTL DEF Spec

(* The evaluation user never sends a genuine token.                         *)
THEOREM EvaluationGrantsNothing == Spec => []EvaluationPowerless
<1>1. ClientInv => EvaluationPowerless
  BY NamesAssumption DEF ClientInv, EvaluationInv, EvaluationPowerless, StoredToken, Stored
<1> QED BY <1>1, InitClient, NextClient, PTL DEF Spec

(* The state is well typed, and a spinner always has a call that will end it. *)
THEOREM SpinnerWillEnd == Spec => [](TypeOK /\ SpinnerHasCause)
<1>1. ClientInv => TypeOK /\ SpinnerHasCause
  BY DEF ClientInv
<1> QED BY <1>1, InitClient, NextClient, PTL DEF Spec
=============================================================================
