----------------------------- MODULE PhoneSession -----------------------------
(***************************************************************************)
(* The login of the phone and the requests made with it. Every worker of   *)
(* the App sends its requests through AuthenticatedHttpClient: it takes a  *)
(* snapshot of the login, and when the server answers 401 it refreshes the *)
(* access token under a mutex and repeats the request once. Meanwhile the  *)
(* user may log out and log in as someone else, the server may end the     *)
(* session, tokens expire, and answers are lost.                           *)
(* AuthenticatedHttpClient.kt, AppPreferences.kt, SettingsScreen.kt, and   *)
(* login, refreshSession, logout, authenticateRequest of                   *)
(* infra/worker/src/index.ts. What a request does at the server is added   *)
(* by PhoneRecordings.                                                     *)
(***************************************************************************)
EXTENDS Integers

CONSTANTS
  Users,
  MaxLogins,   \* bound: logins
  MaxFaults    \* bound: ends of sessions, later logins, lost answers, failures, deaths

ASSUME PhoneOK == MaxLogins \in Nat /\ MaxFaults \in Nat /\ Users # {}

\* Who sends requests: UploadWorker, SyncWorker.
Workers == {"upload", "sync"}

VARIABLES
  login,     \* the phone's login: its identity, and the access token it stores
  sessions,  \* sessions[n]: the server's session of the n-th login
  logins,
  call,      \* call[w]: the request of a worker
  faults

session == <<login, sessions, logins>>

\* An access token names the session it was made for and its number there.
Token(n, k) == [of |-> n, no |-> k]
LoggedOut == [id |-> 0, token |-> Token(0, 0)]
Someone == CHOOSE u \in Users : TRUE
Idle == [pc |-> "idle", id |-> 0, token |-> Token(0, 0), answer |-> "none"]
NoSession(u) == [user |-> u, no |-> 0, expired |-> FALSE, ended |-> FALSE]

SessionInit ==
  /\ login = LoggedOut /\ logins = 0
  /\ sessions = [n \in 1 .. MaxLogins |-> NoSession(Someone)]
  /\ call = [w \in Workers |-> Idle]
  /\ faults = 0

Fault == faults < MaxFaults /\ faults' = faults + 1
On(w, pc) == call[w].pc = pc
Go(w, pc) == call' = [call EXCEPT ![w].pc = pc]
Finish(w, answer) == call' = [call EXCEPT ![w] = [Idle EXCEPT !.pc = "done", !.answer = answer]]

\* authenticateRequest.
Accepts(t) ==
  /\ t.of # 0 /\ t.no = sessions[t.of].no
  /\ ~ sessions[t.of].expired /\ ~ sessions[t.of].ended

UserOf(t) == sessions[t.of].user

-----------------------------------------------------------------------------
(* The user and the server.                                                *)

\* Accounts are interchangeable: Someone is the first to log in.
Login(u) ==
  /\ login.id = 0 /\ logins < MaxLogins /\ (logins = 0 => u = Someone)
  /\ \/ logins = 0 /\ UNCHANGED faults
     \/ logins > 0 /\ Fault
  /\ logins' = logins + 1
  /\ sessions' = [sessions EXCEPT ![logins'].user = u]
  /\ login' = [id |-> logins', token |-> Token(logins', 0)]
  /\ UNCHANGED call

\* The phone forgets its login; the server's session ends when the request
\* that follows arrives with a token the server accepts.
Logout ==
  /\ login.id # 0
  /\ login' = LoggedOut
  /\ \/ UNCHANGED <<sessions, faults>> /\ ~ Accepts(login.token)
     \/ /\ Accepts(login.token) /\ UNCHANGED faults
        /\ sessions' = [sessions EXCEPT ![login.id].ended = TRUE]
     \/ Fault /\ UNCHANGED sessions
  /\ UNCHANGED <<logins, call>>

\* The server ends all sessions of a user: a password reset or an administrator
\* revokes them, the user is disabled, or the refresh token has expired, which
\* refreshSession all answers alike.
Revoke ==
  /\ Fault
  /\ \E u \in Users :
       sessions' = [n \in DOMAIN sessions |->
         IF n <= logins /\ sessions[n].user = u THEN [sessions[n] EXCEPT !.ended = TRUE] ELSE sessions[n]]
  /\ UNCHANGED <<login, logins, call>>

\* Bound: the first access token expires, under a request that is on its way.
Expire ==
  /\ login.id = 1 /\ sessions[1].no = 0 /\ \E w \in Workers : On(w, "first")
  /\ sessions' = [sessions EXCEPT ![1].expired = TRUE]
  /\ UNCHANGED <<login, logins, call, faults>>

-----------------------------------------------------------------------------
(* AuthenticatedHttpClient.execute.                                        *)

\* The snapshot of the login; without one the request is not sent.
Begin(w) ==
  call' = [call EXCEPT ![w] =
    IF login.id = 0 THEN [Idle EXCEPT !.pc = "done", !.answer = "changed"]
    ELSE [pc |-> "first", id |-> login.id, token |-> login.token, answer |-> "none"]]

\* Seeded fault: the refresh does not look whose login it finds.
AnyLogin(w) == login.id # 0

\* ensureSameSession.
SameLogin(w) == login.id = call[w].id

\* The request reaches the server in the name of UserOf(call[w].token).
Reaches(w) ==
  /\ On(w, "first") \/ On(w, "second")
  /\ Accepts(call[w].token)

Rejected(w) ==
  /\ \/ On(w, "first") /\ ~ Accepts(call[w].token) /\ Go(w, "refused")
     \/ On(w, "second") /\ ~ Accepts(call[w].token) /\ Finish(w, "refused")
  /\ UNCHANGED <<session, faults>>

\* refreshMutex: one refresh at a time.
Refreshing == {"posting", "renewed", "invalid"}

\* Under the mutex: the token another worker has meanwhile renewed is used.
TakeMutex(w) ==
  /\ On(w, "refused") /\ \A v \in Workers : call[v].pc \notin Refreshing
  /\ \/ ~ SameLogin(w) /\ Finish(w, "changed")
     \/ /\ SameLogin(w) /\ login.token # call[w].token
        /\ call' = [call EXCEPT ![w].pc = "retry", ![w].token = login.token]
     \/ SameLogin(w) /\ login.token = call[w].token /\ Go(w, "posting")
  /\ UNCHANGED <<session, faults>>

\* Seeded fault: the access token's expiry ends the session.
RefreshableWhileValid(n) == ~ sessions[n].ended /\ ~ sessions[n].expired

\* refreshSession: a new access token; the refresh token stays as it is.
Refreshable(n) == ~ sessions[n].ended
Renewed(n) == [sessions EXCEPT ![n] = [@ EXCEPT !.no = sessions[n].no + 1, !.expired = FALSE]]

\* The refresh token is that of the login under the same identity. A lost answer
\* or a failing server ends the request, to be repeated later.
PostRefresh(w) ==
  LET n == call[w].id IN
  /\ On(w, "posting")
  /\ \/ ~ Refreshable(n) /\ Go(w, "invalid") /\ UNCHANGED <<sessions, faults>>
     \/ /\ Refreshable(n) /\ sessions' = Renewed(n) /\ UNCHANGED faults
        /\ call' = [call EXCEPT ![w].pc = "renewed", ![w].token = Token(n, sessions'[n].no)]
     \/ Refreshable(n) /\ Fault /\ sessions' = Renewed(n) /\ Finish(w, "failed")
     \/ Fault /\ UNCHANGED sessions /\ Finish(w, "failed")
  /\ UNCHANGED <<login, logins>>

\* saveRefreshedAuthSession, unless the login changed meanwhile.
SaveRefreshed(w) ==
  /\ On(w, "renewed")
  /\ \/ SameLogin(w) /\ login' = [login EXCEPT !.token = call[w].token] /\ Go(w, "retry")
     \/ ~ SameLogin(w) /\ Finish(w, "changed") /\ UNCHANGED login
  /\ UNCHANGED <<sessions, logins, faults>>

\* The login is compared once more, then the request is repeated.
Recheck(w) ==
  /\ On(w, "retry") /\ IF SameLogin(w) THEN Go(w, "second") ELSE Finish(w, "changed")
  /\ UNCHANGED <<session, faults>>

\* matchesSessionLocked.
Clears(w) == login.id = call[w].id

\* clearAuthSessionIfMatches after invalid_refresh_token; the 401 is the answer.
ClearLogin(w) ==
  /\ On(w, "invalid")
  /\ \/ Clears(w) /\ login' = LoggedOut /\ Finish(w, "refused")
     \/ ~ Clears(w) /\ Finish(w, "changed") /\ UNCHANGED login
  /\ UNCHANGED <<sessions, logins, faults>>

CallSteps(w) ==
  Rejected(w) \/ TakeMutex(w) \/ PostRefresh(w) \/ SaveRefreshed(w) \/ Recheck(w) \/ ClearLogin(w)

Accounts == (\E u \in Users : Login(u)) \/ Logout \/ Revoke \/ Expire

-----------------------------------------------------------------------------
SessionTypeOK ==
  /\ login.id \in 0 .. logins /\ (login.id # 0 => login.token.of = login.id)
  /\ sessions \in [1 .. MaxLogins -> [user : Users, no : Nat, expired : BOOLEAN, ended : BOOLEAN]]
  /\ \A w \in Workers : call[w].answer \in {"none", "ok", "missing", "refused", "failed", "changed"}
  /\ logins \in 0 .. MaxLogins /\ faults \in 0 .. MaxFaults

\* A request is repeated only with a token of the login it was first sent with:
\* the identity of a login "prevents cross-account retries" (AppPreferences.kt:70).
RetryKeepsAccount ==
  \A w \in Workers : On(w, "second") => call[w].token.of = call[w].id

\* The phone loses its login only when the user logs out or that very session has
\* ended at the server, never for the end of an older one: not through a lost answer of a
\* refresh, and not through two workers that refresh (clearAuthSessionIfMatches,
\* refreshSession's stable refresh token).
ClearedForCause ==
  [][login.id # 0 /\ login'.id = 0 => sessions[login.id].ended \/ Logout]_<<session, call>>
===============================================================================
