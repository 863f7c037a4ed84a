------------------------ MODULE PhoneRecordingsProofs ------------------------
(***************************************************************************)
(* Proofs about PhoneSession and PhoneRecordings for every set of          *)
(* accounts and any number of logins and faults: logins, expiries,         *)
(* ended sessions, lost answers, deaths of the process, replaced works in  *)
(* any number and order.                                                   *)
(***************************************************************************)
EXTENDS PhoneRecordings, TLAPS

-----------------------------------------------------------------------------
(* The login and the requests. *)

Tokens == [of : Nat, no : Nat]
AtRest == {"idle", "done"}
CallPcs == AtRest \cup {"first", "refused", "posting", "renewed", "invalid", "retry", "second"}
Answered == {"none", "ok", "missing", "refused", "failed", "changed"}
Calls == [pc : CallPcs, id : Nat, token : Tokens, answer : Answered]
Sessions == [user : Users, no : Nat, expired : BOOLEAN, ended : BOOLEAN]

SessionTyped ==
  /\ logins \in 0 .. MaxLogins /\ faults \in 0 .. MaxFaults
  /\ login \in [id : Nat, token : Tokens] /\ login.id \in 0 .. logins
  /\ login.id # 0 => login.token.of = login.id
  /\ sessions \in [1 .. MaxLogins -> Sessions]
  /\ call \in [Workers -> Calls]

\* A request under way belongs to a login there was, and so does its token; it is
\* refused for good only after that login's session had ended.
Honest(c) ==
  c.pc \notin AtRest =>
    /\ c.id \in 1 .. logins /\ c.token.of = c.id
    /\ c.pc = "invalid" => sessions[c.id].ended

CallsHonest == \A w \in Workers : Honest(call[w])

SessionInv == SessionTyped /\ CallsHonest

\* Some account, as CHOOSE picks it.
LEMMA SomeoneIsUser == Someone \in Users
BY PhoneOK DEF Someone

\* A request at rest may be put in the place of any other.
LEMMA IdleIsCall == Idle \in Calls /\ Honest(Idle)
BY DEF Idle, Calls, CallPcs, AtRest, Answered, Tokens, Token, Honest

LEMMA FinishedIsCall ==
  ASSUME NEW answer \in Answered
  PROVE  LET c == [Idle EXCEPT !.pc = "done", !.answer = answer] IN c \in Calls /\ Honest(c)
BY DEF Idle, Calls, CallPcs, AtRest, Answered, Tokens, Token, Honest

\* What replaces one request keeps the invariant when it is honest itself.
LEMMA OneCall ==
  ASSUME SessionInv, UNCHANGED session, faults' \in 0 .. MaxFaults,
         NEW w \in Workers, NEW c \in Calls, Honest(c), call' = [call EXCEPT ![w] = c]
  PROVE  SessionInv'
<1>1. call \in [Workers -> Calls]
  BY DEF SessionInv, SessionTyped
<1>2. call' \in [Workers -> Calls]
  BY <1>1
<1>3. SessionTyped'
  BY <1>2 DEF SessionInv, SessionTyped, session
<1>4. ASSUME NEW v \in Workers PROVE Honest(call[v])'
  <2>1. call'[v] = IF v = w THEN c ELSE call[v]
    BY <1>1
  <2>2. Honest(call[v])
    BY DEF SessionInv, CallsHonest
  <2>3. QED
    BY <2>1, <2>2 DEF Honest, session
<1>5. QED
  BY <1>3, <1>4 DEF SessionInv, CallsHonest

\* Beginning, going on, finishing and dropping a request.
LEMMA BeginKeeps ==
  ASSUME SessionInv, UNCHANGED <<session, faults>>, NEW w \in Workers, Begin(w)
  PROVE  SessionInv'
<1>1. CASE login.id = 0
  <2>1. call' = [call EXCEPT ![w] = [Idle EXCEPT !.pc = "done", !.answer = "changed"]]
    BY <1>1 DEF Begin
  <2>2. faults' \in 0 .. MaxFaults /\ "changed" \in Answered
    BY DEF SessionInv, SessionTyped, Answered
  <2>3. QED
    BY <2>1, <2>2, FinishedIsCall, OneCall
<1>2. CASE login.id # 0
  <2> DEFINE c == [pc |-> "first", id |-> login.id, token |-> login.token, answer |-> "none"]
  <2>1. call' = [call EXCEPT ![w] = c]
    BY <1>2 DEF Begin
  <2>2. c \in Calls /\ Honest(c)
    BY <1>2, PhoneOK DEF SessionInv, SessionTyped, Calls, CallPcs, AtRest, Answered, Honest
  <2>3. faults' \in 0 .. MaxFaults
    BY DEF SessionInv, SessionTyped
  <2>4. QED
    BY <2>1, <2>2, <2>3, OneCall
<1>3. QED
  BY <1>1, <1>2

LEMMA FinishKeeps ==
  ASSUME SessionInv, UNCHANGED session, faults' \in 0 .. MaxFaults,
         NEW w \in Workers, NEW answer \in Answered, Finish(w, answer)
  PROVE  SessionInv'
BY FinishedIsCall, OneCall DEF Finish

LEMMA DropKeeps ==
  ASSUME SessionInv, UNCHANGED session, faults' \in 0 .. MaxFaults,
         NEW w \in Workers, call' = [call EXCEPT ![w] = Idle]
  PROVE  SessionInv'
BY IdleIsCall, OneCall

\* A request that goes on without a look at the server or the login.
LEMMA GoKeeps ==
  ASSUME SessionInv, UNCHANGED <<session, faults>>, NEW w \in Workers, NEW pc \in CallPcs,
         Go(w, pc), call[w].pc \notin AtRest,
         pc = "invalid" => sessions[call[w].id].ended
  PROVE  SessionInv'
<1> DEFINE c == [call[w] EXCEPT !.pc = pc]
<1>1. call \in [Workers -> Calls] /\ Honest(call[w]) /\ faults' \in 0 .. MaxFaults
  BY DEF SessionInv, SessionTyped, CallsHonest
<1>2. call' = [call EXCEPT ![w] = c]
  BY <1>1 DEF Go
<1>3. c \in Calls
  BY <1>1 DEF Calls
<1>4. Honest(c)
  BY <1>1 DEF Honest, Calls
<1>5. QED
  BY <1>1, <1>2, <1>3, <1>4, OneCall

\* What a new login, the end of a session or an expiry does to the sessions.
LEMMA SessionsChange ==
  ASSUME SessionInv, UNCHANGED call, logins' \in logins .. MaxLogins, faults' \in 0 .. MaxFaults,
         login' \in [id : Nat, token : Tokens], login'.id \in 0 .. logins',
         login'.id # 0 => login'.token.of = login'.id,
         sessions' \in [1 .. MaxLogins -> Sessions],
         \A n \in 1 .. logins : sessions[n].ended => sessions'[n].ended
  PROVE  SessionInv'
<1>1. logins \in Nat /\ MaxLogins \in Nat
  BY PhoneOK DEF SessionInv, SessionTyped
<1>2. SessionTyped'
  BY <1>1 DEF SessionInv, SessionTyped
<1>3. ASSUME NEW w \in Workers PROVE Honest(call[w])'
  <2>1. Honest(call[w])
    BY DEF SessionInv, CallsHonest
  <2>2. QED
    BY <2>1, <1>1 DEF Honest
<1>4. QED
  BY <1>2, <1>3 DEF SessionInv, CallsHonest

\* One session changes, and stays ended if it was.
LEMMA OneSession ==
  ASSUME SessionInv, NEW k \in 1 .. MaxLogins, NEW s \in Sessions, sessions[k].ended => s.ended,
         sessions' = [sessions EXCEPT ![k] = s]
  PROVE  /\ sessions' \in [1 .. MaxLogins -> Sessions]
         /\ \A n \in 1 .. logins : sessions[n].ended => sessions'[n].ended
BY PhoneOK DEF SessionInv, SessionTyped

LEMMA AccountsKeep ==
  ASSUME SessionInv, Accounts
  PROVE  SessionInv'
<1>1. /\ logins \in 0 .. MaxLogins /\ MaxLogins \in Nat /\ MaxFaults \in Nat /\ faults \in 0 .. MaxFaults
      /\ login \in [id : Nat, token : Tokens] /\ login.id \in 0 .. logins
      /\ login.id # 0 => login.token.of = login.id
      /\ sessions \in [1 .. MaxLogins -> Sessions]
  BY PhoneOK DEF SessionInv, SessionTyped
<1>2. LoggedOut \in [id : Nat, token : Tokens] /\ LoggedOut.id = 0
  BY DEF LoggedOut, Token, Tokens
<1>3. ASSUME NEW u \in Users, Login(u) PROVE SessionInv'
  <2>1. logins < MaxLogins /\ logins' = logins + 1 /\ UNCHANGED call /\ sessions' = [sessions EXCEPT ![logins'].user = u]
        /\ login' = [id |-> logins', token |-> Token(logins', 0)] /\ faults' \in 0 .. MaxFaults
    BY <1>1, <1>3 DEF Login, Fault
  <2> DEFINE s == [sessions[logins'] EXCEPT !.user = u]
  <2>2. sessions' \in [1 .. MaxLogins -> Sessions] /\ \A n \in 1 .. logins : sessions[n].ended => sessions'[n].ended
    <3>1. logins' \in 1 .. MaxLogins /\ sessions' = [sessions EXCEPT ![logins'] = s]
      BY <1>1, <2>1
    <3>2. s \in Sessions /\ s.ended = sessions[logins'].ended
      BY <1>1, <3>1 DEF Sessions
    <3>3. QED
      BY <3>1, <3>2, OneSession
  <2>3. login' \in [id : Nat, token : Tokens] /\ login'.id \in 0 .. logins' /\ login'.token.of = login'.id
        /\ logins' \in logins .. MaxLogins
    BY <1>1, <2>1 DEF Token, Tokens
  <2>4. QED
    BY <2>1, <2>2, <2>3, SessionsChange
<1>4. CASE Logout
  <2>1. login' = LoggedOut /\ UNCHANGED <<logins, call>> /\ faults' \in 0 .. MaxFaults
        /\ (sessions' = sessions \/ (login.id # 0 /\ sessions' = [sessions EXCEPT ![login.id].ended = TRUE]))
    BY <1>1, <1>4 DEF Logout, Fault
  <2> DEFINE s == [sessions[login.id] EXCEPT !.ended = TRUE]
  <2>2. sessions' \in [1 .. MaxLogins -> Sessions] /\ \A n \in 1 .. logins : sessions[n].ended => sessions'[n].ended
    <3>1. CASE sessions' = sessions
      BY <1>1, <3>1
    <3>2. CASE login.id # 0 /\ sessions' = [sessions EXCEPT ![login.id].ended = TRUE]
      <4>1. login.id \in 1 .. MaxLogins /\ sessions' = [sessions EXCEPT ![login.id] = s]
        BY <1>1, <3>2
      <4>2. s \in Sessions /\ s.ended
        BY <1>1, <4>1 DEF Sessions
      <4>3. QED
        BY <4>1, <4>2, OneSession
    <3>3. QED
      BY <2>1, <3>1, <3>2
  <2>3. QED
    BY <1>1, <1>2, <2>1, <2>2, SessionsChange
<1>5. CASE Revoke
  <2>1. PICK u \in Users : sessions' = [n \in DOMAIN sessions |->
          IF n <= logins /\ sessions[n].user = u THEN [sessions[n] EXCEPT !.ended = TRUE] ELSE sessions[n]]
    BY <1>5 DEF Revoke
  <2>2. UNCHANGED <<login, logins, call>> /\ faults' \in 0 .. MaxFaults
    BY <1>1, <1>5 DEF Revoke, Fault
  <2>3. sessions' \in [1 .. MaxLogins -> Sessions] /\ \A n \in 1 .. logins : sessions[n].ended => sessions'[n].ended
    <3>1. ASSUME NEW n \in 1 .. MaxLogins
          PROVE  sessions'[n] \in Sessions /\ (sessions[n].ended => sessions'[n].ended)
      BY <1>1, <2>1 DEF Sessions
    <3>2. QED
      BY <1>1, <2>1, <3>1
  <2>4. QED
    BY <1>1, <2>2, <2>3, SessionsChange
<1>6. CASE Expire
  <2>1. UNCHANGED <<login, logins, call, faults>> /\ sessions' = [sessions EXCEPT ![1].expired = TRUE] /\ login.id = 1
    BY <1>6 DEF Expire
  <2> DEFINE s == [sessions[1] EXCEPT !.expired = TRUE]
  <2>2. sessions' \in [1 .. MaxLogins -> Sessions] /\ \A n \in 1 .. logins : sessions[n].ended => sessions'[n].ended
    <3>1. 1 \in 1 .. MaxLogins /\ sessions' = [sessions EXCEPT ![1] = s]
      BY <1>1, <2>1
    <3>2. s \in Sessions /\ s.ended = sessions[1].ended
      BY <1>1, <3>1 DEF Sessions
    <3>3. QED
      BY <3>1, <3>2, OneSession
  <2>3. QED
    BY <1>1, <2>1, <2>2, SessionsChange
<1>7. QED
  BY <1>3, <1>4, <1>5, <1>6 DEF Accounts

\* Every step of a request keeps the invariant.
LEMMA CallStepsKeep ==
  ASSUME SessionInv, NEW w \in Workers, CallSteps(w)
  PROVE  SessionInv'
<1>1. /\ logins \in 0 .. MaxLogins /\ MaxLogins \in Nat /\ MaxFaults \in Nat /\ faults \in 0 .. MaxFaults
      /\ login \in [id : Nat, token : Tokens] /\ login.id \in 0 .. logins
      /\ login.id # 0 => login.token.of = login.id
      /\ sessions \in [1 .. MaxLogins -> Sessions]
      /\ call \in [Workers -> Calls] /\ Honest(call[w])
  BY PhoneOK DEF SessionInv, SessionTyped, CallsHonest
<1>2. {"refused", "failed", "changed"} \subseteq Answered /\ {"refused", "posting", "retry", "second", "invalid"} \subseteq CallPcs
      /\ \A pc \in {"first", "second", "refused", "posting", "renewed", "retry", "invalid"} : pc \notin AtRest
  BY DEF Answered, CallPcs, AtRest
<1>3. CASE Rejected(w)
  <2>1. UNCHANGED <<session, faults>> /\ call[w].pc \in {"first", "second"} /\ (Go(w, "refused") \/ Finish(w, "refused"))
    BY <1>3 DEF Rejected, On
  <2>2. QED
    BY <1>1, <1>2, <2>1, GoKeeps, FinishKeeps
<1>4. CASE TakeMutex(w)
  <2>1. UNCHANGED <<session, faults>> /\ call[w].pc = "refused"
    BY <1>4 DEF TakeMutex, On
  <2>2. CASE Finish(w, "changed")
    BY <1>1, <1>2, <2>1, <2>2, FinishKeeps
  <2>3. CASE Go(w, "posting")
    BY <1>1, <1>2, <2>1, <2>3, GoKeeps
  <2>4. CASE SameLogin(w) /\ call' = [call EXCEPT ![w].pc = "retry", ![w].token = login.token]
    <3> DEFINE c == [call[w] EXCEPT !.pc = "retry", !.token = login.token]
    <3>1. call' = [call EXCEPT ![w] = c]
      BY <1>1, <2>4
    <3>2. call[w].id \in 1 .. logins /\ login.id = call[w].id
      BY <1>1, <1>2, <2>1, <2>4 DEF Honest, SameLogin
    <3>3. c \in Calls
      BY <1>1, <1>2 DEF Calls
    <3>4. Honest(c)
      BY <1>1, <3>2 DEF Honest, Calls
    <3>5. QED
      BY <1>1, <2>1, <3>1, <3>3, <3>4, OneCall
  <2>5. QED
    BY <1>4, <2>2, <2>3, <2>4 DEF TakeMutex
<1>5. CASE PostRefresh(w)
  <2> DEFINE n == call[w].id
  <2>1. UNCHANGED <<login, logins>> /\ call[w].pc = "posting" /\ n \in 1 .. logins
    BY <1>1, <1>2, <1>5 DEF PostRefresh, On, Honest
  <2>2. CASE ~ Refreshable(n) /\ Go(w, "invalid") /\ UNCHANGED <<sessions, faults>>
    BY <1>2, <2>1, <2>2, GoKeeps DEF Refreshable, session
  <2>3. CASE UNCHANGED sessions /\ Finish(w, "failed") /\ Fault
    BY <1>1, <1>2, <2>1, <2>3, FinishKeeps DEF Fault, session
  <2>4. CASE sessions' = Renewed(n) /\ (UNCHANGED faults \/ Fault)
             /\ \/ Finish(w, "failed")
                \/ call' = [call EXCEPT ![w].pc = "renewed", ![w].token = Token(n, sessions'[n].no)]
    <3> DEFINE s == [sessions[n] EXCEPT !.no = sessions[n].no + 1, !.expired = FALSE]
    <3>1. sessions' \in [1 .. MaxLogins -> Sessions] /\ \A m \in 1 .. logins : sessions[m].ended => sessions'[m].ended
      <4>1. n \in 1 .. MaxLogins /\ sessions' = [sessions EXCEPT ![n] = s]
        BY <1>1, <2>1, <2>4 DEF Renewed
      <4>2. ASSUME NEW r \in Sessions, NEW k \in Nat
            PROVE  LET q == [r EXCEPT !.no = k, !.expired = FALSE]
                   IN q \in Sessions /\ q.ended = r.ended
        BY DEF Sessions
      <4>3. sessions[n] \in Sessions /\ sessions[n].no + 1 \in Nat
        BY <1>1, <4>1 DEF Sessions
      <4>4. s \in Sessions /\ s.ended = sessions[n].ended
        BY <4>2, <4>3
      <4>5. QED
        BY <4>1, <4>4, OneSession
    <3>2. PICK c \in Calls : call' = [call EXCEPT ![w] = c] /\ Honest(c)
      <4>1. CASE Finish(w, "failed")
        BY <1>2, <4>1, FinishedIsCall DEF Finish
      <4>2. CASE call' = [call EXCEPT ![w].pc = "renewed", ![w].token = Token(n, sessions'[n].no)]
        <5> DEFINE c == [call[w] EXCEPT !.pc = "renewed", !.token = Token(n, sessions'[n].no)]
        <5>1. sessions'[n].no \in Nat
          BY <1>1, <2>1, <3>1 DEF Sessions
        <5>2. c \in Calls
          BY <1>1, <2>1, <5>1 DEF Calls, CallPcs, Tokens, Token
        <5>3. Honest(c)
          BY <1>1, <2>1 DEF Honest, Calls, Token
        <5>4. call' = [call EXCEPT ![w] = c]
          BY <1>1, <4>2
        <5>5. QED
          BY <5>2, <5>3, <5>4
      <4>3. QED
        BY <2>4, <4>1, <4>2
    <3>3. faults' \in 0 .. MaxFaults
      BY <1>1, <2>4 DEF Fault
    <3>4. call' \in [Workers -> Calls]
      BY <1>1, <3>2
    <3>5. SessionTyped'
      BY <1>1, <2>1, <3>1, <3>3, <3>4 DEF SessionTyped
    <3>6. ASSUME NEW v \in Workers PROVE Honest(call[v])'
      <4>1. Honest(call'[v])
        BY <1>1, <3>2 DEF SessionInv, CallsHonest
      <4>2. QED
        BY <1>1, <2>1, <3>1, <4>1 DEF Honest
    <3>7. QED
      BY <3>5, <3>6 DEF SessionInv, CallsHonest
  <2>5. QED
    BY <1>5, <2>2, <2>3, <2>4 DEF PostRefresh
<1>6. CASE SaveRefreshed(w)
  <2>1. UNCHANGED <<sessions, logins, faults>> /\ call[w].pc = "renewed"
    BY <1>6 DEF SaveRefreshed, On
  <2>2. CASE ~ SameLogin(w) /\ Finish(w, "changed") /\ UNCHANGED login
    BY <1>1, <1>2, <2>1, <2>2, FinishKeeps DEF session
  <2>3. CASE SameLogin(w) /\ login' = [login EXCEPT !.token = call[w].token] /\ Go(w, "retry")
    <3> DEFINE c == [call[w] EXCEPT !.pc = "retry"]
    <3>1. call' = [call EXCEPT ![w] = c] /\ c \in Calls /\ Honest(c)
      BY <1>1, <1>2, <2>1, <2>3 DEF Go, Calls, Honest
    <3>2. call' \in [Workers -> Calls]
      BY <1>1, <3>1
    <3>3. login' \in [id : Nat, token : Tokens] /\ login'.id = login.id /\ login'.token.of = login.id
      BY <1>1, <1>2, <2>1, <2>3 DEF Calls, Honest, SameLogin
    <3>4. SessionTyped'
      BY <1>1, <2>1, <3>2, <3>3 DEF SessionTyped
    <3>5. ASSUME NEW v \in Workers PROVE Honest(call[v])'
      <4>1. Honest(call'[v])
        BY <1>1, <3>1 DEF SessionInv, CallsHonest
      <4>2. QED
        BY <2>1, <4>1 DEF Honest
    <3>6. QED
      BY <3>4, <3>5 DEF SessionInv, CallsHonest
  <2>4. QED
    BY <1>6, <2>2, <2>3 DEF SaveRefreshed
<1>7. CASE Recheck(w)
  <2>1. UNCHANGED <<session, faults>> /\ call[w].pc = "retry" /\ (Go(w, "second") \/ Finish(w, "changed"))
    BY <1>7 DEF Recheck, On
  <2>2. QED
    BY <1>1, <1>2, <2>1, GoKeeps, FinishKeeps
<1>8. CASE ClearLogin(w)
  <2>1. UNCHANGED <<sessions, logins, faults>> /\ call[w].pc = "invalid" /\ (login' = LoggedOut \/ login' = login)
        /\ \E a \in {"refused", "changed"} : Finish(w, a)
    BY <1>8 DEF ClearLogin, On
  <2>2. PICK c \in Calls : call' = [call EXCEPT ![w] = c] /\ Honest(c)
    BY <1>2, <2>1, FinishedIsCall DEF Finish
  <2>3. call' \in [Workers -> Calls]
    BY <1>1, <2>2
  <2>4. SessionTyped'
    BY <1>1, <2>1, <2>3 DEF SessionTyped, LoggedOut, Token, Tokens
  <2>5. ASSUME NEW v \in Workers PROVE Honest(call[v])'
    <3>1. Honest(call'[v])
      BY <1>1, <2>2 DEF SessionInv, CallsHonest
    <3>2. QED
      BY <2>1, <3>1 DEF Honest
  <2>6. QED
    BY <2>4, <2>5 DEF SessionInv, CallsHonest
<1>9. QED
  BY <1>3, <1>4, <1>5, <1>6, <1>7, <1>8 DEF CallSteps

\* A step that leaves the login and the requests alone.
LEMMA NothingHappens ==
  ASSUME SessionInv, UNCHANGED <<session, call>>, faults' \in 0 .. MaxFaults
  PROVE  SessionInv'
BY DEF SessionInv, SessionTyped, CallsHonest, Honest, session

\* Every step of the phone and the server keeps the invariant of the session.
LEMMA SessionKept ==
  ASSUME SessionInv, Next
  PROVE  SessionInv'
<1>1. MaxFaults \in Nat /\ faults \in 0 .. MaxFaults /\ "upload" \in Workers /\ "sync" \in Workers
  BY PhoneOK DEF SessionInv, SessionTyped, Workers
<1>2. (UNCHANGED faults \/ Fault) => faults' \in 0 .. MaxFaults
  BY <1>1 DEF Fault
<1>3. {"ok", "missing", "refused", "failed"} \subseteq Answered
  BY DEF Answered
<1>4. CASE Accounts /\ UNCHANGED <<local, works, asks, cloud>>
  BY <1>4, AccountsKeep
<1>5. ASSUME NEW w \in Workers, CallSteps(w) PROVE SessionInv'
  BY <1>5, CallStepsKeep
<1>6. CASE Record \/ MarkRead \/ MarkWrite \/ MergeRow \/ FailActive \/ SnapshotRow \/ FinishFromFile \/ Delete
           \/ StartUpload \/ UploadWrites
  <2>1. UNCHANGED <<session, call, faults>>
    BY <1>6 DEF Record, MarkRead, MarkWrite, MergeRow, FailActive, SnapshotRow, FinishFromFile, Delete, StartUpload,
         UploadWrites, SyncKeeps, UploadKeeps
  <2>2. QED
    BY <1>2, <2>1, NothingHappens
<1>7. CASE DeleteRemote \/ Mining
  <2>1. UNCHANGED <<session, call>> /\ (UNCHANGED faults \/ Fault)
    BY <1>7 DEF DeleteRemote, Mining, ClaimInput, FinishInput, MiningKeeps
  <2>2. QED
    BY <1>2, <2>1, NothingHappens
<1>8. CASE RetryUpload \/ UploadReads
  BY <1>1, <1>2, <1>8, DropKeeps DEF RetryUpload, UploadReads, UploadKeeps
<1>9. CASE ListAnswered \/ FetchAnswered \/ ReplaceSync
  BY <1>1, <1>2, <1>9, DropKeeps DEF ListAnswered, FetchAnswered, ReplaceSync, SyncKeeps
<1>10. CASE BeginUpload \/ StartSync \/ BeginFetch
  BY <1>1, <1>10, BeginKeeps DEF BeginUpload, StartSync, BeginFetch, SyncKeeps, UploadKeeps
<1>11. CASE UploadArrives \/ DirectUpload
  <2>1. UNCHANGED session /\ (UNCHANGED faults \/ Fault) /\ \E a \in {"ok", "failed", "refused"} : Finish("upload", a)
    BY <1>11 DEF UploadArrives, DirectUpload, Uploaded, UploadKeeps
  <2>2. QED
    BY <1>1, <1>2, <1>3, <2>1, FinishKeeps
<1>12. CASE SyncArrives
  <2>1. UNCHANGED session /\ (UNCHANGED faults \/ Fault) /\ \E a \in {"ok", "missing", "failed"} : Finish("sync", a)
    BY <1>12 DEF SyncArrives, SyncKeeps
  <2>2. QED
    BY <1>1, <1>2, <1>3, <2>1, FinishKeeps
<1>13. CASE Die
  <2>1. UNCHANGED session /\ faults' \in 0 .. MaxFaults /\ call' = [w \in Workers |-> Idle]
    BY <1>2, <1>13 DEF Die
  <2>2. SessionTyped'
    BY <2>1, IdleIsCall DEF SessionInv, SessionTyped, session
  <2>3. ASSUME NEW w \in Workers PROVE Honest(call[w])'
    BY <2>1 DEF Honest, Idle, AtRest
  <2>4. QED
    BY <2>2, <2>3 DEF SessionInv, CallsHonest
<1>14. QED
  BY <1>4, <1>5, <1>6, <1>7, <1>8, <1>9, <1>10, <1>11, <1>12, <1>13 DEF Next, UploadSteps, SyncSteps

-----------------------------------------------------------------------------
(* The rows, the works and the server. *)

RowT == [status : Statuses, deleted : BOOLEAN]
CloudRow == [row : Statuses, audio : BOOLEAN, transcript : BOOLEAN, claim : {"none", "processing", "completed"}]
Works(pcs) == [pc : pcs, user : Users, token : Tokens, row : RowT, seen : Statuses]
UploadPcs == {"idle", "enqueued", "begin", "direct", "request", "gone", "write"}
MarkPcs == {"idle", "read", "write"}
SyncPcs == {"idle", "list", "fetch", "merge", "authFailed", "snapshot", "fromFile"}

RowsInv ==
  /\ rows \in [Users -> RowT]
  /\ \A u \in Users : rows[u].deleted => rows[u].status # "none"

\* An upload belongs to a row, carries a token of a login there was, writes one of
\* three statuses, and has a request only where it waits for one.
UploadInv ==
  /\ upload \in Works(UploadPcs) /\ upload.token.of <= logins
  /\ upload.pc # "idle" => rows[upload.user].status # "none"
  /\ upload.pc = "write" => upload.seen \in {"UPLOADING", "UPLOADED", "FAILED"}
  /\ upload.pc # "request" => call["upload"] = Idle

\* A row of the list is merged only when the list had one.
SyncInv ==
  /\ sync \in Works(SyncPcs)
  /\ sync.pc = "merge" => sync.seen # "none"
  /\ sync.pc \notin {"list", "fetch"} => call["sync"] = Idle

FlagsInv == audio \in BOOLEAN /\ cached \in BOOLEAN /\ asks \in BOOLEAN
CloudInv == cloud \in [Users -> CloudRow]
WorksInv == SessionInv /\ RowsInv /\ FlagsInv /\ UploadInv /\ mark \in Works(MarkPcs) /\ SyncInv /\ CloudInv

\* The account logged in, and the one a server finds behind a token.
LEMMA MeIsUser ==
  ASSUME SessionInv, login.id # 0
  PROVE  Me \in Users
BY PhoneOK DEF SessionInv, SessionTyped, Me, Sessions

LEMMA TokenHasUser ==
  ASSUME SessionInv, NEW t \in Tokens, t.of # 0, t.of <= logins
  PROVE  UserOf(t) \in Users
BY PhoneOK DEF SessionInv, SessionTyped, UserOf, Sessions, Tokens

LEMMA CallHasUser ==
  ASSUME SessionInv, NEW w \in Workers, Reaches(w)
  PROVE  UserOf(call[w].token) \in Users
<1>1. call[w].token \in Tokens /\ Honest(call[w]) /\ call[w].pc \notin AtRest
  BY DEF SessionInv, SessionTyped, CallsHonest, Reaches, On, AtRest, Calls
<1>2. call[w].token.of # 0 /\ call[w].token.of <= logins
  BY <1>1, PhoneOK DEF Honest, SessionInv, SessionTyped
<1>3. QED
  BY <1>1, <1>2, TokenHasUser

\* Upsert writes a row with the status, or nothing: a deleted row stays.
LEMMA UpsertRows ==
  ASSUME RowsInv, NEW u \in Users, NEW status \in Statuses \ {"none"}, Upsert(u, status)
  PROVE  /\ RowsInv'
         /\ \A v \in Users : rows[v].deleted => rows'[v].deleted
         /\ \A v \in Users : rows[v].status # "none" => rows'[v].status # "none"
         /\ \A v \in Users : rows'[v] = rows[v] \/ rows'[v] = Row(status)
BY DEF RowsInv, Upsert, Writes, Row, RowT

\* What a refetch or a merge writes is a status.
LEMMA MergedIsStatus ==
  ASSUME NEW row \in RowT, NEW remote \in Statuses \ {"none"}
  PROVE  Merged(row, remote) \in Statuses \ {"none"}
BY DEF Merged, Statuses

LEMMA RefetchedIsStatus ==
  ASSUME NEW row \in RowT, NEW answer \in Answered
  PROVE  Refetched(answer, row) \in {"COMPLETED", "PROCESSING", "FAILED", "none"}
BY DEF Refetched

\* No step takes a row away or brings a deleted one back.
LEMMA RowsKept ==
  ASSUME WorksInv, Next
  PROVE  /\ RowsInv'
         /\ \A v \in Users : rows[v].deleted => rows'[v].deleted
         /\ \A v \in Users : rows[v].status # "none" => rows'[v].status # "none"
<1>1. RowsInv /\ {"UPLOADING", "UPLOADED", "FAILED", "COMPLETED", "PROCESSING"} \subseteq Statuses \ {"none"}
  BY DEF WorksInv, Statuses
<1>2. CASE UNCHANGED rows
  BY <1>1, <1>2 DEF RowsInv
<1>3. CASE Record
  <2>1. login.id # 0 /\ rows' = [rows EXCEPT ![Me] = Row("UPLOADING")] /\ \A u \in Users : ~ rows[u].deleted
    BY <1>3 DEF Record, NoRow
  <2>2. Me \in Users
    BY <2>1, MeIsUser DEF WorksInv
  <2>3. QED
    BY <1>1, <2>1, <2>2 DEF RowsInv, Row, RowT
<1>4. CASE MarkWrite
  <2>1. mark.user \in Users
    BY DEF WorksInv, Works
  <2>2. QED
    BY <1>1, <1>4, <2>1, UpsertRows DEF MarkWrite
<1>5. CASE UploadWrites
  <2>1. upload.user \in Users /\ upload.seen \in {"UPLOADING", "UPLOADED", "FAILED"}
    BY <1>5 DEF WorksInv, UploadInv, Works, UploadWrites
  <2>2. QED
    BY <1>1, <1>5, <2>1, UpsertRows DEF UploadWrites
<1>6. CASE MergeRow
  <2>1. sync.user \in Users /\ sync.row \in RowT /\ sync.seen \in Statuses \ {"none"}
    BY <1>6 DEF WorksInv, SyncInv, Works, MergeRow
  <2>2. Merged(sync.row, sync.seen) \in Statuses \ {"none"}
    BY <2>1, MergedIsStatus
  <2>3. Upsert(sync.user, Merged(sync.row, sync.seen)) \/ UNCHANGED rows
    BY <1>6 DEF MergeRow
  <2>4. QED
    BY <1>1, <1>2, <2>1, <2>2, <2>3, UpsertRows
<1>7. CASE FailActive \/ FinishFromFile
  <2>1. sync.user \in Users
    BY DEF WorksInv, SyncInv, Works
  <2>2. Upsert(sync.user, "FAILED") \/ Upsert(sync.user, "COMPLETED") \/ UNCHANGED rows
    BY <1>7 DEF FailActive, FinishFromFile
  <2>3. QED
    BY <1>1, <1>2, <2>1, <2>2, UpsertRows
<1>8. CASE FetchAnswered
  <2> DEFINE next == Refetched(call["sync"].answer, sync.row)
  <2>1. sync.user \in Users /\ sync.row \in RowT
    BY DEF WorksInv, SyncInv, Works
  <2>2. call["sync"].answer \in Answered
    BY DEF WorksInv, SessionInv, SessionTyped, Workers, Calls
  <2>3. next \in {"COMPLETED", "PROCESSING", "FAILED", "none"}
    BY <2>1, <2>2, RefetchedIsStatus
  <2>4. IF next = "none" THEN UNCHANGED rows ELSE Upsert(sync.user, next)
    BY <1>8 DEF FetchAnswered
  <2>5. QED
    BY <1>1, <1>2, <2>1, <2>3, <2>4, UpsertRows
<1>9. CASE Delete
  <2>1. login.id # 0 /\ rows' = [rows EXCEPT ![Me].deleted = TRUE] /\ rows[Me].status # "none"
    BY <1>9 DEF Delete, Visible
  <2>2. Me \in Users
    BY <2>1, MeIsUser DEF WorksInv
  <2>3. QED
    BY <1>1, <2>1, <2>2 DEF RowsInv, RowT
<1>10. QED
  <2>1. ~ (Record \/ MarkWrite \/ UploadWrites \/ MergeRow \/ FailActive \/ FinishFromFile \/ FetchAnswered \/ Delete) =>
          UNCHANGED rows
    BY DEF Next, RetryUpload, MarkRead, UploadSteps, SyncSteps, StartUpload, BeginUpload, UploadArrives, DirectUpload,
         UploadReads, StartSync, BeginFetch, SyncArrives, ListAnswered, SnapshotRow, ReplaceSync, DeleteRemote, Die,
         Mining, ClaimInput, FinishInput, MiningKeeps, local
  <2>2. QED
    BY <1>2, <1>3, <1>4, <1>5, <1>6, <1>7, <1>8, <1>9, <2>1

\* The number of logins only grows.
LEMMA LoginsGrow ==
  ASSUME SessionInv, Next
  PROVE  logins \in Nat /\ logins' \in Nat /\ logins <= logins'
<1>1. logins \in Nat /\ MaxLogins \in Nat
  BY PhoneOK DEF SessionInv, SessionTyped
<1>2. logins' = logins \/ logins' = logins + 1
  BY DEF Next, Accounts, Login, Logout, Revoke, Expire, CallSteps, Rejected, TakeMutex, PostRefresh, SaveRefreshed, Recheck,
       ClearLogin, Record, RetryUpload, MarkRead, MarkWrite, UploadSteps, SyncSteps, StartUpload, BeginUpload, UploadArrives,
       DirectUpload, UploadReads, UploadWrites, StartSync, BeginFetch, SyncArrives, ListAnswered, MergeRow, FailActive,
       SnapshotRow, FetchAnswered, FinishFromFile, ReplaceSync, Delete, DeleteRemote, Die, Mining, ClaimInput, FinishInput,
       UploadKeeps, SyncKeeps, MiningKeeps, session
<1>3. QED
  BY <1>1, <1>2

\* A step of a request is one of a worker that has one, and of no other.
LEMMA CallStepsStay ==
  ASSUME SessionInv, NEW w \in Workers, CallSteps(w)
  PROVE  call[w] # Idle /\ \A v \in Workers : v # w => call'[v] = call[v]
<1>1. call \in [Workers -> Calls]
  BY DEF SessionInv, SessionTyped
<1>2. call[w].pc # "idle"
  BY DEF CallSteps, Rejected, TakeMutex, PostRefresh, SaveRefreshed, Recheck, ClearLogin, On
<1>3. call[w] # Idle
  BY <1>2 DEF Idle
<1>4. ASSUME NEW v \in Workers, v # w PROVE call'[v] = call[v]
  BY <1>1, <1>4 DEF CallSteps, Rejected, TakeMutex, PostRefresh, SaveRefreshed, Recheck, ClearLogin, Go, Finish
<1>5. QED
  BY <1>3, <1>4

LEMMA RestingIsWork ==
  ASSUME NEW u \in Users, NEW pcs, NEW pc \in pcs
  PROVE  [Resting(u) EXCEPT !.pc = pc] \in Works(pcs) /\ ("idle" \in pcs => Resting(u) \in Works(pcs))
         /\ [Resting(u) EXCEPT !.pc = pc].pc = pc /\ Resting(u).pc = "idle" /\ Resting(u).token.of = 0
         /\ [Resting(u) EXCEPT !.pc = pc].token.of = 0 /\ [Resting(u) EXCEPT !.pc = pc].user = u
BY DEF Resting, Works, Token, Tokens, RowT, NoRow, Statuses

\* The work enqueued for the account of the moment.
LEMMA EnqueuedIsWork ==
  ASSUME SessionInv, login.id # 0
  PROVE  Enqueued \in Works(UploadPcs) /\ Enqueued.token.of <= logins /\ Enqueued.user = Me /\ Enqueued.pc = "enqueued"
<1>1. Me \in Users /\ login.token \in Tokens /\ login.token.of <= logins
  BY MeIsUser, PhoneOK DEF SessionInv, SessionTyped
<1>2. QED
  BY <1>1 DEF Enqueued, Resting, Works, UploadPcs, Tokens, RowT, NoRow, Statuses

\* What replaces the upload's state keeps its invariant.
LEMMA UploadBecomes ==
  ASSUME WorksInv, Next, upload' \in Works(UploadPcs), upload'.token.of <= logins,
         upload'.pc # "idle" => rows'[upload'.user].status # "none",
         upload'.pc = "write" => upload'.seen \in {"UPLOADING", "UPLOADED", "FAILED"},
         upload'.pc # "request" => call'["upload"] = Idle
  PROVE  UploadInv'
<1>1. logins \in Nat /\ logins' \in Nat /\ logins <= logins' /\ upload'.token.of \in Nat
  BY LoginsGrow DEF WorksInv, Works, Tokens
<1>2. QED
  BY <1>1 DEF UploadInv

\* The upload goes on with the same account, token and row.
LEMMA UploadGoesOn ==
  ASSUME WorksInv, Next, upload.pc # "idle", NEW pc \in UploadPcs \ {"idle"}, NEW seen \in Statuses,
         upload' = [upload EXCEPT !.pc = pc, !.seen = seen],
         pc = "write" => seen \in {"UPLOADING", "UPLOADED", "FAILED"},
         pc # "request" => call'["upload"] = Idle
  PROVE  UploadInv'
<1>1. upload \in Works(UploadPcs) /\ upload.token.of <= logins /\ upload.user \in Users /\ rows[upload.user].status # "none"
  BY DEF WorksInv, UploadInv, Works
<1>2. upload' \in Works(UploadPcs) /\ upload'.pc = pc /\ upload'.seen = seen /\ upload'.token = upload.token
      /\ upload'.user = upload.user
  BY <1>1 DEF Works
<1>3. rows'[upload.user].status # "none"
  BY <1>1, RowsKept
<1>4. QED
  BY <1>1, <1>2, <1>3, UploadBecomes

LEMMA UploadRests ==
  ASSUME WorksInv, Next, upload' = Resting(Someone), call'["upload"] = Idle
  PROVE  UploadInv'
<1>1. upload' \in Works(UploadPcs) /\ upload'.pc = "idle" /\ upload'.token.of = 0
  BY SomeoneIsUser, RestingIsWork DEF UploadPcs
<1>2. logins \in Nat
  BY LoginsGrow DEF WorksInv
<1>3. QED
  BY <1>1, <1>2, UploadBecomes

LEMMA UploadStays ==
  ASSUME WorksInv, Next, UNCHANGED upload, upload.pc = "request" \/ call'["upload"] = call["upload"]
  PROVE  UploadInv'
<1>1. UploadInv /\ upload.user \in Users
  BY DEF WorksInv, UploadInv, Works
<1>2. upload.pc # "idle" => rows'[upload.user].status # "none"
  BY <1>1, RowsKept DEF UploadInv
<1>3. QED
  BY <1>1, <1>2, UploadBecomes DEF UploadInv

LEMMA UploadKept ==
  ASSUME WorksInv, Next
  PROVE  UploadInv'
<1>1. call \in [Workers -> Calls] /\ "upload" \in Workers /\ "sync" \in Workers /\ upload \in Works(UploadPcs)
  BY DEF WorksInv, SessionInv, SessionTyped, UploadInv, Workers
<1>2. upload.pc # "request" => call["upload"] = Idle
  BY DEF WorksInv, UploadInv
<1>3. upload.seen \in Statuses /\ upload = [upload EXCEPT !.seen = upload.seen]
      /\ \A pc : [upload EXCEPT !.pc = pc] = [upload EXCEPT !.pc = pc, !.seen = upload.seen]
  BY <1>1 DEF Works
<1>4. CASE Record \/ RetryUpload
  <2>1. login.id # 0 /\ upload' = Enqueued
    BY <1>4 DEF Record, RetryUpload
  <2>2. Me \in Users
    BY <2>1, MeIsUser DEF WorksInv
  <2>3. rows'[Me].status # "none"
    <3>1. CASE Record
      BY <2>2, <3>1 DEF Record, Row, WorksInv, RowsInv
    <3>2. CASE RetryUpload
      BY <3>2 DEF RetryUpload, local
    <3>3. QED
      BY <1>4, <3>1, <3>2
  <2>4. call'["upload"] = Idle
    <3>1. CASE Record
      <4>1. \A u \in Users : rows[u].status = "none"
        BY <3>1 DEF Record, NoRow
      <4>2. upload.user \in Users
        BY <1>1 DEF Works
      <4>3. upload.pc = "idle"
        BY <4>1, <4>2 DEF WorksInv, UploadInv
      <4>4. QED
        BY <1>2, <3>1, <4>3 DEF Record
    <3>2. CASE RetryUpload
      BY <1>1, <3>2 DEF RetryUpload
    <3>3. QED
      BY <1>4, <3>1, <3>2
  <2>5. QED
    BY <2>1, <2>3, <2>4, EnqueuedIsWork, UploadBecomes DEF WorksInv
<1>5. CASE StartUpload
  <2>1. upload.pc = "enqueued" /\ call' = call
    BY <1>5 DEF StartUpload
  <2>2. PICK pc \in {"gone", "begin", "direct"} : upload' = [upload EXCEPT !.pc = pc]
    BY <1>5 DEF StartUpload, UploadTo
  <2>3. pc \in UploadPcs \ {"idle"} /\ pc # "write" /\ pc # "request" /\ call'["upload"] = Idle
    BY <1>2, <2>1 DEF UploadPcs
  <2>4. upload' = [upload EXCEPT !.pc = pc, !.seen = upload.seen]
    BY <1>3, <2>2
  <2>5. QED
    BY <1>3, <2>1, <2>3, <2>4, UploadGoesOn
<1>6. CASE BeginUpload \/ DirectUpload
  <2>1. upload.pc # "idle" /\ upload' = [upload EXCEPT !.pc = "request"] /\ "request" \in UploadPcs \ {"idle", "write"}
    BY <1>6 DEF BeginUpload, DirectUpload, UploadTo, UploadPcs
  <2>2. QED
    BY <1>3, <2>1, UploadGoesOn
<1>7. CASE UploadReads
  <2>1. upload.pc # "idle" /\ call'["upload"] = Idle
    BY <1>1, <1>7 DEF UploadReads
  <2>2. PICK status \in {"UPLOADING", "UPLOADED", "FAILED"} :
          upload' \in {[upload EXCEPT !.pc = "write", !.seen = status], Resting(Someone), [upload EXCEPT !.pc = "enqueued"]}
    BY <1>7 DEF UploadReads, StatusOf
  <2>3. {"write", "enqueued"} \subseteq UploadPcs \ {"idle", "request"} /\ status \in Statuses
    BY DEF UploadPcs, Statuses
  <2>4. CASE upload' = [upload EXCEPT !.pc = "write", !.seen = status]
    BY <2>1, <2>3, <2>4, UploadGoesOn
  <2>5. CASE upload' = [upload EXCEPT !.pc = "enqueued"]
    BY <1>3, <2>1, <2>3, <2>5, UploadGoesOn
  <2>6. QED
    BY <2>1, <2>2, <2>4, <2>5, UploadRests
<1>8. CASE UploadWrites
  <2>1. upload.pc = "write" /\ call'["upload"] = Idle
        /\ upload' \in {Resting(Someone), [upload EXCEPT !.pc = "enqueued", !.seen = "none"]}
    BY <1>2, <1>8 DEF UploadWrites
  <2>2. "enqueued" \in UploadPcs \ {"idle"} /\ "none" \in Statuses
    BY DEF UploadPcs, Statuses
  <2>3. QED
    BY <2>1, <2>2, UploadGoesOn, UploadRests
<1>9. CASE Die
  <2>1. call'["upload"] = Idle
    BY <1>1, <1>9 DEF Die
  <2>2. "enqueued" \in UploadPcs \ {"idle"} /\ "none" \in Statuses
    BY DEF UploadPcs, Statuses
  <2>3. CASE upload.pc = "idle"
    BY <1>2, <1>9, <2>1, <2>3, UploadStays DEF Die
  <2>4. CASE upload.pc # "idle"
    BY <1>9, <2>1, <2>2, <2>4, UploadGoesOn DEF Die
  <2>5. QED
    BY <2>3, <2>4
<1>10. ASSUME NEW w \in Workers, CallSteps(w), UNCHANGED works PROVE UploadInv'
  <2>1. call[w] # Idle /\ \A v \in Workers : v # w => call'[v] = call[v]
    BY <1>10, CallStepsStay DEF WorksInv
  <2>2. QED
    BY <1>1, <1>2, <1>10, <2>1, UploadStays DEF works
<1>11. CASE UploadArrives
  BY <1>11, UploadStays DEF UploadArrives
<1>12. CASE \/ Accounts /\ UNCHANGED works
            \/ MarkRead \/ MarkWrite \/ SyncSteps \/ ReplaceSync \/ Delete \/ DeleteRemote \/ Mining
  <2>1. UNCHANGED upload
    BY <1>12 DEF MarkRead, MarkWrite, SyncSteps, ReplaceSync, Delete, DeleteRemote, Mining, StartSync, BeginFetch, SyncArrives,
         ListAnswered, MergeRow, FailActive, SnapshotRow, FetchAnswered, FinishFromFile, SyncKeeps, ClaimInput, FinishInput,
         MiningKeeps, works
  <2>2. call'["upload"] = call["upload"]
    <3>1. CASE Accounts
      BY <3>1 DEF Accounts, Login, Logout, Revoke, Expire
    <3>2. CASE MarkRead \/ MarkWrite \/ Delete \/ DeleteRemote \/ Mining
      BY <3>2 DEF MarkRead, MarkWrite, Delete, DeleteRemote, Mining, ClaimInput, FinishInput, MiningKeeps
    <3>3. CASE SyncSteps \/ ReplaceSync
      <4>1. UNCHANGED call \/ \E c : call' = [call EXCEPT !["sync"] = c]
        BY <3>3 DEF SyncSteps, ReplaceSync, StartSync, BeginFetch, SyncArrives, ListAnswered, MergeRow, FailActive,
             SnapshotRow, FetchAnswered, FinishFromFile, Begin, Finish
      <4>2. QED
        BY <1>1, <4>1
    <3>4. QED
      BY <1>12, <3>1, <3>2, <3>3
  <2>3. QED
    BY <2>1, <2>2, UploadStays
<1>13. QED
  BY <1>4, <1>5, <1>6, <1>7, <1>8, <1>9, <1>10, <1>11, <1>12 DEF Next, UploadSteps

LEMMA MarkKept ==
  ASSUME WorksInv, Next
  PROVE  mark' \in Works(MarkPcs)
<1>1. mark \in Works(MarkPcs) /\ {"idle", "read", "write"} \subseteq MarkPcs
  BY DEF WorksInv, MarkPcs
<1>2. Resting(Someone) \in Works(MarkPcs)
  BY <1>1, SomeoneIsUser, RestingIsWork
<1>3. CASE Record \/ RetryUpload
  <2>1. login.id # 0 /\ mark' = Marking
    BY <1>3 DEF Record, RetryUpload
  <2>2. Me \in Users
    BY <2>1, MeIsUser DEF WorksInv
  <2>3. QED
    BY <1>1, <2>1, <2>2, RestingIsWork DEF Marking
<1>4. CASE MarkRead
  BY <1>1, <1>2, <1>4 DEF MarkRead, Works
<1>5. CASE MarkWrite \/ Die
  BY <1>2, <1>5 DEF MarkWrite, Die
<1>6. CASE ~ (Record \/ RetryUpload \/ MarkRead \/ MarkWrite \/ Die)
  <2>1. UNCHANGED mark
    BY <1>6 DEF Next, UploadSteps, SyncSteps, StartUpload, BeginUpload, UploadArrives, DirectUpload, UploadReads, UploadWrites,
         StartSync, BeginFetch, SyncArrives, ListAnswered, MergeRow, FailActive, SnapshotRow, FetchAnswered, FinishFromFile,
         ReplaceSync, Delete, DeleteRemote, Mining, ClaimInput, FinishInput, UploadKeeps, SyncKeeps, MiningKeeps, works
  <2>2. QED
    BY <1>1, <2>1
<1>7. QED
  BY <1>3, <1>4, <1>5, <1>6

LEMMA FlagsKept ==
  ASSUME WorksInv, Next
  PROVE  FlagsInv'
<1>1. CASE Record \/ FetchAnswered \/ Delete \/ DeleteRemote \/ Die
  BY <1>1 DEF WorksInv, FlagsInv, Record, FetchAnswered, Delete, DeleteRemote, Die, SyncKeeps, local
<1>2. CASE ~ (Record \/ FetchAnswered \/ Delete \/ DeleteRemote \/ Die)
  <2>1. UNCHANGED <<audio, cached, asks>>
    BY <1>2 DEF Next, RetryUpload, MarkRead, MarkWrite, UploadSteps, SyncSteps, StartUpload, BeginUpload, UploadArrives,
         DirectUpload, UploadReads, UploadWrites, StartSync, BeginFetch, SyncArrives, ListAnswered, MergeRow, FailActive,
         SnapshotRow, FinishFromFile, ReplaceSync, Mining, ClaimInput, FinishInput, UploadKeeps, SyncKeeps, MiningKeeps, local
  <2>2. QED
    BY <2>1 DEF WorksInv, FlagsInv
<1>3. QED
  BY <1>1, <1>2

\* What the server does with an upload.
LEMMA UploadedKeeps ==
  ASSUME CloudInv, NEW v \in Users, NEW a, Uploaded(v, a)
  PROVE  CloudInv' /\ (UNCHANGED cloud \/ cloud'[v].audio)
         /\ (a # "failed" => cloud'[v].audio)
<1>1. cloud \in [Users -> CloudRow]
  BY DEF CloudInv
<1>2. CASE Put(v) /\ a \in {"ok", "failed"}
  <2> DEFINE c == [cloud[v] EXCEPT !.audio = TRUE, !.row = "UPLOADED"]
  <2>1. c \in CloudRow /\ c.audio
    BY <1>1 DEF CloudRow, Statuses
  <2>2. cloud' = [cloud EXCEPT ![v] = c]
    BY <1>1, <1>2 DEF Put
  <2>3. CloudInv' /\ cloud'[v].audio
    BY <1>1, <2>1, <2>2 DEF CloudInv
  <2>4. QED
    BY <2>3
<1>3. CASE cloud' = [cloud EXCEPT ![v].audio = TRUE] /\ a = "failed"
  BY <1>1, <1>3 DEF CloudInv, CloudRow
<1>4. CASE UNCHANGED cloud /\ a = "failed"
  BY <1>1, <1>4 DEF CloudInv
<1>5. QED
  BY <1>2, <1>3, <1>4 DEF Uploaded

LEMMA CloudKept ==
  ASSUME WorksInv, Next
  PROVE  CloudInv'
<1>1. cloud \in [Users -> CloudRow] /\ CloudInv
  BY DEF WorksInv, CloudInv
<1>2. CASE UploadArrives
  <2>1. UserOf(call["upload"].token) \in Users
    BY <1>2, CallHasUser DEF WorksInv, UploadArrives, Workers
  <2>2. QED
    BY <1>1, <1>2, <2>1, UploadedKeeps DEF UploadArrives
<1>3. CASE DirectUpload
  <2>1. CASE UNCHANGED cloud
    BY <1>1, <2>1 DEF CloudInv
  <2>2. CASE Accepts(upload.token) /\ \E a : Uploaded(UserOf(upload.token), a)
    <3>1. UserOf(upload.token) \in Users
      BY <2>2, TokenHasUser DEF WorksInv, UploadInv, Works, Accepts
    <3>2. QED
      BY <1>1, <2>2, <3>1, UploadedKeeps
  <2>3. QED
    BY <1>3, <2>1, <2>2 DEF DirectUpload
<1>4. CASE DeleteRemote
  <2>1. CASE UNCHANGED cloud
    BY <1>1, <2>1 DEF CloudInv
  <2>2. CASE Valid /\ cloud' = [cloud EXCEPT ![Me] = [Nothing EXCEPT !.claim = cloud[Me].claim]]
    <3>1. Me \in Users
      BY <2>2, MeIsUser DEF WorksInv, Valid
    <3>2. [Nothing EXCEPT !.claim = cloud[Me].claim] \in CloudRow
      BY <1>1, <3>1 DEF CloudRow, Nothing, Statuses
    <3>3. QED
      BY <1>1, <2>2, <3>1, <3>2 DEF CloudInv
  <2>3. QED
    BY <1>4, <2>1, <2>2 DEF DeleteRemote
<1>5. ASSUME NEW v \in Users, ClaimInput(v) \/ FinishInput(v) PROVE CloudInv'
  <2>1. Reported(v, "PROCESSING") \in Statuses /\ Reported(v, "COMPLETED") \in Statuses /\ cloud[v].row \in Statuses
    BY <1>1 DEF Reported, Statuses, CloudRow
  <2>2. CASE ClaimInput(v)
    <3> DEFINE c == [cloud[v] EXCEPT !.claim = "processing", !.row = Reported(v, "PROCESSING")]
    <3>1. c \in CloudRow
      BY <1>1, <2>1 DEF CloudRow
    <3>2. cloud' = [cloud EXCEPT ![v] = c]
      BY <1>1, <2>2 DEF ClaimInput
    <3>3. QED
      BY <1>1, <3>1, <3>2 DEF CloudInv
  <2>3. CASE FinishInput(v)
    <3>1. PICK status \in {Reported(v, "COMPLETED"), cloud[v].row} :
            cloud' = [cloud EXCEPT ![v] = [row |-> status, audio |-> FALSE, transcript |-> TRUE, claim |-> "completed"]]
      BY <2>3 DEF FinishInput
    <3>2. [row |-> status, audio |-> FALSE, transcript |-> TRUE, claim |-> "completed"] \in CloudRow
      BY <2>1 DEF CloudRow
    <3>3. QED
      BY <1>1, <3>1, <3>2 DEF CloudInv
  <2>4. QED
    BY <1>5, <2>2, <2>3
<1>6. CASE ~ (UploadArrives \/ DirectUpload \/ DeleteRemote \/ Mining)
  <2>1. UNCHANGED cloud
    BY <1>6 DEF Next, Record, RetryUpload, MarkRead, MarkWrite, UploadSteps, SyncSteps, StartUpload, BeginUpload, UploadReads,
         UploadWrites, StartSync, BeginFetch, SyncArrives, ListAnswered, MergeRow, FailActive, SnapshotRow, FetchAnswered,
         FinishFromFile, ReplaceSync, Delete, Die, SyncKeeps
  <2>2. QED
    BY <1>1, <2>1 DEF CloudInv
<1>7. QED
  BY <1>2, <1>3, <1>4, <1>5, <1>6 DEF Mining

-----------------------------------------------------------------------------
(* The sync. *)

\* A sync that starts, rests or looks at the stored rows next.
LEMMA SyncRests ==
  ASSUME NEW u \in Users, NEW pc \in SyncPcs, sync' = Resting(u) \/ sync' = [Resting(u) EXCEPT !.pc = pc],
         pc # "merge", call'["sync"] = Idle \/ (pc \in {"list", "fetch"} /\ sync' = [Resting(u) EXCEPT !.pc = pc])
  PROVE  SyncInv'
<1>1. sync' \in Works(SyncPcs) /\ sync'.pc \in {"idle", pc}
  <2>1. "idle" \in SyncPcs
    BY DEF SyncPcs
  <2>2. Resting(u) \in Works(SyncPcs) /\ Resting(u).pc = "idle"
    BY <2>1, RestingIsWork
  <2>3. [Resting(u) EXCEPT !.pc = pc] \in Works(SyncPcs) /\ [Resting(u) EXCEPT !.pc = pc].pc = pc
    BY RestingIsWork
  <2>4. QED
    BY <2>2, <2>3
<1>2. sync' = [Resting(u) EXCEPT !.pc = pc] => sync'.pc = pc
  BY RestingIsWork
<1>3. QED
  BY <1>1, <1>2 DEF SyncInv

LEMMA SyncStays ==
  ASSUME SyncInv, UNCHANGED sync, sync.pc \in {"list", "fetch"} \/ call'["sync"] = call["sync"]
  PROVE  SyncInv'
BY DEF SyncInv

LEMMA SyncKept ==
  ASSUME WorksInv, Next
  PROVE  SyncInv'
<1>1. call \in [Workers -> Calls] /\ "upload" \in Workers /\ "sync" \in Workers /\ sync \in Works(SyncPcs)
  BY DEF WorksInv, SessionInv, SessionTyped, SyncInv, Workers
<1>2. SyncInv /\ sync.user \in Users /\ Someone \in Users /\ (sync.pc \notin {"list", "fetch"} => call["sync"] = Idle)
  BY <1>1, SomeoneIsUser DEF WorksInv, SyncInv, Works
<1>3. {"idle", "list", "fetch", "snapshot", "authFailed", "merge", "fromFile"} = SyncPcs
  BY DEF SyncPcs
<1>4. rows \in [Users -> RowT]
  BY DEF WorksInv, RowsInv
<1>5. CASE StartSync
  <2>1. login.id # 0 /\ sync' = [Resting(Me) EXCEPT !.pc = "list"]
    BY <1>5 DEF StartSync
  <2>2. Me \in Users
    BY <2>1, MeIsUser DEF WorksInv
  <2>3. QED
    BY <1>3, <2>1, <2>2, SyncRests
<1>6. CASE BeginFetch
  BY <1>2, <1>6, SyncStays DEF BeginFetch
<1>7. CASE SyncArrives
  <2>1. CASE UNCHANGED sync
    BY <1>2, <1>7, <2>1, SyncStays DEF SyncArrives
  <2>2. CASE sync.pc = "list" /\ sync' = [sync EXCEPT !.seen = cloud[UserOf(call["sync"].token)].row]
    <3>1. UserOf(call["sync"].token) \in Users
      BY <1>1, <1>7, CallHasUser DEF WorksInv, SyncArrives
    <3>2. cloud[UserOf(call["sync"].token)].row \in Statuses
      BY <3>1 DEF WorksInv, CloudInv, CloudRow
    <3>3. QED
      BY <1>1, <2>2, <3>2 DEF SyncInv, Works
  <2>3. QED
    BY <1>7, <2>1, <2>2 DEF SyncArrives
<1>8. CASE ListAnswered
  <2>1. call'["sync"] = Idle
    BY <1>1, <1>8 DEF ListAnswered
  <2> DEFINE row == rows[sync.user]
  <2>2. row \in RowT
    BY <1>2, <1>4
  <2>3. \/ ~ Skips(row) /\ sync' = [sync EXCEPT !.row = row, !.pc = "merge"]
        \/ sync' = [sync EXCEPT !.pc = "authFailed"]
        \/ sync' = Resting(Someone)
        \/ sync' = [Resting(sync.user) EXCEPT !.pc = "snapshot"]
    BY <1>8 DEF ListAnswered
  <2>4. CASE ~ Skips(row) /\ sync' = [sync EXCEPT !.row = row, !.pc = "merge"]
    <3>1. sync.seen # "none"
      BY <2>4 DEF Skips
    <3>2. QED
      BY <1>1, <2>1, <2>2, <2>4, <3>1 DEF SyncInv, Works, SyncPcs
  <2>5. CASE sync' = [sync EXCEPT !.pc = "authFailed"]
    BY <1>1, <2>1, <2>5 DEF SyncInv, Works, SyncPcs
  <2>6. QED
    BY <1>2, <1>3, <2>1, <2>3, <2>4, <2>5, SyncRests
<1>9. CASE MergeRow
  BY <1>2, <1>3, <1>9, SyncRests DEF MergeRow
<1>10. CASE FailActive \/ FinishFromFile
  BY <1>2, <1>3, <1>10, SyncRests DEF FailActive, FinishFromFile, SyncEnds
<1>11. CASE FetchAnswered \/ ReplaceSync
  <2>1. call'["sync"] = Idle /\ sync' = Resting(Someone)
    BY <1>1, <1>11 DEF FetchAnswered, ReplaceSync, SyncEnds
  <2>2. QED
    BY <1>2, <1>3, <2>1, SyncRests
<1>12. CASE SnapshotRow
  <2>1. call'["sync"] = Idle
    BY <1>2, <1>12 DEF SnapshotRow
  <2>2. CASE sync' = Resting(Someone)
    BY <1>2, <1>3, <2>1, <2>2, SyncRests
  <2>3. CASE \E pc \in {"fetch", "fromFile"} : sync' = [sync EXCEPT !.row = rows[sync.user], !.pc = pc]
    <3>1. rows[sync.user] \in RowT
      BY <1>2, <1>4
    <3>2. QED
      BY <1>1, <2>1, <2>3, <3>1 DEF SyncInv, Works, SyncPcs
  <2>4. QED
    BY <1>12, <2>2, <2>3 DEF SnapshotRow, SyncEnds
<1>13. CASE Die
  <2>1. call'["sync"] = Idle /\ sync' = Resting(Someone)
    BY <1>1, <1>13 DEF Die
  <2>2. QED
    BY <1>2, <1>3, <2>1, SyncRests
<1>14. ASSUME NEW w \in Workers, CallSteps(w), UNCHANGED works PROVE SyncInv'
  <2>1. call[w] # Idle /\ \A v \in Workers : v # w => call'[v] = call[v]
    BY <1>14, CallStepsStay DEF WorksInv
  <2>2. QED
    BY <1>1, <1>2, <1>14, <2>1, SyncStays DEF works
<1>15. CASE \/ Accounts /\ UNCHANGED works
            \/ Record \/ RetryUpload \/ MarkRead \/ MarkWrite \/ UploadSteps \/ Delete \/ DeleteRemote \/ Mining
  <2>1. UNCHANGED sync
    BY <1>15 DEF Record, RetryUpload, MarkRead, MarkWrite, UploadSteps, Delete, DeleteRemote, Mining, StartUpload, BeginUpload,
         UploadArrives, DirectUpload, UploadReads, UploadWrites, UploadKeeps, ClaimInput, FinishInput, MiningKeeps, works
  <2>2. UNCHANGED call \/ \E c : call' = [call EXCEPT !["upload"] = c]
    <3>1. CASE Accounts
      BY <3>1 DEF Accounts, Login, Logout, Revoke, Expire
    <3>2. CASE Record \/ RetryUpload \/ MarkRead \/ MarkWrite \/ Delete \/ DeleteRemote \/ Mining
      BY <3>2 DEF Record, RetryUpload, MarkRead, MarkWrite, Delete, DeleteRemote, Mining, ClaimInput, FinishInput, MiningKeeps
    <3>3. CASE UploadSteps
      BY <3>3 DEF UploadSteps, StartUpload, BeginUpload, UploadArrives, DirectUpload, UploadReads, UploadWrites, Begin, Finish
    <3>4. QED
      BY <1>15, <3>1, <3>2, <3>3
  <2>3. QED
    BY <1>1, <1>2, <2>1, <2>2, SyncStays
<1>16. QED
  BY <1>5, <1>6, <1>7, <1>8, <1>9, <1>10, <1>11, <1>12, <1>13, <1>14, <1>15 DEF Next, SyncSteps

-----------------------------------------------------------------------------
(* What the phone shows is stored at the server. *)

Deletions == \E v \in Users : rows[v].deleted

\* The server has the recording, or has had it until a deletion.
Stored == \E v \in Users : cloud[v].audio \/ cloud[v].claim # "none" \/ rows[v].deleted

Shown(u) == rows[u].status \in {"UPLOADED", "COMPLETED"}

\* Nothing has arrived at the server, and nothing on the phone says it has.
NothingYet ==
  /\ \A v \in Users : cloud[v].row = "none" /\ ~ cloud[v].transcript
  /\ \A u \in Users : ~ Shown(u)
  /\ upload.seen # "UPLOADED" /\ call["upload"].answer # "ok"
  /\ sync.seen = "none" /\ ~ cached /\ sync.pc # "fromFile"
  /\ sync.pc = "fetch" => call["sync"].answer # "ok"

StoredInv == (asks => Deletions) /\ (Stored \/ NothingYet)

\* The server gives up the audio only for the transcript's claim, or for a deletion.
LEMMA CloudGrows ==
  ASSUME WorksInv, Next, NEW v \in Users
  PROVE  /\ cloud[v].claim # "none" => cloud'[v].claim # "none"
         /\ cloud[v].audio => cloud'[v].audio \/ cloud'[v].claim # "none" \/ asks
<1>1. cloud \in [Users -> CloudRow]
  BY DEF WorksInv, CloudInv
<1>2. CASE UNCHANGED cloud
  BY <1>2
<1>3. CASE UploadArrives \/ DirectUpload
  <2>1. UNCHANGED cloud \/ \E u, a : Uploaded(u, a)
    BY <1>3 DEF UploadArrives, DirectUpload
  <2>2. CASE \E u, a : Uploaded(u, a)
    <3>1. PICK u : \/ UNCHANGED cloud
                   \/ cloud' = [cloud EXCEPT ![u].audio = TRUE]
                   \/ cloud' = [cloud EXCEPT ![u].audio = TRUE, ![u].row = "UPLOADED"]
      BY <2>2 DEF Uploaded, Put
    <3>2. CASE cloud' = [cloud EXCEPT ![u].audio = TRUE]
      BY <1>1, <3>2 DEF CloudRow
    <3>3. CASE cloud' = [cloud EXCEPT ![u].audio = TRUE, ![u].row = "UPLOADED"]
      BY <1>1, <3>3 DEF CloudRow
    <3>4. QED
      BY <1>2, <3>1, <3>2, <3>3
  <2>3. QED
    BY <1>2, <2>1, <2>2
<1>4. CASE DeleteRemote
  <2>1. asks
    BY <1>4 DEF DeleteRemote
  <2>2. CASE Valid /\ cloud' = [cloud EXCEPT ![Me] = [Nothing EXCEPT !.claim = cloud[Me].claim]]
    BY <1>1, <2>1, <2>2 DEF Nothing
  <2>3. QED
    BY <1>2, <1>4, <2>2 DEF DeleteRemote
<1>5. CASE Mining
  <2>1. PICK u \in Users : ClaimInput(u) \/ FinishInput(u)
    BY <1>5 DEF Mining
  <2>2. CASE ClaimInput(u)
    <3>1. cloud' = [cloud EXCEPT ![u].claim = "processing", ![u].row = Reported(u, "PROCESSING")]
      BY <2>2 DEF ClaimInput
    <3>2. QED
      BY <1>1, <3>1 DEF CloudRow
  <2>3. CASE FinishInput(u)
    <3>1. PICK status : cloud' = [cloud EXCEPT ![u] = [row |-> status, audio |-> FALSE, transcript |-> TRUE, claim |-> "completed"]]
      BY <2>3 DEF FinishInput
    <3>2. QED
      BY <1>1, <3>1
  <2>4. QED
    BY <2>1, <2>2, <2>3
<1>6. CASE ~ (UploadArrives \/ DirectUpload \/ DeleteRemote \/ Mining)
  <2>1. UNCHANGED cloud
    BY <1>6 DEF Next, Record, RetryUpload, MarkRead, MarkWrite, UploadSteps, SyncSteps, StartUpload, BeginUpload, UploadReads,
         UploadWrites, StartSync, BeginFetch, SyncArrives, ListAnswered, MergeRow, FailActive, SnapshotRow, FetchAnswered,
         FinishFromFile, ReplaceSync, Delete, Die, SyncKeeps
  <2>2. QED
    BY <1>2, <2>1
<1>7. QED
  BY <1>3, <1>4, <1>5, <1>6

\* What is stored stays stored.
LEMMA StoredKept ==
  ASSUME WorksInv, Next, asks => Deletions, Stored
  PROVE  Stored'
<1>1. ASSUME NEW v \in Users, rows[v].deleted PROVE Stored'
  BY <1>1, RowsKept DEF Stored
<1>2. asks => Stored'
  BY <1>1 DEF Deletions
<1>3. PICK v \in Users : cloud[v].audio \/ cloud[v].claim # "none" \/ rows[v].deleted
  BY DEF Stored
<1>4. QED
  BY <1>1, <1>2, <1>3, CloudGrows DEF Stored

\* The server is asked for a deletion only after one.
LEMMA DeletionsKept ==
  ASSUME WorksInv, Next, asks => Deletions
  PROVE  asks' => Deletions'
<1>1. Deletions => Deletions'
  BY RowsKept DEF Deletions
<1>2. CASE Delete
  <2>1. login.id # 0 /\ rows' = [rows EXCEPT ![Me].deleted = TRUE]
    BY <1>2 DEF Delete
  <2>2. Me \in Users
    BY <2>1, MeIsUser DEF WorksInv
  <2>3. rows'[Me].deleted
    BY <2>1, <2>2 DEF WorksInv, RowsInv, RowT
  <2>4. QED
    BY <2>2, <2>3 DEF Deletions
<1>3. CASE ~ Delete
  <2>1. UNCHANGED asks \/ ~ asks'
    BY <1>3 DEF Next, Record, RetryUpload, MarkRead, MarkWrite, UploadSteps, SyncSteps, StartUpload, BeginUpload, UploadArrives,
         DirectUpload, UploadReads, UploadWrites, StartSync, BeginFetch, SyncArrives, ListAnswered, MergeRow, FailActive,
         SnapshotRow, FetchAnswered, FinishFromFile, ReplaceSync, DeleteRemote, Die, Mining, ClaimInput, FinishInput,
         UploadKeeps, SyncKeeps, MiningKeeps
  <2>2. QED
    BY <1>1, <2>1
<1>4. QED
  BY <1>2, <1>3

\* Until something is stored the server keeps what it has, and an upload that
\* ends has failed or was refused.
LEMMA NothingArrives ==
  ASSUME WorksInv, Next, asks => Deletions, ~ Stored, ~ Stored'
  PROVE  /\ UNCHANGED cloud /\ ~ asks /\ ~ Delete
         /\ UploadArrives \/ DirectUpload => \E a \in {"failed", "refused"} : Finish("upload", a)
<1>1. ~ asks /\ \A v \in Users : ~ cloud[v].audio /\ cloud[v].claim = "none"
  BY DEF Stored, Deletions
<1>2. \A v \in Users : ~ cloud'[v].audio /\ ~ rows'[v].deleted
  BY DEF Stored
<1>3. CloudInv
  BY DEF WorksInv
<1>4. ~ Delete
  <2>1. SUFFICES ASSUME Delete PROVE FALSE
    OBVIOUS
  <2>2. login.id # 0 /\ rows' = [rows EXCEPT ![Me].deleted = TRUE]
    BY <2>1 DEF Delete
  <2>3. Me \in Users
    BY <2>2, MeIsUser DEF WorksInv
  <2>4. QED
    BY <1>2, <2>2, <2>3 DEF WorksInv, RowsInv, RowT
<1>5. CASE UploadArrives
  <2> DEFINE v == UserOf(call["upload"].token)
  <2>1. v \in Users
    BY <1>5, CallHasUser DEF WorksInv, UploadArrives, Workers
  <2>2. PICK a \in {"ok", "failed"} : Uploaded(v, a) /\ Finish("upload", a)
    BY <1>5 DEF UploadArrives
  <2>3. UNCHANGED cloud /\ a = "failed"
    BY <1>2, <1>3, <2>1, <2>2, UploadedKeeps
  <2>4. QED
    BY <1>1, <1>4, <2>2, <2>3
<1>6. CASE DirectUpload
  <2>1. CASE Finish("upload", "refused") /\ UNCHANGED cloud
    BY <1>1, <1>4, <2>1
  <2>2. CASE Accepts(upload.token) /\ \E a \in {"ok", "failed"} : Uploaded(UserOf(upload.token), a) /\ Finish("upload", a)
    <3>1. UserOf(upload.token) \in Users
      BY <2>2, TokenHasUser DEF WorksInv, UploadInv, Works, Accepts
    <3>2. PICK a \in {"ok", "failed"} : Uploaded(UserOf(upload.token), a) /\ Finish("upload", a)
      BY <2>2
    <3>3. UNCHANGED cloud /\ a = "failed"
      BY <1>2, <1>3, <3>1, <3>2, UploadedKeeps
    <3>4. QED
      BY <1>1, <1>4, <3>2, <3>3
  <2>3. QED
    BY <1>6, <2>1, <2>2 DEF DirectUpload
<1>7. CASE ~ (UploadArrives \/ DirectUpload)
  <2>1. ~ DeleteRemote /\ ~ Mining
    BY <1>1 DEF DeleteRemote, Mining, ClaimInput, FinishInput
  <2>2. UNCHANGED cloud
    BY <1>7, <2>1 DEF Next, Accounts, Record, RetryUpload, MarkRead, MarkWrite, UploadSteps, SyncSteps, StartUpload, BeginUpload,
         UploadReads, UploadWrites, StartSync, BeginFetch, SyncArrives, ListAnswered, MergeRow, FailActive, SnapshotRow,
         FetchAnswered, FinishFromFile, ReplaceSync, Delete, Die, SyncKeeps
  <2>3. QED
    BY <1>1, <1>4, <1>7, <2>2
<1>8. QED
  BY <1>5, <1>6, <1>7

\* A request that goes on or ends unserved has no good answer.
LEMMA CallStepsAnswer ==
  ASSUME SessionInv, NEW w \in Workers, CallSteps(w), NEW v \in Workers
  PROVE  call'[v].answer # "ok" \/ call'[v].answer = call[v].answer
<1>1. call \in [Workers -> Calls]
  BY DEF SessionInv, SessionTyped
<1>2. CASE v # w
  BY <1>2, CallStepsStay
<1>3. CASE \E a \in {"refused", "failed", "changed"} : Finish(w, a)
  BY <1>1, <1>2, <1>3 DEF Finish, Idle
<1>4. CASE \E pc, t : call' = [call EXCEPT ![w].pc = pc] \/ call' = [call EXCEPT ![w].pc = pc, ![w].token = t]
  BY <1>1, <1>2, <1>4 DEF Calls
<1>5. QED
  BY <1>3, <1>4 DEF CallSteps, Rejected, TakeMutex, PostRefresh, SaveRefreshed, Recheck, ClearLogin, Go

LEMMA BeginAnswer ==
  ASSUME SessionInv, NEW w \in Workers, Begin(w)
  PROVE  call'[w].answer # "ok" /\ \A v \in Workers : v # w => call'[v] = call[v]
BY DEF SessionInv, SessionTyped, Begin, Idle

\* The phone's rows while nothing is stored.
LEMMA NothingShown ==
  ASSUME WorksInv, Next, NothingYet
  PROVE  \A u \in Users : ~ Shown(u)'
<1>1. RowsInv /\ \A u \in Users : ~ Shown(u)
  BY DEF WorksInv, NothingYet
<1>2. ASSUME NEW u \in Users, NEW status \in {"UPLOADING", "PROCESSING", "FAILED"}, Upsert(u, status)
      PROVE  \A v \in Users : ~ Shown(v)'
  <2>1. status \in Statuses \ {"none"}
    BY DEF Statuses
  <2>2. \A v \in Users : rows'[v] = rows[v] \/ rows'[v] = Row(status)
    BY <1>1, <1>2, <2>1, UpsertRows
  <2>3. QED
    BY <1>1, <2>2 DEF Shown, Row
<1>3. CASE UNCHANGED rows
  BY <1>1, <1>3 DEF Shown
<1>4. CASE Record
  <2>1. login.id # 0 /\ rows' = [rows EXCEPT ![Me] = Row("UPLOADING")]
    BY <1>4 DEF Record
  <2>2. QED
    BY <1>1, <2>1 DEF RowsInv, Shown, Row
<1>5. CASE MarkWrite
  BY <1>2, <1>5 DEF MarkWrite, WorksInv, Works
<1>6. CASE UploadWrites
  <2>1. upload.user \in Users /\ upload.seen \in {"UPLOADING", "FAILED"} /\ Upsert(upload.user, upload.seen)
    BY <1>6 DEF UploadWrites, WorksInv, UploadInv, Works, NothingYet
  <2>2. QED
    BY <1>2, <2>1
<1>7. CASE FailActive
  BY <1>2, <1>7 DEF FailActive, WorksInv, SyncInv, Works
<1>8. CASE MergeRow \/ FinishFromFile
  BY <1>8 DEF MergeRow, FinishFromFile, WorksInv, SyncInv, NothingYet
<1>9. CASE FetchAnswered
  <2> DEFINE next == Refetched(call["sync"].answer, sync.row)
  <2>1. call["sync"].answer # "ok" /\ sync.user \in Users
    BY <1>9 DEF FetchAnswered, NothingYet, WorksInv, SyncInv, Works
  <2>2. next \in {"PROCESSING", "FAILED", "none"}
    BY <2>1 DEF Refetched
  <2>3. IF next = "none" THEN UNCHANGED rows ELSE Upsert(sync.user, next)
    BY <1>9 DEF FetchAnswered
  <2>4. QED
    BY <1>2, <1>3, <2>1, <2>2, <2>3
<1>10. CASE Delete
  <2>1. rows' = [rows EXCEPT ![Me].deleted = TRUE]
    BY <1>10 DEF Delete
  <2>2. \A v \in Users : rows'[v].status = rows[v].status
    BY <1>1, <2>1 DEF RowsInv, RowT
  <2>3. QED
    BY <1>1, <2>2 DEF Shown
<1>11. QED
  <2>1. ~ (Record \/ MarkWrite \/ UploadWrites \/ MergeRow \/ FailActive \/ FinishFromFile \/ FetchAnswered \/ Delete) =>
          UNCHANGED rows
    BY DEF Next, RetryUpload, MarkRead, UploadSteps, SyncSteps, StartUpload, BeginUpload, UploadArrives, DirectUpload,
         UploadReads, StartSync, BeginFetch, SyncArrives, ListAnswered, SnapshotRow, ReplaceSync, DeleteRemote, Die,
         Mining, ClaimInput, FinishInput, MiningKeeps, local
  <2>2. QED
    BY <1>3, <1>4, <1>5, <1>6, <1>7, <1>8, <1>9, <1>10, <2>1

\* The upload while nothing is stored.
LEMMA NothingUploaded ==
  ASSUME WorksInv, Next, asks => Deletions, ~ Stored, ~ Stored', NothingYet
  PROVE  upload'.seen # "UPLOADED" /\ call'["upload"].answer # "ok"
<1>1. call \in [Workers -> Calls] /\ "upload" \in Workers /\ "sync" \in Workers /\ upload \in Works(UploadPcs)
  BY DEF WorksInv, SessionInv, SessionTyped, UploadInv, Workers
<1>2. upload.seen # "UPLOADED" /\ call["upload"].answer # "ok"
  BY DEF NothingYet
<1>3. call'["upload"].answer # "ok"
  <2>1. CASE UploadArrives \/ DirectUpload
    <3>1. PICK a \in {"failed", "refused"} : Finish("upload", a)
      BY <2>1, NothingArrives
    <3>2. QED
      BY <1>1, <3>1 DEF Finish, Idle
  <2>2. ASSUME NEW w \in Workers, CallSteps(w) PROVE call'["upload"].answer # "ok"
    BY <1>1, <1>2, <2>2, CallStepsAnswer DEF WorksInv
  <2>3. CASE BeginUpload
    BY <1>1, <2>3, BeginAnswer DEF WorksInv, BeginUpload
  <2>4. CASE RetryUpload \/ UploadReads \/ Die
    BY <1>1, <2>4 DEF RetryUpload, UploadReads, Die, Idle
  <2>5. CASE SyncSteps \/ ReplaceSync
    <3>1. UNCHANGED call \/ \E c : call' = [call EXCEPT !["sync"] = c]
      BY <2>5 DEF SyncSteps, ReplaceSync, StartSync, BeginFetch, SyncArrives, ListAnswered, MergeRow, FailActive,
           SnapshotRow, FetchAnswered, FinishFromFile, Begin, Finish
    <3>2. QED
      BY <1>1, <1>2, <3>1
  <2>6. CASE Accounts \/ Record \/ MarkRead \/ MarkWrite \/ StartUpload \/ UploadWrites \/ Delete \/ DeleteRemote \/ Mining
    <3>1. UNCHANGED call
      BY <2>6 DEF Accounts, Login, Logout, Revoke, Expire, Record, MarkRead, MarkWrite, StartUpload, UploadWrites, Delete,
           DeleteRemote, Mining, ClaimInput, FinishInput, MiningKeeps
    <3>2. QED
      BY <1>2, <3>1
  <2>7. QED
    BY <2>1, <2>2, <2>3, <2>4, <2>5, <2>6 DEF Next, UploadSteps
<1>4. upload'.seen # "UPLOADED"
  <2>1. CASE Record \/ RetryUpload
    BY <2>1 DEF Record, RetryUpload, Enqueued, Resting
  <2>2. CASE UploadReads
    <3> DEFINE status == IF upload.pc = "gone" THEN "FAILED" ELSE StatusOf(call["upload"].answer)
    <3>1. status # "UPLOADED"
      BY <1>2 DEF StatusOf
    <3>2. upload' = [upload EXCEPT !.pc = "write", !.seen = status] \/ upload' = Resting(Someone)
          \/ upload' = [upload EXCEPT !.pc = "enqueued"]
      BY <2>2 DEF UploadReads
    <3>3. CASE upload' = [upload EXCEPT !.pc = "write", !.seen = status]
      BY <1>1, <3>1, <3>3 DEF Works
    <3>4. CASE upload' = Resting(Someone)
      BY <3>4 DEF Resting
    <3>5. CASE upload' = [upload EXCEPT !.pc = "enqueued"]
      BY <1>1, <1>2, <3>5 DEF Works
    <3>6. QED
      BY <3>2, <3>3, <3>4, <3>5
  <2>3. CASE UploadWrites \/ Die
    <3>1. upload' = Resting(Someone) \/ UNCHANGED upload \/ upload' = [upload EXCEPT !.pc = "enqueued", !.seen = "none"]
      BY <2>3 DEF UploadWrites, Die
    <3>2. CASE upload' = [upload EXCEPT !.pc = "enqueued", !.seen = "none"]
      BY <1>1, <3>2 DEF Works
    <3>3. QED
      BY <1>2, <3>1, <3>2 DEF Resting
  <2>4. CASE StartUpload \/ BeginUpload \/ DirectUpload
    <3>1. \E pc : upload' = [upload EXCEPT !.pc = pc]
      BY <2>4 DEF StartUpload, BeginUpload, DirectUpload, UploadTo
    <3>2. QED
      BY <1>1, <1>2, <3>1 DEF Works
  <2>5. CASE ~ (Record \/ RetryUpload \/ UploadReads \/ UploadWrites \/ Die \/ StartUpload \/ BeginUpload \/ DirectUpload)
    <3>1. UNCHANGED upload
      BY <2>5 DEF Next, MarkRead, MarkWrite, UploadSteps, SyncSteps, UploadArrives, StartSync, BeginFetch, SyncArrives,
           ListAnswered, MergeRow, FailActive, SnapshotRow, FetchAnswered, FinishFromFile, ReplaceSync, Delete, DeleteRemote,
           Mining, ClaimInput, FinishInput, SyncKeeps, MiningKeeps, works
    <3>2. QED
      BY <1>2, <3>1
  <2>6. QED
    BY <2>1, <2>2, <2>3, <2>4, <2>5
<1>5. QED
  BY <1>3, <1>4

\* The sync while nothing is stored: lists are empty and transcripts missing.
LEMMA NothingSynced ==
  ASSUME WorksInv, Next, NothingYet
  PROVE  /\ sync'.seen = "none" /\ ~ cached' /\ sync'.pc # "fromFile"
         /\ sync'.pc = "fetch" => call'["sync"].answer # "ok"
<1>1. call \in [Workers -> Calls] /\ "upload" \in Workers /\ "sync" \in Workers /\ sync \in Works(SyncPcs)
  BY DEF WorksInv, SessionInv, SessionTyped, SyncInv, Workers
<1>2. /\ sync.seen = "none" /\ ~ cached /\ sync.pc # "fromFile" /\ sync.pc # "merge"
      /\ sync.pc = "fetch" => call["sync"].answer # "ok"
  BY DEF NothingYet, WorksInv, SyncInv
<1>3. \A u, pc : Resting(u).seen = "none" /\ Resting(u).pc = "idle" /\ [Resting(u) EXCEPT !.pc = pc].seen = "none"
        /\ [Resting(u) EXCEPT !.pc = pc].pc = pc
  BY DEF Resting
<1>4. CASE StartSync
  <2>1. sync' = [Resting(Me) EXCEPT !.pc = "list"] /\ UNCHANGED cached
    BY <1>4 DEF StartSync
  <2>2. QED
    BY <1>2, <1>3, <2>1
<1>5. CASE BeginFetch
  BY <1>1, <1>2, <1>5, BeginAnswer DEF WorksInv, BeginFetch
<1>6. CASE SyncArrives
  <2> DEFINE v == UserOf(call["sync"].token)
  <2>1. v \in Users /\ UNCHANGED cached
    BY <1>1, <1>6, CallHasUser DEF WorksInv, SyncArrives
  <2>2. cloud[v].row = "none" /\ ~ cloud[v].transcript
    BY <2>1 DEF NothingYet
  <2>3. CASE sync.pc = "list"
    <3>1. sync' = [sync EXCEPT !.seen = "none"] \/ UNCHANGED sync
      BY <1>6, <2>2, <2>3 DEF SyncArrives
    <3>2. QED
      BY <1>1, <1>2, <2>1, <2>3, <3>1 DEF Works
  <2>4. CASE sync.pc = "fetch"
    <3>1. UNCHANGED sync /\ (Finish("sync", "missing") \/ Finish("sync", "failed"))
      BY <1>6, <2>2, <2>4 DEF SyncArrives
    <3>2. call'["sync"].answer # "ok"
      BY <1>1, <3>1 DEF Finish, Idle
    <3>3. QED
      BY <1>2, <2>1, <3>1, <3>2
  <2>5. QED
    BY <1>6, <2>3, <2>4 DEF SyncArrives
<1>7. CASE ListAnswered
  <2>1. Skips(rows[sync.user]) /\ UNCHANGED cached
    BY <1>2, <1>7 DEF ListAnswered, Skips
  <2>2. sync' = [sync EXCEPT !.pc = "authFailed"] \/ sync' = Resting(Someone) \/ sync' = [Resting(sync.user) EXCEPT !.pc = "snapshot"]
    BY <1>7, <2>1 DEF ListAnswered
  <2>3. CASE sync' = [sync EXCEPT !.pc = "authFailed"]
    BY <1>1, <1>2, <2>1, <2>3 DEF Works
  <2>4. CASE sync' = [Resting(sync.user) EXCEPT !.pc = "snapshot"]
    BY <1>2, <2>1, <2>4 DEF Resting
  <2>5. QED
    BY <1>2, <1>3, <2>1, <2>2, <2>3, <2>4
<1>8. CASE FailActive
  BY <1>2, <1>3, <1>8 DEF FailActive, SyncEnds
<1>9. CASE SnapshotRow
  <2>1. call'["sync"] = Idle /\ UNCHANGED cached
    BY <1>9 DEF SnapshotRow, WorksInv, SyncInv
  <2>2. sync' = Resting(Someone) \/ sync' = [sync EXCEPT !.row = rows[sync.user], !.pc = "fetch"]
    BY <1>2, <1>9 DEF SnapshotRow, SyncEnds
  <2>3. CASE sync' = [sync EXCEPT !.row = rows[sync.user], !.pc = "fetch"]
    BY <1>1, <1>2, <2>1, <2>3 DEF Works, Idle
  <2>4. QED
    BY <1>2, <1>3, <2>1, <2>2, <2>3
<1>10. CASE FetchAnswered
  BY <1>2, <1>3, <1>10 DEF FetchAnswered, SyncEnds
<1>11. CASE ReplaceSync
  BY <1>2, <1>3, <1>11 DEF ReplaceSync, SyncEnds
<1>12. CASE Die
  BY <1>2, <1>3, <1>12 DEF Die, local
<1>13. CASE Delete
  BY <1>2, <1>13 DEF Delete, works
<1>14. ASSUME NEW w \in Workers, CallSteps(w), UNCHANGED <<local, works>>
       PROVE  /\ sync'.seen = "none" /\ ~ cached' /\ sync'.pc # "fromFile"
              /\ sync'.pc = "fetch" => call'["sync"].answer # "ok"
  BY <1>1, <1>2, <1>14, CallStepsAnswer DEF WorksInv, works, local
<1>15. CASE \/ Accounts /\ UNCHANGED <<local, works>>
            \/ Record \/ RetryUpload \/ MarkRead \/ MarkWrite \/ UploadSteps \/ DeleteRemote \/ Mining
  <2>1. UNCHANGED <<sync, cached>>
    BY <1>15 DEF Record, RetryUpload, MarkRead, MarkWrite, UploadSteps, DeleteRemote, Mining, StartUpload, BeginUpload,
         UploadArrives, DirectUpload, UploadReads, UploadWrites, UploadKeeps, ClaimInput, FinishInput, MiningKeeps, works, local
  <2>2. UNCHANGED call \/ \E c : call' = [call EXCEPT !["upload"] = c]
    <3>1. CASE Accounts
      BY <3>1 DEF Accounts, Login, Logout, Revoke, Expire
    <3>2. CASE Record \/ RetryUpload \/ MarkRead \/ MarkWrite \/ DeleteRemote \/ Mining
      BY <3>2 DEF Record, RetryUpload, MarkRead, MarkWrite, DeleteRemote, Mining, ClaimInput, FinishInput, MiningKeeps
    <3>3. CASE UploadSteps
      BY <3>3 DEF UploadSteps, StartUpload, BeginUpload, UploadArrives, DirectUpload, UploadReads, UploadWrites, Begin, Finish
    <3>4. QED
      BY <1>15, <3>1, <3>2, <3>3
  <2>3. QED
    BY <1>1, <1>2, <2>1, <2>2
<1>16. CASE MergeRow \/ FinishFromFile
  BY <1>2, <1>16 DEF MergeRow, FinishFromFile
<1>17. QED
  BY <1>4, <1>5, <1>6, <1>7, <1>8, <1>9, <1>10, <1>11, <1>12, <1>13, <1>14, <1>15, <1>16 DEF Next, SyncSteps

-----------------------------------------------------------------------------
(* The theorems. *)

IInv == WorksInv /\ StoredInv

LEMMA InitIInv ==
  ASSUME Init
  PROVE  IInv
<1>1. MaxLogins \in Nat /\ MaxFaults \in Nat /\ Someone \in Users
  BY PhoneOK, SomeoneIsUser
<1>2. SessionInv
  <2>1. NoSession(Someone) \in Sessions /\ LoggedOut \in [id : Nat, token : Tokens] /\ LoggedOut.id = 0
    BY <1>1 DEF NoSession, Sessions, LoggedOut, Token, Tokens
  <2>2. SessionTyped
    BY <1>1, <2>1, IdleIsCall DEF Init, SessionInit, SessionTyped
  <2>3. CallsHonest
    BY IdleIsCall DEF Init, SessionInit, CallsHonest
  <2>4. QED
    BY <2>2, <2>3 DEF SessionInv
<1>3. RowsInv /\ FlagsInv /\ CloudInv /\ \A u \in Users : rows[u] = NoRow /\ cloud[u] = Nothing
  BY DEF Init, RowsInv, FlagsInv, CloudInv, RowT, NoRow, Statuses, CloudRow, Nothing
<1>4. Resting(Someone) \in Works(UploadPcs) /\ Resting(Someone) \in Works(MarkPcs) /\ Resting(Someone) \in Works(SyncPcs)
  BY <1>1 DEF Resting, Works, UploadPcs, MarkPcs, SyncPcs, Token, Tokens, RowT, NoRow, Statuses
<1>5. call["upload"] = Idle /\ call["sync"] = Idle /\ logins = 0
  BY DEF Init, SessionInit, Workers
<1>6. UploadInv /\ SyncInv /\ mark \in Works(MarkPcs)
  BY <1>4, <1>5 DEF Init, UploadInv, SyncInv, Resting, Token
<1>7. NothingYet /\ ~ asks
  BY <1>3, <1>5 DEF Init, NothingYet, Shown, NoRow, Nothing, Resting, Idle
<1>8. QED
  BY <1>2, <1>3, <1>6, <1>7 DEF IInv, WorksInv, StoredInv

LEMMA NextIInv ==
  ASSUME IInv, [Next]_vars
  PROVE  IInv'
<1>1. CASE Next
  <2>1. WorksInv'
    BY <1>1, SessionKept, RowsKept, FlagsKept, UploadKept, MarkKept, SyncKept, CloudKept DEF IInv, WorksInv
  <2>2. (asks => Deletions)'
    BY <1>1, DeletionsKept DEF IInv, StoredInv
  <2>3. CASE Stored
    BY <1>1, <2>1, <2>2, <2>3, StoredKept DEF IInv, StoredInv
  <2>4. CASE ~ Stored /\ ~ Stored'
    <3>1. NothingYet
      BY <2>4 DEF IInv, StoredInv
    <3>2. UNCHANGED cloud /\ (\A u \in Users : ~ Shown(u)') /\ upload'.seen # "UPLOADED" /\ call'["upload"].answer # "ok"
      BY <1>1, <2>4, <3>1, NothingArrives, NothingShown, NothingUploaded DEF IInv, StoredInv
    <3>3. /\ sync'.seen = "none" /\ ~ cached' /\ sync'.pc # "fromFile"
          /\ sync'.pc = "fetch" => call'["sync"].answer # "ok"
      BY <1>1, <3>1, NothingSynced DEF IInv
    <3>4. NothingYet'
      BY <3>1, <3>2, <3>3 DEF NothingYet
    <3>5. QED
      BY <2>1, <2>2, <3>4 DEF IInv, StoredInv
  <2>5. QED
    BY <2>1, <2>2, <2>3, <2>4 DEF IInv, StoredInv
<1>2. CASE UNCHANGED vars
  BY <1>2 DEF vars, session, local, works, IInv, WorksInv, SessionInv, SessionTyped, CallsHonest, Honest, RowsInv, FlagsInv,
       UploadInv, SyncInv, CloudInv, StoredInv, Deletions, Stored, NothingYet, Shown
<1>3. QED
  BY <1>1, <1>2

\* The invariant: the login's identity travels with every request, deletions
\* last, and before anything is stored nothing on the phone says it is.
THEOREM Invariance == Spec => []IInv
BY InitIInv, NextIInv, PTL DEF Spec

\* TypeOK of PhoneRecordings, SessionTypeOK included.
THEOREM TypeCorrect == Spec => []TypeOK
<1>1. ASSUME IInv PROVE TypeOK
  <2>1. SessionTypeOK
    BY <1>1 DEF IInv, WorksInv, SessionInv, SessionTyped, SessionTypeOK, Sessions, Calls, Answered
  <2>2. QED
    BY <1>1, <2>1 DEF IInv, WorksInv, RowsInv, FlagsInv, UploadInv, CloudInv, RowT, CloudRow, TypeOK
<1>2. QED
  BY <1>1, Invariance, PTL

\* A request is repeated only with a token of the login it was first sent with
\* (ensureSameSession, TakeMutex and SaveRefreshed under refreshMutex).
THEOREM AccountKept == Spec => []RetryKeepsAccount
<1>1. ASSUME IInv PROVE RetryKeepsAccount
  BY <1>1 DEF IInv, WorksInv, SessionInv, CallsHonest, Honest, RetryKeepsAccount, On, AtRest
<1>2. QED
  BY <1>1, Invariance, PTL

\* The phone loses its login only to the user or to the end of that very
\* session at the server (clearAuthSessionIfMatches): the refused refresh was its own.
THEOREM ClearCorrect == Spec => ClearedForCause
<1>1. ASSUME IInv, [Next]_vars
      PROVE  [login.id # 0 /\ login'.id = 0 => sessions[login.id].ended \/ Logout]_<<session, call>>
  <2>1. CASE UNCHANGED login
    BY <2>1
  <2>2. ASSUME NEW w \in Workers, CallSteps(w), login.id # 0, login'.id = 0 PROVE sessions[login.id].ended
    <3>2. CASE ClearLogin(w)
      <4>1. call[w].pc = "invalid" /\ login.id = call[w].id
        BY <2>2, <3>2 DEF ClearLogin, On, Clears
      <4>2. Honest(call[w])
        BY <1>1 DEF IInv, WorksInv, SessionInv, CallsHonest
      <4>3. QED
        BY <4>1, <4>2 DEF Honest, AtRest
    <3>3. CASE SaveRefreshed(w)
      <4>1. login' = login \/ login' = [login EXCEPT !.token = call[w].token]
        BY <3>3 DEF SaveRefreshed
      <4>2. QED
        BY <1>1, <2>2, <4>1 DEF IInv, WorksInv, SessionInv, SessionTyped
    <3>4. CASE Rejected(w) \/ TakeMutex(w) \/ PostRefresh(w) \/ Recheck(w)
      BY <2>2, <3>4 DEF Rejected, TakeMutex, PostRefresh, Recheck, session
    <3>5. QED
      BY <2>2, <3>2, <3>3, <3>4 DEF CallSteps
  <2>3. ASSUME Accounts, login.id # 0, login'.id = 0 PROVE Logout
    BY <2>3 DEF Accounts, Login, Revoke, Expire
  <2>4. CASE ~ Accounts /\ ~ \E w \in Workers : CallSteps(w)
    <3>1. UNCHANGED login
      BY <1>1, <2>4 DEF vars, session, Next, Record, RetryUpload, MarkRead, MarkWrite, UploadSteps, SyncSteps, StartUpload,
           BeginUpload, UploadArrives, DirectUpload, UploadReads, UploadWrites, StartSync, BeginFetch, SyncArrives,
           ListAnswered, MergeRow, FailActive, SnapshotRow, FetchAnswered, FinishFromFile, ReplaceSync, Delete, DeleteRemote,
           Die, Mining, ClaimInput, FinishInput, UploadKeeps, SyncKeeps, MiningKeeps
    <3>2. QED
      BY <3>1
  <2>5. QED
    BY <2>2, <2>3, <2>4
<1>2. QED
  BY <1>1, Invariance, PTL DEF Spec, ClearedForCause

\* A deleted recording stays deleted, whatever worker writes its row back
\* (upsertBest).
THEOREM DeletedCorrect == Spec => DeletedStays
<1>1. ASSUME IInv, [Next]_vars
      PROVE  [\A u \in Users : rows[u].deleted => rows'[u].deleted]_rows
  BY <1>1, RowsKept DEF IInv, vars, local
<1>2. QED
  BY <1>1, Invariance, PTL DEF Spec, DeletedStays

\* A row shown as uploaded or finished has its recording at the server.
THEOREM StoredCorrect == Spec => []ShownIsStored
<1>1. ASSUME IInv PROVE ShownIsStored
  BY <1>1 DEF IInv, StoredInv, Stored, NothingYet, Shown, ShownIsStored
<1>2. QED
  BY <1>1, Invariance, PTL

==============================================================================
