---------------------------- MODULE AdapterProofs ----------------------------
(***************************************************************************)
(* Proofs about the operations of the two adapters. First VisualCalls, for *)
(* every set of workers and of visits and every number of attempts: the    *)
(* inductive invariant that ties the two ledgers, the stores in R2 and the *)
(* parties at work together, the safety properties it implies, and that    *)
(* the whole implements SideEffect. Then WechatOperation, for every set of *)
(* requests and of operations: the tokens, and what becomes of an attempt. *)
(***************************************************************************)
EXTENDS VisualCalls, WechatOperation, FiniteSetTheorems, TLAPS

-----------------------------------------------------------------------------
(* Types. *)

\* The fields a visit has in each of its states.
LEMMA VisitFields ==
  ASSUME visit \in [Visits -> VisitStates], NEW v \in Visits
  PROVE  /\ visit[v] \in VisitStates
         /\ visit[v].pc # "free" => visit[v].attempt \in Attempts
         /\ visit[v].pc = "collected" => visit[v].evidence \subseteq Attempts
         /\ visit[v].pc = "store" => visit[v].outcome \in Outcomes
         /\ visit[v].pc = "settle" => visit[v].code \in Outcomes \cup {"unknown"}
  BY DEF VisitStates

\* The fields a worker has in each of its states.
LEMMA WorkerFields ==
  ASSUME worker \in [Workers -> WorkerStates], NEW w \in Workers
  PROVE  /\ worker[w] \in WorkerStates
         /\ worker[w].pc # "idle" => worker[w].attempt \in Attempts
         /\ worker[w].pc \in {"ask", "waiting", "record"} => worker[w].mode \in Modes
         /\ worker[w].pc = "waiting" => worker[w].visit \in Visits
         /\ worker[w].pc = "record" => worker[w].outcome \in {"retryable", "final"}
  BY DEF WorkerStates

\* Taking an answer leaves the worker in a worker state.
LEMMA AnswerTyped ==
  ASSUME worker \in [Workers -> WorkerStates], NEW w \in Workers,
         worker[w].pc \in {"ask", "waiting"}, NEW code, NEW n, TakeAnswer(w, code, n)
  PROVE  worker' \in [Workers -> WorkerStates]
<1>1. worker[w].attempt \in Attempts /\ worker[w].mode \in Modes
  BY WorkerFields
<1>2. Idle \in WorkerStates
  BY DEF Idle, WorkerStates
<1>3. [pc |-> "persist", attempt |-> worker[w].attempt] \in WorkerStates
  BY <1>1 DEF WorkerStates
<1>4. [pc |-> "record", mode |-> worker[w].mode, attempt |-> worker[w].attempt,
       outcome |-> IF code = "retryable" THEN "retryable" ELSE "final"] \in WorkerStates
  BY <1>1 DEF WorkerStates
<1>5. QED
  BY <1>2, <1>3, <1>4 DEF TakeAnswer, Become

\* A reply leaves the visit and its caller in states of theirs.
LEMMA ReplyTyped ==
  ASSUME worker \in [Workers -> WorkerStates], visit \in [Visits -> VisitStates],
         NEW v \in Visits, NEW code, NEW n, Reply(v, code, n)
  PROVE  worker' \in [Workers -> WorkerStates] /\ visit' \in [Visits -> VisitStates]
<1>1. visit' \in [Visits -> VisitStates]
  BY DEF Reply, Move, VisitStates
<1>2. CASE UNCHANGED worker
  BY <1>1, <1>2
<1>3. CASE \E w \in Workers : worker[w].pc = "waiting" /\ worker[w].visit = v /\ TakeAnswer(w, code, n)
  BY <1>1, <1>3, AnswerTyped
<1>4. QED
  BY <1>2, <1>3 DEF Reply

\* Going on with the loop, or giving it up, leaves a worker state.
LEMMA ContinueTyped ==
  ASSUME worker \in [Workers -> WorkerStates], NEW w \in Workers, NEW n, ContinueWith(w, n)
  PROVE  worker' \in [Workers -> WorkerStates]
<1>1. Idle \in WorkerStates /\ (n \in Attempts => [pc |-> "head", attempt |-> n] \in WorkerStates)
  BY DEF Idle, WorkerStates
<1>2. QED
  BY <1>1 DEF ContinueWith, Become

\* Every step of an execution of the visual step keeps the types.
LEMMA WorkerTyped ==
  ASSUME TypeOK, NEW w \in Workers, WorkerNext(w)
  PROVE  TypeOK'
<1> USE DEF TypeOK
<1>0. /\ Idle \in WorkerStates
      /\ \A n \in Attempts, pc \in {"head", "prepare", "persist", "succeed"} :
           [pc |-> pc, attempt |-> n] \in WorkerStates
      /\ \A n \in Attempts, m \in Modes : [pc |-> "ask", mode |-> m, attempt |-> n] \in WorkerStates
  BY DEF Idle, WorkerStates
<1>f. worker[w].pc # "idle" => worker[w].attempt \in Attempts
  BY WorkerFields
<1>1. CASE StartStep(w)
  <2>1. 1 \in Attempts
    BY VisualCallsOK DEF VisualCallsAssumption, Attempts
  <2>2. QED
    BY <1>0, <1>1, <2>1 DEF StartStep, Become, ledgers, adapter, provider
<1>2. CASE ReenterHold(w)
  BY <1>0, <1>2 DEF ReenterHold, Become, InFlight, Modes, ledgers, adapter, provider
<1>3. CASE CheckCancelled(w)
  BY <1>0, <1>f, <1>3 DEF CheckCancelled, Become, ledgers, adapter, provider
<1>4. CASE Prepare(w)
  <2> DEFINE n == worker[w].attempt
  <2>1. n \in Attempts
    BY <1>4, <1>f DEF Prepare
  <2>2. CASE /\ call' = [call EXCEPT ![n] = "intent"]
             /\ Become(w, [pc |-> "ask", mode |-> "execute", attempt |-> n])
    BY <1>0, <1>4, <2>1, <2>2 DEF Prepare, Become, Modes, adapter, provider
  <2>3. CASE /\ \E m \in InFlight : Become(w, [pc |-> "ask", mode |-> "reconcile", attempt |-> m])
             /\ UNCHANGED call
    BY <1>0, <1>4, <2>3 DEF Prepare, Become, InFlight, Modes, adapter, provider
  <2>4. CASE (\E m \in Settled : IsLatest(m) /\ ContinueWith(w, m + 1)) /\ UNCHANGED call
    <3>1. Settled \subseteq Attempts
      BY DEF Settled
    <3>2. QED
      BY <1>4, <2>4, <3>1, ContinueTyped DEF Prepare, adapter, provider
  <2>5. CASE Become(w, Idle) /\ UNCHANGED call
    BY <1>0, <1>4, <2>5 DEF Prepare, Become, adapter, provider
  <2>6. QED
    BY <1>4, <2>2, <2>3, <2>4, <2>5 DEF Prepare
<1>5. ASSUME NEW v \in Visits, SendRequest(w, v)
      PROVE  TypeOK'
  <2>1. worker[w].attempt \in Attempts /\ worker[w].mode \in Modes
    BY <1>5, WorkerFields DEF SendRequest
  <2>2. visit' \in [Visits -> VisitStates]
    BY <1>5, <2>1 DEF SendRequest, VisitStates
  <2>3. worker' \in [Workers -> WorkerStates]
    BY <1>5, <2>1 DEF SendRequest, Become, WorkerStates
  <2>4. QED
    BY <1>5, <2>2, <2>3 DEF SendRequest, ledgers, adapter, provider
<1>6. CASE StopCancelled(w)
  BY <1>0, <1>6 DEF StopCancelled, Become, ledgers, adapter, provider
<1>7. CASE RefuseRequest(w)
  <2>1. PICK n : TakeAnswer(w, "final", n)
    BY <1>7 DEF RefuseRequest
  <2>2. worker' \in [Workers -> WorkerStates]
    BY <1>7, <2>1, AnswerTyped DEF RefuseRequest
  <2>3. refused' \in [Attempts -> SUBSET {"execute", "reconcile"}]
    BY <1>7 DEF RefuseRequest, AdapterMode
  <2>4. QED
    BY <1>7, <2>2, <2>3 DEF RefuseRequest, ledgers, adapter, provider
<1>8. CASE LoseAnswer(w)
  BY <1>0, <1>8 DEF LoseAnswer, TakeAnswer, Become, ledgers, adapter, provider
<1>9. CASE RecordFailure(w)
  <2> DEFINE n == worker[w].attempt
             outcome == worker[w].outcome
  <2>1. n \in Attempts /\ outcome \in {"retryable", "final"}
    BY <1>9, WorkerFields DEF RecordFailure
  <2>2. call' \in [Attempts -> {"none", "intent"} \cup Outcomes]
    BY <1>9, <2>1 DEF RecordFailure, Outcomes
  <2>3. worker' \in [Workers -> WorkerStates]
    <3>1. CASE ContinueWith(w, 1)
      BY <3>1, ContinueTyped
    <3>2. CASE ContinueWith(w, n + 1)
      BY <2>1, <3>2, ContinueTyped DEF Attempts
    <3>3. CASE Become(w, Idle)
      BY <1>0, <3>3 DEF Become
    <3>4. QED
      BY <1>9, <3>1, <3>2, <3>3 DEF RecordFailure
  <2>4. QED
    BY <1>9, <2>2, <2>3 DEF RecordFailure, adapter, provider
<1>10. CASE PersistArtifact(w)
  <2>1. worker[w].attempt \in Attempts
    BY <1>10, <1>f DEF PersistArtifact
  <2>2. artifact' \in 0..MaxAttempts
    BY <1>10, <2>1 DEF PersistArtifact, Attempts
  <2>3. QED
    BY <1>0, <1>10, <2>1, <2>2 DEF PersistArtifact, Become, adapter, provider
<1>11. CASE RecordSuccess(w)
  <2>1. worker[w].attempt \in Attempts
    BY <1>11, <1>f DEF RecordSuccess
  <2>2. call' \in [Attempts -> {"none", "intent"} \cup Outcomes]
    BY <1>11, <2>1 DEF RecordSuccess, Outcomes
  <2>3. QED
    BY <1>0, <1>11, <2>2 DEF RecordSuccess, Become, adapter, provider
<1>12. CASE WorkerDies(w)
  BY <1>0, <1>12 DEF WorkerDies, Become, ledgers, adapter, provider
<1>13. QED
  BY <1>1, <1>2, <1>3, <1>4, <1>5, <1>6, <1>7, <1>8, <1>9, <1>10, <1>11, <1>12 DEF WorkerNext

\* Every step of a visit to the image adapter keeps the types.
LEMMA VisitTyped ==
  ASSUME TypeOK, NEW v \in Visits, VisitNext(v)
  PROVE  TypeOK'
<1> USE DEF TypeOK
<1> DEFINE n == visit[v].attempt
<1>0. /\ \A m \in Attempts, pc \in {"arrived", "reading", "process", "intend", "request", "provider"} :
           [pc |-> pc, attempt |-> m] \in VisitStates
      /\ \A m \in Attempts, o \in Outcomes : [pc |-> "store", attempt |-> m, outcome |-> o] \in VisitStates
      /\ \A m \in Attempts, c \in Outcomes \cup {"unknown"} :
           [pc |-> "settle", attempt |-> m, code |-> c] \in VisitStates
  BY DEF VisitStates
<1>f. visit[v].pc # "free" => n \in Attempts
  BY VisitFields
<1>1. CASE Reconcile(v)
  BY <1>1, ReplyTyped DEF Reconcile, ledgers, adapter, provider
<1>2. CASE CollectEvidence(v)
  <2>1. n \in Attempts /\ 1..n \subseteq Attempts
    BY <1>f, <1>2, VisualCallsOK DEF CollectEvidence, Attempts, VisualCallsAssumption
  <2>2. visit' \in [Visits -> VisitStates]
    BY <1>2, <2>1 DEF CollectEvidence, Move, VisitStates
  <2>3. QED
    BY <1>2, <2>2 DEF CollectEvidence, ledgers, adapter, provider
<1>3. CASE Claim(v)
  <2>1. n \in Attempts /\ visit[v].evidence \subseteq Attempts
    BY <1>3, VisitFields DEF Claim
  <2>2. RepairedClaims(v) \in [Attempts -> {"none", "intent"} \cup Outcomes]
    BY DEF RepairedClaims
  <2>3. claim' \in [Attempts -> {"none", "intent"} \cup Outcomes]
    BY <1>3, <2>1, <2>2 DEF Claim
  <2>4. CASE Move(v, [pc |-> "process", attempt |-> n]) /\ UNCHANGED worker
    BY <1>0, <1>3, <2>1, <2>3, <2>4 DEF Claim, Move, ledgers, provider
  <2>5. CASE \E c, m : Reply(v, c, m)
    BY <1>3, <2>3, <2>5, ReplyTyped DEF Claim, ledgers, provider
  <2>6. QED
    BY <1>3, <2>4, <2>5 DEF Claim
<1>4. CASE Process(v)
  BY <1>0, <1>f, <1>4 DEF Process, Move, ledgers, adapter, provider
<1>5. CASE PutIntent(v)
  <2>1. n \in Attempts
    BY <1>f, <1>5 DEF PutIntent
  <2>2. intent' \in [Attempts -> BOOLEAN]
    BY <1>5, <2>1 DEF PutIntent
  <2>3. \/ Move(v, [pc |-> "request", attempt |-> n])
        \/ Move(v, [pc |-> "settle", attempt |-> n, code |-> "unknown"])
    BY <1>5 DEF PutIntent
  <2>4. visit' \in [Visits -> VisitStates]
    <3>1. [pc |-> "request", attempt |-> n] \in VisitStates
      BY <1>0, <2>1
    <3>2. [pc |-> "settle", attempt |-> n, code |-> "unknown"] \in VisitStates
      BY <1>0, <2>1
    <3>3. QED
      BY <2>3, <3>1, <3>2 DEF Move
  <2>5. UNCHANGED <<call, artifact, claim, result, requests, images, worker, cancelled, refused>>
    BY <1>5 DEF PutIntent, ledgers, provider
  <2>6. QED
    BY <2>2, <2>4, <2>5
<1>6. CASE RequestImage(v)
  <2>1. n \in Attempts
    BY <1>f, <1>6 DEF RequestImage
  <2>2. requests' \in [Attempts -> Nat]
    BY <1>6, <2>1 DEF RequestImage
  <2>3. visit' \in [Visits -> VisitStates]
    <3>1. [pc |-> "provider", attempt |-> n] \in VisitStates
      BY <1>0, <2>1
    <3>2. [pc |-> "store", attempt |-> n, outcome |-> "final"] \in VisitStates
      BY <1>0, <2>1 DEF Outcomes
    <3>3. QED
      BY <1>6, <3>1, <3>2 DEF RequestImage, Move
  <2>4. QED
    BY <1>6, <2>2, <2>3 DEF RequestImage, ledgers, adapter
<1>7. CASE ProviderAnswers(v)
  <2>1. n \in Attempts
    BY <1>f, <1>7 DEF ProviderAnswers
  <2>2. images' \subseteq Attempts
    BY <1>7, <2>1 DEF ProviderAnswers
  <2>3. PICK outcome \in Outcomes \cup {"unknown"} :
          Move(v, IF outcome = "unknown"
                    THEN [pc |-> "settle", attempt |-> n, code |-> "unknown"]
                    ELSE [pc |-> "store", attempt |-> n, outcome |-> outcome])
    BY <1>7 DEF ProviderAnswers, ResponseOutcomes, Outcomes
  <2>4. visit' \in [Visits -> VisitStates]
    BY <1>0, <2>1, <2>3 DEF Move
  <2>5. QED
    BY <1>7, <2>2, <2>4 DEF ProviderAnswers, ledgers, adapter
<1>8. CASE PutResult(v)
  <2>1. n \in Attempts /\ visit[v].outcome \in Outcomes
    BY <1>8, VisitFields DEF PutResult
  <2>2. result' \in [Attempts -> {"none"} \cup Outcomes]
    BY <1>8, <2>1 DEF PutResult
  <2>3. PICK c \in Outcomes \cup {"unknown"} : Move(v, [pc |-> "settle", attempt |-> n, code |-> c])
    BY <1>8, <2>1 DEF PutResult
  <2>4. visit' \in [Visits -> VisitStates]
    BY <1>0, <2>1, <2>3 DEF Move
  <2>5. QED
    BY <1>8, <2>2, <2>4 DEF PutResult, ledgers, provider
<1>9. CASE Settle(v)
  <2>1. n \in Attempts
    BY <1>f, <1>9 DEF Settle
  <2>2. claim' \in [Attempts -> {"none", "intent"} \cup Outcomes]
    BY <1>9, <2>1 DEF Settle
  <2>3. \E c, m : Reply(v, c, m)
    BY <1>9 DEF Settle
  <2>4. QED
    BY <1>9, <2>2, <2>3, ReplyTyped DEF Settle, ledgers, provider
<1>10. CASE VisitDies(v)
  BY <1>f, <1>10, ReplyTyped DEF VisitDies, ledgers, adapter
<1>11. QED
  BY <1>1, <1>2, <1>3, <1>4, <1>5, <1>6, <1>7, <1>8, <1>9, <1>10 DEF VisitNext

-----------------------------------------------------------------------------
(* The inductive invariant. *)

\* The Coordinator opens an attempt only when all before it failed retryably.
CallsInOrder ==
  \A n \in Attempts : call[n] # "none" => \A m \in 1..(n - 1) : call[m] = "retryable"

\* What the Coordinator recorded of an attempt is what R2 and the artifact say.
CallsBacked ==
  \A n \in Attempts :
    /\ call[n] = "retryable" => result[n] = "retryable"
    /\ call[n] = "success" => artifact = n /\ result[n] = "success"
    /\ call[n] = "final" => result[n] = "final" \/ refused[n] # {}

\* Each store was written after the one before it: ledger, claim, intent,
\* request, image, result; a request leaves once and a refusal drew nothing.
StoresTrace ==
  \A n \in Attempts :
    /\ claim[n] # "none" => call[n] # "none"
    /\ claim[n] \in Outcomes => result[n] = claim[n]
    /\ intent[n] => claim[n] # "none"
    /\ result[n] # "none" => intent[n]
    /\ requests[n] > 0 => intent[n]
    /\ requests[n] <= 1
    /\ n \in images => requests[n] > 0
    /\ result[n] = "retryable" => requests[n] > 0 /\ n \notin images

\* The states in which a visit owns its attempt: it put the intent and has not
\* put the result.
Owning == {"request", "provider", "store"}

\* What a visit may rely on at each of its awaits.
VisitOK(s) ==
  /\ s.pc # "free" => call[s.attempt] # "none"
  /\ s.pc \in {"process", "intend", "settle"} \cup Owning => claim[s.attempt] # "none"
  /\ s.pc = "collected" => \A m \in s.evidence : result[m] # "none"
  /\ s.pc \in Owning => intent[s.attempt] /\ result[s.attempt] = "none"
  /\ s.pc = "request" => requests[s.attempt] = 0
  /\ s.pc = "provider" => requests[s.attempt] > 0 /\ s.attempt \notin images
  /\ s.pc = "store" /\ s.outcome = "retryable" => requests[s.attempt] > 0 /\ s.attempt \notin images
  /\ s.pc = "settle" /\ s.code # "unknown" => result[s.attempt] = s.code

\* An attempt has at most one owner.
OneOwner ==
  \A u, v \in Visits :
    visit[u].pc \in Owning /\ visit[v].pc \in Owning /\ visit[u].attempt = visit[v].attempt => u = v

\* Every visit at every await.
VisitsHonest == (\A v \in Visits : VisitOK(visit[v])) /\ OneOwner

\* What a worker may rely on at each of its awaits.
WorkerOK(s) ==
  /\ s.pc \in {"ask", "waiting"} => call[s.attempt] # "none"
  /\ s.pc = "record" =>
       \/ result[s.attempt] = s.outcome
       \/ s.outcome = "final" /\ refused[s.attempt] # {}
  /\ s.pc \in {"persist", "succeed"} => result[s.attempt] = "success"
  /\ s.pc = "succeed" => artifact = s.attempt
  /\ s.pc = "waiting" => visit[s.visit].pc # "free" /\ visit[s.visit].attempt = s.attempt

\* A visit answers one worker.
OneWaiter ==
  \A x, y \in Workers :
    worker[x].pc = "waiting" /\ worker[y].pc = "waiting" /\ worker[x].visit = worker[y].visit => x = y

\* Every worker at every await.
WorkersHonest == (\A w \in Workers : WorkerOK(worker[w])) /\ OneWaiter

\* The inductive invariant. The properties alone are not inductive: that an
\* image is drawn once rests on the intent having one owner, that a recorded
\* failure is one on what the worker at "record" and the visit at "settle" hold.
IInv == TypeOK /\ CallsInOrder /\ CallsBacked /\ StoresTrace /\ VisitsHonest /\ WorkersHonest

\* The invariant holds when nothing has been asked for.
LEMMA InitIInv == Init => IInv
<1> SUFFICES ASSUME Init PROVE IInv
  OBVIOUS
<1> USE VisualCallsOK DEF VisualCallsAssumption, Init
<1>1. Idle \in WorkerStates /\ [pc |-> "free"] \in VisitStates
  BY DEF Idle, WorkerStates, VisitStates
<1>2. TypeOK
  <2>1. worker \in [Workers -> WorkerStates] /\ visit \in [Visits -> VisitStates]
    BY <1>1
  <2>2. artifact \in 0..MaxAttempts /\ requests \in [Attempts -> Nat] /\ images \subseteq Attempts
    OBVIOUS
  <2>3. /\ call \in [Attempts -> {"none", "intent"} \cup Outcomes]
        /\ claim \in [Attempts -> {"none", "intent"} \cup Outcomes]
        /\ result \in [Attempts -> {"none"} \cup Outcomes]
    OBVIOUS
  <2>4. /\ intent \in [Attempts -> BOOLEAN] /\ cancelled \in BOOLEAN
        /\ refused \in [Attempts -> SUBSET {"execute", "reconcile"}]
    OBVIOUS
  <2>5. QED
    BY <2>1, <2>2, <2>3, <2>4 DEF TypeOK
<1>3. CallsInOrder /\ CallsBacked /\ StoresTrace
  BY DEF CallsInOrder, CallsBacked, StoresTrace, Outcomes
<1>4. VisitsHonest
  BY DEF VisitsHonest, VisitOK, OneOwner, Owning
<1>5. WorkersHonest
  BY DEF WorkersHonest, WorkerOK, OneWaiter, Idle
<1>6. QED
  BY <1>2, <1>3, <1>4, <1>5 DEF IInv

-----------------------------------------------------------------------------
(* What steps preserve. *)

\* Nothing the stores hold is taken back.
Grows ==
  /\ \A n \in Attempts :
       /\ call[n] # "none" => call'[n] # "none"
       /\ claim[n] # "none" => claim'[n] # "none"
       /\ intent[n] => intent'[n]
       /\ result[n] # "none" => result'[n] = result[n]
       /\ refused[n] \subseteq refused'[n]
  /\ artifact # 0 => artifact' = artifact

\* Workers keep what they rely on through a step of growing stores.
LEMMA WorkersKept ==
  ASSUME TypeOK, TypeOK', WorkersHonest, Grows,
         \A x \in Workers :
           worker'[x] = worker[x] \/ (worker'[x].pc # "waiting" /\ WorkerOK(worker[x])'),
         \A x \in Workers : worker[x].pc = "waiting" /\ worker'[x] = worker[x] =>
           visit'[worker[x].visit].pc # "free" /\ visit'[worker[x].visit].attempt = worker[x].attempt
  PROVE  WorkersHonest'
<1>1. OneWaiter'
  BY DEF WorkersHonest, OneWaiter
<1>2. ASSUME NEW x \in Workers, worker'[x] = worker[x]
      PROVE  WorkerOK(worker[x])'
  <2>1. /\ worker[x].pc # "idle" => worker[x].attempt \in Attempts
        /\ worker[x].pc = "record" => worker[x].outcome \in {"retryable", "final"}
    BY WorkerFields DEF TypeOK
  <2>2. WorkerOK(worker[x])
    BY DEF WorkersHonest
  <2>3. artifact = worker[x].attempt /\ worker[x].pc = "succeed" => artifact # 0
    BY <2>1 DEF Attempts
  <2>4. QED
    BY <1>2, <2>1, <2>2, <2>3 DEF WorkerOK, Grows
<1>3. QED
  BY <1>1, <1>2 DEF WorkersHonest

\* A visit at rest keeps what it relies on, unless it owns an attempt whose
\* result, requests or images change.
LEMMA VisitKept ==
  ASSUME TypeOK, VisitsHonest, Grows, NEW u \in Visits, visit'[u] = visit[u],
         visit[u].pc \in Owning =>
           /\ result'[visit[u].attempt] = result[visit[u].attempt]
           /\ requests'[visit[u].attempt] = requests[visit[u].attempt]
           /\ visit[u].attempt \in images' => visit[u].attempt \in images
  PROVE  VisitOK(visit[u])'
<1>1. /\ visit[u].pc # "free" => visit[u].attempt \in Attempts
      /\ visit[u].pc = "collected" => visit[u].evidence \subseteq Attempts
      /\ visit[u].pc = "settle" => visit[u].code \in Outcomes \cup {"unknown"}
  BY VisitFields DEF TypeOK
<1>2. VisitOK(visit[u])
  BY DEF VisitsHonest
<1>3. visit[u].pc = "free" => VisitOK(visit[u])'
  BY DEF VisitOK, Owning
<1>4. visit[u].pc = "collected" => VisitOK(visit[u])'
  BY <1>1, <1>2 DEF VisitOK, Grows, Owning
<1>5. visit[u].pc \in Owning => VisitOK(visit[u])'
  BY <1>1, <1>2 DEF VisitOK, Grows, Owning
<1>6. visit[u].pc = "settle" => VisitOK(visit[u])'
  BY <1>1, <1>2 DEF VisitOK, Grows, Owning, Outcomes
<1>7. visit[u].pc \notin Owning \cup {"free", "collected", "settle"} => VisitOK(visit[u])'
  BY <1>1, <1>2 DEF VisitOK, Grows, Owning
<1>8. QED
  BY <1>3, <1>4, <1>5, <1>6, <1>7

\* Visits keep what they rely on through a step that makes no new owner.
LEMMA VisitsKept ==
  ASSUME TypeOK, VisitsHonest, Grows,
         \A u \in Visits : \/ VisitOK(visit[u])'
                           \/ /\ visit'[u] = visit[u]
                              /\ visit[u].pc \in Owning =>
                                   /\ result'[visit[u].attempt] = result[visit[u].attempt]
                                   /\ requests'[visit[u].attempt] = requests[visit[u].attempt]
                                   /\ visit[u].attempt \in images' => visit[u].attempt \in images,
         \A u \in Visits : visit'[u].pc \in Owning =>
           visit[u].pc \in Owning /\ visit'[u].attempt = visit[u].attempt
  PROVE  VisitsHonest'
<1>1. OneOwner'
  BY DEF VisitsHonest, OneOwner
<1>2. QED
  BY <1>1, VisitKept DEF VisitsHonest

\* A reply that tells the truth about R2 leaves every worker honest.
LEMMA ReplyKept ==
  ASSUME TypeOK, TypeOK', WorkersHonest, Grows, NEW v \in Visits, NEW code, NEW n,
         visit[v].pc # "free", Reply(v, code, n),
         code # "unknown" => code \in Outcomes /\ n = visit[v].attempt /\ result'[n] = code
  PROVE  WorkersHonest'
<1>1. \A u \in Visits : u # v => visit'[u] = visit[u]
  BY DEF Reply, Move, TypeOK
<1>2. CASE (\A w \in Workers : worker[w].pc = "waiting" => worker[w].visit # v) /\ UNCHANGED worker
  <2>1. \A x \in Workers : worker[x].pc = "waiting" => worker[x].visit \in Visits /\ WorkerOK(worker[x])
    BY WorkerFields DEF TypeOK, WorkersHonest
  <2>2. \A x \in Workers : worker[x].pc = "waiting" =>
          visit'[worker[x].visit].pc # "free" /\ visit'[worker[x].visit].attempt = worker[x].attempt
    BY <1>1, <1>2, <2>1 DEF WorkerOK
  <2>3. QED
    BY <1>2, <2>2, WorkersKept
<1>3. ASSUME NEW w \in Workers, worker[w].pc = "waiting", worker[w].visit = v, TakeAnswer(w, code, n)
      PROVE  WorkersHonest'
  <2>1. worker[w].attempt = visit[v].attempt /\ worker[w].attempt \in Attempts
    BY <1>3, WorkerFields DEF TypeOK, WorkersHonest, WorkerOK
  <2>2. \A x \in Workers : x # w => worker'[x] = worker[x]
    BY <1>3 DEF TakeAnswer, Become, TypeOK
  <2>3. worker'[w].pc # "waiting" /\ WorkerOK(worker[w])'
    BY <1>3, <2>1 DEF TakeAnswer, Become, TypeOK, WorkerOK, Idle, Outcomes
  <2>4. \A x \in Workers : worker[x].pc = "waiting" => worker[x].visit \in Visits /\ WorkerOK(worker[x])
    BY WorkerFields DEF TypeOK, WorkersHonest
  <2>5. \A x \in Workers : worker[x].pc = "waiting" /\ worker'[x] = worker[x] =>
          visit'[worker[x].visit].pc # "free" /\ visit'[worker[x].visit].attempt = worker[x].attempt
    BY <1>1, <1>3, <2>3, <2>4 DEF WorkerOK, WorkersHonest, OneWaiter
  <2>6. QED
    BY <2>2, <2>3, <2>5, WorkersKept
<1>4. QED
  BY <1>2, <1>3 DEF Reply

\* A step of a worker that writes no store.
LEMMA WorkerAlone ==
  ASSUME IInv, TypeOK', NEW w \in Workers,
         UNCHANGED <<ledgers, adapter, provider, visit>>,
         \A m \in Attempts : refused[m] \subseteq refused'[m],
         \A x \in Workers : x # w => worker'[x] = worker[x],
         worker'[w].pc # "waiting", WorkerOK(worker[w])'
  PROVE  IInv'
<1>1. UNCHANGED <<call, artifact, claim, intent, result, requests, images, visit>>
  BY DEF ledgers, adapter, provider
<1>2. CallsInOrder' /\ CallsBacked' /\ StoresTrace'
  BY <1>1 DEF IInv, CallsInOrder, CallsBacked, StoresTrace
<1>3. VisitsHonest'
  BY <1>1 DEF IInv, VisitsHonest, VisitOK, OneOwner
<1>4. Grows
  BY <1>1 DEF Grows
<1>5. WorkersHonest'
  <2>1. \A x \in Workers : worker[x].pc = "waiting" =>
          visit'[worker[x].visit].pc # "free" /\ visit'[worker[x].visit].attempt = worker[x].attempt
    BY <1>1 DEF IInv, WorkersHonest, WorkerOK
  <2>2. QED
    BY <1>4, <2>1, WorkersKept DEF IInv
<1>6. QED
  BY <1>2, <1>3, <1>5 DEF IInv

\* A step that writes the Coordinator's ledger.
LEMMA CallWritten ==
  ASSUME IInv, TypeOK', NEW w \in Workers, NEW n \in Attempts, NEW c \in {"intent"} \cup Outcomes,
         call' = [call EXCEPT ![n] = c],
         UNCHANGED <<artifact, adapter, provider, visit, refused>>,
         \A x \in Workers : x # w => worker'[x] = worker[x],
         worker'[w].pc # "waiting", WorkerOK(worker[w])',
         \/ c = "intent" /\ call[n] = "none" /\ \A m \in 1..(n - 1) : call[m] = "retryable"
         \/ call[n] \in {"intent", c},
         c = "retryable" => result[n] = c,
         c = "final" => result[n] = c \/ refused[n] # {},
         c = "success" => artifact = n /\ result[n] = "success"
  PROVE  IInv'
<1>1. UNCHANGED <<artifact, claim, intent, result, requests, images, visit, refused>>
  BY DEF adapter, provider
<1>2. /\ call'[n] = c /\ c # "none"
      /\ \A m \in Attempts : m # n => call'[m] = call[m]
  BY DEF IInv, TypeOK, Outcomes
<1>3. CallsInOrder'
  <2>1. SUFFICES ASSUME NEW k \in Attempts, call'[k] # "none", NEW m \in 1..(k - 1)
                 PROVE  call'[m] = "retryable"
    BY DEF CallsInOrder
  <2>2. m \in Attempts /\ m # k
    BY VisualCallsOK DEF VisualCallsAssumption, Attempts
  <2>3. CASE k = n
    BY <1>2, <2>2, <2>3 DEF IInv, CallsInOrder, Outcomes
  <2>4. CASE k # n
    <3>1. call[m] = "retryable"
      BY <1>2, <2>1, <2>4 DEF IInv, CallsInOrder
    <3>2. QED
      BY <1>2, <2>2, <3>1
  <2>5. QED
    BY <2>3, <2>4
<1>4. CallsBacked'
  BY <1>1, <1>2 DEF IInv, CallsBacked
<1>5. StoresTrace'
  BY <1>1, <1>2 DEF IInv, StoresTrace
<1>6. Grows
  BY <1>1, <1>2 DEF Grows
<1>7. VisitsHonest'
  BY <1>1, <1>6, VisitsKept DEF IInv
<1>8. WorkersHonest'
  <2>1. \A x \in Workers : worker[x].pc = "waiting" =>
          visit'[worker[x].visit].pc # "free" /\ visit'[worker[x].visit].attempt = worker[x].attempt
    BY <1>1 DEF IInv, WorkersHonest, WorkerOK
  <2>2. QED
    BY <1>6, <2>1, WorkersKept DEF IInv
<1>9. QED
  BY <1>3, <1>4, <1>5, <1>7, <1>8 DEF IInv

\* Every step of an execution of the visual step preserves the invariant.
LEMMA WorkerStep ==
  ASSUME IInv, NEW w \in Workers, WorkerNext(w)
  PROVE  IInv'
<1> DEFINE n == worker[w].attempt
<1>0. TypeOK' /\ TypeOK
  BY WorkerTyped DEF IInv
<1>a. /\ worker[w].pc # "idle" => n \in Attempts
      /\ worker[w].pc = "record" => worker[w].outcome \in {"retryable", "final"}
      /\ WorkerOK(worker[w])
  BY <1>0, WorkerFields DEF TypeOK, IInv, WorkersHonest
<1>b. ASSUME NEW s, Become(w, s)
      PROVE  worker'[w] = s /\ \A x \in Workers : x # w => worker'[x] = worker[x]
  BY <1>0, <1>b DEF Become, TypeOK
<1>c. ASSUME Become(w, Idle)
      PROVE  worker'[w].pc # "waiting" /\ WorkerOK(worker[w])'
  BY <1>b, <1>c DEF WorkerOK, Idle
<1>d. ASSUME NEW m, ContinueWith(w, m)
      PROVE  /\ worker'[w].pc # "waiting" /\ WorkerOK(worker[w])'
             /\ \A x \in Workers : x # w => worker'[x] = worker[x]
  BY <1>0, <1>d DEF ContinueWith, Become, TypeOK, WorkerOK, Idle
<1>1. CASE StartStep(w)
  <2>1. worker'[w] = [pc |-> "head", attempt |-> 1]
    BY <1>1, <1>b DEF StartStep
  <2>2. worker'[w].pc # "waiting" /\ WorkerOK(worker[w])'
    BY <2>1 DEF WorkerOK
  <2>3. QED
    BY <1>0, <1>1, <1>b, <2>2, WorkerAlone DEF StartStep
<1>2. CASE ReenterHold(w)
  <2>1. PICK m \in InFlight : Become(w, [pc |-> "ask", mode |-> "reenter", attempt |-> m])
    BY <1>2 DEF ReenterHold
  <2>2. worker'[w].pc # "waiting" /\ WorkerOK(worker[w])'
    BY <1>2, <1>b, <2>1 DEF WorkerOK, InFlight, ReenterHold, ledgers
  <2>3. QED
    BY <1>0, <1>2, <1>b, <2>1, <2>2, WorkerAlone DEF ReenterHold
<1>3. CASE CheckCancelled(w)
  <2>1. CASE Become(w, Idle)
    BY <1>0, <1>3, <1>b, <1>c, <2>1, WorkerAlone DEF CheckCancelled
  <2>2. CASE Become(w, [pc |-> "prepare", attempt |-> n])
    <3>1. worker'[w].pc # "waiting" /\ WorkerOK(worker[w])'
      BY <1>b, <2>2 DEF WorkerOK
    <3>2. QED
      BY <1>0, <1>3, <1>b, <2>2, <3>1, WorkerAlone DEF CheckCancelled
  <2>3. QED
    BY <1>3, <2>1, <2>2 DEF CheckCancelled
<1>4. CASE Prepare(w)
  <2>1. n \in Attempts /\ UNCHANGED <<artifact, adapter, provider, visit, refused>>
    BY <1>4, <1>a DEF Prepare
  <2>2. CASE /\ PrepareStatus(n) = "prepared"
             /\ call' = [call EXCEPT ![n] = "intent"]
             /\ Become(w, [pc |-> "ask", mode |-> "execute", attempt |-> n])
    <3>1. call[n] = "none" /\ \A m \in 1..(n - 1) : call[m] = "retryable"
      BY <1>0, <2>1, <2>2 DEF PrepareStatus, Settled, InFlight, TypeOK, Attempts
    <3>2. call'[n] = "intent"
      BY <1>0, <2>1, <2>2 DEF TypeOK
    <3>3. worker'[w].pc # "waiting" /\ WorkerOK(worker[w])'
      BY <1>b, <2>2, <3>2 DEF WorkerOK
    <3>4. QED
      BY <1>0, <1>b, <2>1, <2>2, <3>1, <3>3, CallWritten DEF Outcomes
  <2>3. CASE (\E m \in InFlight : Become(w, [pc |-> "ask", mode |-> "reconcile", attempt |-> m])) /\ UNCHANGED call
    <3>1. PICK m \in InFlight : Become(w, [pc |-> "ask", mode |-> "reconcile", attempt |-> m])
      BY <2>3
    <3>2. worker'[w].pc # "waiting" /\ WorkerOK(worker[w])'
      BY <1>b, <2>3, <3>1 DEF WorkerOK, InFlight
    <3>3. QED
      BY <1>0, <1>b, <2>1, <2>3, <3>1, <3>2, WorkerAlone DEF ledgers
  <2>4. CASE (\E m \in Settled : IsLatest(m) /\ ContinueWith(w, m + 1)) /\ UNCHANGED call
    <3>1. PICK m : ContinueWith(w, m)
      BY <2>4
    <3>2. QED
      BY <1>0, <1>d, <2>1, <2>4, <3>1, WorkerAlone DEF ledgers
  <2>5. CASE Become(w, Idle) /\ UNCHANGED call
    BY <1>0, <1>b, <1>c, <2>1, <2>5, WorkerAlone DEF ledgers
  <2>6. QED
    BY <1>4, <2>2, <2>3, <2>4, <2>5 DEF Prepare
<1>5. ASSUME NEW v \in Visits, SendRequest(w, v)
      PROVE  IInv'
  <2>1. /\ UNCHANGED <<call, artifact, claim, intent, result, requests, images, refused>>
        /\ n \in Attempts /\ call[n] # "none"
    BY <1>5, <1>a DEF SendRequest, ledgers, adapter, provider, WorkerOK
  <2>2. /\ visit'[v].pc \in {"arrived", "reading"} /\ visit'[v].attempt = n
        /\ \A u \in Visits : u # v => visit'[u] = visit[u]
    BY <1>0, <1>5 DEF SendRequest, TypeOK
  <2>3. /\ worker'[w].pc = "waiting" /\ worker'[w].attempt = n /\ worker'[w].visit = v
        /\ \A x \in Workers : x # w => worker'[x] = worker[x]
    BY <1>5, <1>b DEF SendRequest
  <2>4. CallsInOrder' /\ CallsBacked' /\ StoresTrace'
    BY <2>1 DEF IInv, CallsInOrder, CallsBacked, StoresTrace
  <2>5. Grows
    BY <2>1 DEF Grows
  <2>6. VisitOK(visit[v])'
    BY <2>1, <2>2 DEF VisitOK, Owning
  <2>7. VisitsHonest'
    BY <1>0, <2>1, <2>2, <2>5, <2>6, VisitsKept DEF IInv, Owning
  <2>8. \A x \in Workers : x # w /\ worker[x].pc = "waiting" =>
          /\ worker[x].visit \in Visits \ {v}
          /\ visit[worker[x].visit].pc # "free" /\ visit[worker[x].visit].attempt = worker[x].attempt
    BY <1>0, <1>5, WorkerFields DEF SendRequest, TypeOK, IInv, WorkersHonest, WorkerOK
  <2>9. OneWaiter'
    BY <2>3, <2>8 DEF IInv, WorkersHonest, OneWaiter
  <2>10. ASSUME NEW x \in Workers
         PROVE  WorkerOK(worker[x])'
    <3>1. CASE x = w
      BY <2>1, <2>2, <2>3, <3>1 DEF WorkerOK
    <3>2. CASE x # w
      BY <2>1, <2>2, <2>3, <2>8, <3>2 DEF IInv, WorkersHonest, WorkerOK
    <3>3. QED
      BY <3>1, <3>2
  <2>11. QED
    BY <1>0, <2>4, <2>7, <2>9, <2>10 DEF IInv, WorkersHonest
<1>6. CASE StopCancelled(w)
  BY <1>0, <1>6, <1>b, <1>c, WorkerAlone DEF StopCancelled
<1>7. CASE RefuseRequest(w)
  <2>1. /\ n \in Attempts /\ refused'[n] # {}
        /\ \A m \in Attempts : refused[m] \subseteq refused'[m]
    BY <1>0, <1>7, <1>a DEF RefuseRequest, TypeOK
  <2>2. Become(w, [pc |-> "record", mode |-> worker[w].mode, attempt |-> n, outcome |-> "final"])
    BY <1>7 DEF RefuseRequest, TakeAnswer
  <2>3. worker'[w].pc # "waiting" /\ WorkerOK(worker[w])'
    BY <1>b, <2>1, <2>2 DEF WorkerOK
  <2>4. QED
    BY <1>0, <1>7, <1>b, <2>1, <2>2, <2>3, WorkerAlone DEF RefuseRequest
<1>8. CASE LoseAnswer(w)
  BY <1>0, <1>8, <1>b, <1>c, WorkerAlone DEF LoseAnswer, TakeAnswer
<1>9. CASE RecordFailure(w)
  <2> DEFINE outcome == worker[w].outcome
  <2>1. /\ n \in Attempts /\ outcome \in {"retryable", "final"}
        /\ UNCHANGED <<artifact, adapter, provider, visit, refused>>
        /\ outcome = "retryable" => result[n] = outcome
        /\ outcome = "final" => result[n] = outcome \/ refused[n] # {}
    BY <1>9, <1>a DEF RecordFailure, WorkerOK
  <2>2. \/ Become(w, Idle)
        \/ \E m : ContinueWith(w, m)
    BY <1>9 DEF RecordFailure
  <2>3. /\ worker'[w].pc # "waiting" /\ WorkerOK(worker[w])'
        /\ \A x \in Workers : x # w => worker'[x] = worker[x]
    BY <1>b, <1>c, <1>d, <2>2
  <2>4. CASE RecordAccepted(n, outcome) /\ call' = [call EXCEPT ![n] = outcome]
    BY <1>0, <2>1, <2>3, <2>4, CallWritten DEF RecordAccepted, Outcomes
  <2>5. CASE UNCHANGED call
    BY <1>0, <2>1, <2>3, <2>5, WorkerAlone DEF ledgers
  <2>6. QED
    BY <1>9, <2>4, <2>5 DEF RecordFailure
<1>10. CASE PersistArtifact(w)
  <2>1. /\ n \in Attempts /\ result[n] = "success"
        /\ UNCHANGED <<call, claim, intent, result, requests, images, visit, refused>>
    BY <1>10, <1>a DEF PersistArtifact, WorkerOK, adapter, provider
  <2>2. CASE artifact \in {0, n} /\ artifact' = n /\ Become(w, [pc |-> "succeed", attempt |-> n])
    <3>1. CallsInOrder' /\ StoresTrace'
      BY <2>1 DEF IInv, CallsInOrder, StoresTrace
    <3>2. CallsBacked'
      BY <2>1, <2>2 DEF IInv, CallsBacked, Attempts
    <3>3. Grows
      BY <2>1, <2>2 DEF Grows
    <3>4. VisitsHonest'
      BY <2>1 DEF IInv, VisitsHonest, VisitOK, OneOwner
    <3>5. worker'[w].pc # "waiting" /\ WorkerOK(worker[w])'
      BY <1>b, <2>1, <2>2 DEF WorkerOK
    <3>6. \A x \in Workers : worker[x].pc = "waiting" =>
            visit'[worker[x].visit].pc # "free" /\ visit'[worker[x].visit].attempt = worker[x].attempt
      BY <2>1 DEF IInv, WorkersHonest, WorkerOK
    <3>7. WorkersHonest'
      BY <1>0, <1>b, <2>2, <3>3, <3>5, <3>6, WorkersKept DEF IInv
    <3>8. QED
      BY <1>0, <3>1, <3>2, <3>4, <3>7 DEF IInv
  <2>3. CASE Become(w, Idle) /\ UNCHANGED artifact
    BY <1>0, <1>10, <1>b, <1>c, <2>1, <2>3, WorkerAlone DEF PersistArtifact, ledgers
  <2>4. QED
    BY <1>10, <2>2, <2>3 DEF PersistArtifact
<1>11. CASE RecordSuccess(w)
  <2>1. /\ n \in Attempts /\ artifact = n /\ result[n] = "success"
        /\ Become(w, Idle) /\ UNCHANGED <<artifact, adapter, provider, visit, refused>>
    BY <1>11, <1>a DEF RecordSuccess, WorkerOK
  <2>2. CASE RecordAccepted(n, "success") /\ call' = [call EXCEPT ![n] = "success"]
    BY <1>0, <1>b, <1>c, <2>1, <2>2, CallWritten DEF RecordAccepted, Outcomes
  <2>3. CASE UNCHANGED call
    BY <1>0, <1>b, <1>c, <2>1, <2>3, WorkerAlone DEF ledgers
  <2>4. QED
    BY <1>11, <2>2, <2>3 DEF RecordSuccess
<1>12. CASE WorkerDies(w)
  BY <1>0, <1>12, <1>b, <1>c, WorkerAlone DEF WorkerDies
<1>13. QED
  BY <1>1, <1>2, <1>3, <1>4, <1>5, <1>6, <1>7, <1>8, <1>9, <1>10, <1>11, <1>12 DEF WorkerNext

\* A step that leaves the Coordinator and the artifact alone.
\* The Coordinator's ledger stays right while only the other stores grow.
LEMMA CallsKept ==
  ASSUME TypeOK, CallsInOrder, CallsBacked, Grows, UNCHANGED ledgers
  PROVE  CallsInOrder' /\ CallsBacked'
<1>1. call' = call /\ artifact' = artifact
  BY DEF ledgers
<1>2. CallsInOrder'
  BY <1>1 DEF CallsInOrder
<1>3. CallsBacked'
  BY <1>1 DEF CallsBacked, Grows
<1>4. QED
  BY <1>2, <1>3

\* A visit goes on with the same attempt.
LEMMA VisitGoesOn ==
  ASSUME TypeOK, TypeOK', WorkersHonest, Grows, NEW v \in Visits, UNCHANGED worker,
         \A u \in Visits : u # v => visit'[u] = visit[u],
         visit'[v].pc # "free", visit'[v].attempt = visit[v].attempt
  PROVE  WorkersHonest'
<1>1. \A x \in Workers : worker[x].pc = "waiting" => worker[x].visit \in Visits /\ WorkerOK(worker[x])
  BY WorkerFields DEF TypeOK, WorkersHonest
<1>2. \A x \in Workers : worker[x].pc = "waiting" =>
        visit'[worker[x].visit].pc # "free" /\ visit'[worker[x].visit].attempt = worker[x].attempt
  BY <1>1 DEF WorkerOK
<1>3. QED
  BY <1>2, WorkersKept

\* A step of a visit that writes no store.
LEMMA VisitAlone ==
  ASSUME IInv, TypeOK', NEW v \in Visits,
         UNCHANGED <<ledgers, adapter, provider, worker, refused>>,
         \A u \in Visits : u # v => visit'[u] = visit[u],
         visit'[v].pc \notin Owning \cup {"free"}, visit'[v].attempt = visit[v].attempt,
         VisitOK(visit[v])'
  PROVE  IInv'
<1>1. UNCHANGED <<call, artifact, claim, intent, result, requests, images, worker, refused>>
  BY DEF ledgers, adapter, provider
<1>2. Grows
  BY <1>1 DEF Grows
<1>3. CallsInOrder' /\ CallsBacked' /\ StoresTrace'
  BY <1>1 DEF IInv, CallsInOrder, CallsBacked, StoresTrace
<1>4. VisitsHonest'
  BY <1>1, <1>2, VisitsKept DEF IInv
<1>5. WorkersHonest'
  BY <1>1, <1>2, VisitGoesOn DEF IInv
<1>6. QED
  BY <1>3, <1>4, <1>5 DEF IInv

\* Every step of a visit to the image adapter preserves the invariant.
LEMMA VisitStep ==
  ASSUME IInv, NEW v \in Visits, VisitNext(v)
  PROVE  IInv'
<1> DEFINE n == visit[v].attempt
<1>0. TypeOK' /\ TypeOK
  BY VisitTyped DEF IInv
<1>a. /\ visit[v].pc # "free" => n \in Attempts
      /\ visit[v].pc = "collected" => visit[v].evidence \subseteq Attempts
      /\ visit[v].pc = "store" => visit[v].outcome \in Outcomes
      /\ visit[v].pc = "settle" => visit[v].code \in Outcomes \cup {"unknown"}
      /\ VisitOK(visit[v])
  BY <1>0, VisitFields DEF TypeOK, IInv, VisitsHonest
<1>b. ASSUME NEW s, Move(v, s)
      PROVE  visit'[v] = s /\ \A u \in Visits : u # v => visit'[u] = visit[u]
  BY <1>0, <1>b DEF Move, TypeOK
<1>c. ASSUME NEW c, NEW m, Reply(v, c, m)
      PROVE  /\ visit'[v].pc = "free" /\ VisitOK(visit[v])'
             /\ \A u \in Visits : u # v => visit'[u] = visit[u]
  BY <1>b, <1>c DEF Reply, VisitOK, Owning
\* No other visit owns the attempt this one owns.
<1>d. ASSUME visit[v].pc \in Owning, NEW u \in Visits, u # v, visit[u].pc \in Owning
      PROVE  visit[u].attempt \in Attempts /\ visit[u].attempt # n
  BY <1>0, <1>d, VisitFields DEF IInv, VisitsHonest, OneOwner, TypeOK, Owning
<1>1. CASE Reconcile(v)
  <2>1. /\ UNCHANGED <<call, artifact, claim, intent, result, requests, images, ledgers, refused>>
        /\ n \in Attempts /\ result[n] \in {"none"} \cup Outcomes /\ visit[v].pc # "free"
    BY <1>0, <1>1, <1>a DEF Reconcile, ledgers, adapter, provider, TypeOK
  <2>2. PICK code : /\ Reply(v, code, n)
                    /\ code # "unknown" => code \in Outcomes /\ result[n] = code
    BY <1>1, <2>1 DEF Reconcile
  <2>3. Grows
    BY <2>1 DEF Grows
  <2>4. CallsInOrder' /\ CallsBacked' /\ StoresTrace'
    BY <2>1 DEF IInv, CallsInOrder, CallsBacked, StoresTrace
  <2>5. VisitsHonest'
    BY <1>0, <1>c, <2>1, <2>2, <2>3, VisitsKept DEF IInv, Owning
  <2>6. WorkersHonest'
    BY <1>0, <2>1, <2>2, <2>3, ReplyKept DEF IInv
  <2>7. QED
    BY <1>0, <2>4, <2>5, <2>6 DEF IInv
<1>2. CASE CollectEvidence(v)
  <2>1. PICK seen \in SUBSET Attempts :
          /\ Move(v, [pc |-> "collected", attempt |-> n, evidence |-> seen])
          /\ \A m \in seen : result[m] # "none"
    <3>1. 1..n \subseteq Attempts
      BY <1>2, <1>a, VisualCallsOK DEF CollectEvidence, Attempts, VisualCallsAssumption
    <3>2. QED
      BY <1>2, <3>1 DEF CollectEvidence
  <2>2. VisitOK(visit[v])'
    BY <1>2, <1>a, <1>b, <2>1 DEF VisitOK, Owning, CollectEvidence, ledgers, adapter
  <2>3. QED
    BY <1>0, <1>2, <1>b, <2>1, <2>2, VisitAlone DEF CollectEvidence, Owning
<1>3. CASE Claim(v)
  <2> DEFINE repaired == RepairedClaims(v)
             decision == ClaimDecision(repaired, n)
  <2>1. /\ UNCHANGED <<call, artifact, intent, result, requests, images, ledgers, refused>>
        /\ n \in Attempts /\ visit[v].pc = "collected" /\ call[n] # "none"
        /\ 1..n \subseteq Attempts
    BY <1>3, <1>a, VisualCallsOK DEF Claim, ledgers, provider, VisitOK, Attempts, VisualCallsAssumption
  <2>2. \A m \in Attempts :
          /\ repaired[m] \in {"none", "intent"} \cup Outcomes
          /\ repaired[m] = "none" <=> claim[m] = "none"
          /\ repaired[m] \in Outcomes => result[m] = repaired[m]
    BY <1>0, <1>a, <2>1 DEF RepairedClaims, TypeOK, IInv, StoresTrace, VisitOK, Outcomes
  <2>3. \A m \in 1..(n - 1) : m \in Attempts /\ result[m] = "retryable" /\ claim[m] # "none"
    <3>1. \A m \in 1..(n - 1) : m \in Attempts /\ call[m] = "retryable"
      BY <2>1, VisualCallsOK DEF IInv, CallsInOrder, Attempts, VisualCallsAssumption
    <3>2. QED
      BY <3>1 DEF IInv, CallsBacked, StoresTrace
  <2>4. decision # "attempt_order_invalid"
    BY <2>1, <2>2, <2>3 DEF ClaimDecision, Attempts
  <2>5. \A m \in Attempts : claim'[m] = repaired[m] \/ (m = n /\ repaired[n] = "none" /\ claim'[n] = "intent")
    <3>1. claim' = IF decision = "claim" THEN [repaired EXCEPT ![n] = "intent"] ELSE repaired
      BY <1>3 DEF Claim
    <3>2. decision = "claim" => repaired[n] = "none"
      BY DEF ClaimDecision
    <3>3. DOMAIN repaired = Attempts
      BY DEF RepairedClaims
    <3> HIDE DEF repaired, decision
    <3>4. QED
      BY <2>1, <3>1, <3>2, <3>3
  <2>6. Grows
    BY <2>1, <2>2, <2>5 DEF Grows
  <2>7. CallsInOrder' /\ CallsBacked'
    BY <1>0, <2>1, <2>6, CallsKept DEF IInv
  <2>8. StoresTrace'
    BY <2>1, <2>2, <2>5 DEF IInv, StoresTrace, Outcomes
  <2>9. CASE decision \in {"claim", "existing"} /\ Move(v, [pc |-> "process", attempt |-> n]) /\ UNCHANGED worker
    <3>1. claim'[n] # "none"
      <4>1. claim' = IF decision = "claim" THEN [repaired EXCEPT ![n] = "intent"] ELSE repaired
        BY <1>3 DEF Claim
      <4>2. decision = "existing" => repaired[n] # "none"
        BY DEF ClaimDecision
      <4>3. DOMAIN repaired = Attempts
        BY DEF RepairedClaims
      <4> HIDE DEF repaired, decision
      <4>4. QED
        BY <2>1, <2>9, <4>1, <4>2, <4>3
    <3>2. VisitOK(visit[v])'
      BY <1>b, <2>1, <2>9, <3>1 DEF VisitOK, Owning
    <3>3. VisitsHonest'
      BY <1>0, <1>b, <2>1, <2>6, <2>9, <3>2, VisitsKept DEF IInv, Owning
    <3>4. WorkersHonest'
      BY <1>0, <1>b, <2>6, <2>9, VisitGoesOn DEF IInv
    <3>5. QED
      BY <1>0, <2>7, <2>8, <3>3, <3>4 DEF IInv
  <2>10. CASE \E c, m : /\ Reply(v, c, m)
                        /\ c # "unknown" => c \in Outcomes /\ m = n /\ result[m] = c
    <3>1. VisitsHonest'
      BY <1>0, <1>c, <2>1, <2>6, <2>10, VisitsKept DEF IInv, Owning
    <3>2. WorkersHonest'
      BY <1>0, <2>1, <2>6, <2>10, ReplyKept DEF IInv
    <3>3. QED
      BY <1>0, <2>7, <2>8, <3>1, <3>2 DEF IInv
  <2>11. CASE \E t \in {m \in 1..n : repaired[m] \in {"success", "final"}} :
                Reply(v, IF result[t] = "none" THEN "unknown" ELSE result[t], t)
    <3>1. PICK t \in {m \in 1..n : repaired[m] \in {"success", "final"}} :
                Reply(v, IF result[t] = "none" THEN "unknown" ELSE result[t], t)
      BY <2>11
    <3>2. t = n /\ result[t] \in Outcomes
      BY <2>1, <2>2, <2>3, <3>1 DEF Outcomes, Attempts
    <3>3. QED
      BY <2>10, <3>1, <3>2
  <2>12. QED
    BY <1>3, <2>4, <2>9, <2>10, <2>11 DEF Claim
<1>4. CASE Process(v)
  <2>1. PICK s : /\ Move(v, s)
                 /\ s \in {[pc |-> "settle", attempt |-> n, code |-> result[n]],
                           [pc |-> "settle", attempt |-> n, code |-> "unknown"],
                           [pc |-> "intend", attempt |-> n]}
    BY <1>4 DEF Process
  <2>2. VisitOK(visit[v])'
    BY <1>4, <1>a, <1>b, <2>1 DEF VisitOK, Owning, Process, ledgers, adapter
  <2>3. QED
    BY <1>0, <1>4, <1>b, <2>1, <2>2, VisitAlone DEF Process, Owning
<1>5. CASE PutIntent(v)
  <2>1. /\ UNCHANGED <<call, artifact, claim, result, requests, images, worker, ledgers, refused>>
        /\ n \in Attempts /\ visit[v].pc = "intend"
        /\ call[n] # "none" /\ claim[n] # "none"
    BY <1>5, <1>a DEF PutIntent, ledgers, provider, VisitOK
  <2>2. intent' \in {intent, [intent EXCEPT ![n] = TRUE]}
    BY <1>0, <1>5 DEF PutIntent, TypeOK
  <2>3. Grows
    BY <1>0, <2>1, <2>2 DEF Grows, TypeOK
  <2>4. CallsInOrder' /\ CallsBacked'
    BY <1>0, <2>1, <2>3, CallsKept DEF IInv
  <2>5. StoresTrace'
    BY <1>0, <2>1, <2>2 DEF IInv, StoresTrace, TypeOK
  <2>6. CASE Move(v, [pc |-> "settle", attempt |-> n, code |-> "unknown"])
    <3>1. VisitOK(visit[v])'
      BY <1>b, <2>1, <2>6 DEF VisitOK, Owning
    <3>2. VisitsHonest'
      BY <1>0, <1>b, <2>1, <2>3, <2>6, <3>1, VisitsKept DEF IInv, Owning
    <3>3. WorkersHonest'
      BY <1>0, <1>b, <2>1, <2>3, <2>6, VisitGoesOn DEF IInv
    <3>4. QED
      BY <1>0, <2>4, <2>5, <3>2, <3>3 DEF IInv
  <2>7. CASE ~intent[n] /\ intent' = [intent EXCEPT ![n] = TRUE] /\ Move(v, [pc |-> "request", attempt |-> n])
    <3>1. intent'[n] /\ result[n] = "none" /\ requests[n] = 0
      BY <1>0, <2>1, <2>7 DEF IInv, StoresTrace, TypeOK
    <3>2. VisitOK(visit[v])'
      BY <1>b, <2>1, <2>7, <3>1 DEF VisitOK, Owning
    <3>3. \A u \in Visits : u # v => VisitOK(visit[u])'
      BY <1>0, <1>b, <2>1, <2>3, <2>7, VisitKept DEF IInv
    <3>4. \A u \in Visits : visit[u].pc \in Owning => visit[u].attempt # n
      BY <2>7 DEF IInv, VisitsHonest, VisitOK
    <3>5. OneOwner'
      BY <1>b, <2>7, <3>4 DEF IInv, VisitsHonest, OneOwner
    <3>6. WorkersHonest'
      BY <1>0, <1>b, <2>1, <2>3, <2>7, VisitGoesOn DEF IInv
    <3>7. QED
      BY <1>0, <2>4, <2>5, <3>2, <3>3, <3>5, <3>6 DEF IInv, VisitsHonest
  <2>8. QED
    BY <1>5, <2>6, <2>7 DEF PutIntent
<1>6. CASE RequestImage(v)
  <2>1. /\ UNCHANGED <<call, artifact, claim, intent, result, images, worker, ledgers, refused>>
        /\ n \in Attempts /\ visit[v].pc = "request"
        /\ call[n] # "none" /\ claim[n] # "none" /\ intent[n] /\ result[n] = "none" /\ requests[n] = 0
    BY <1>6, <1>a DEF RequestImage, ledgers, adapter, VisitOK, Owning
  <2>2. Grows
    BY <2>1 DEF Grows
  <2>3. CallsInOrder' /\ CallsBacked'
    BY <1>0, <2>1, <2>2, CallsKept DEF IInv
  <2>4. CASE requests' = [requests EXCEPT ![n] = @ + 1] /\ Move(v, [pc |-> "provider", attempt |-> n])
    <3>1. requests'[n] = 1 /\ \A m \in Attempts : m # n => requests'[m] = requests[m]
      BY <1>0, <2>1, <2>4 DEF TypeOK
    <3>2. StoresTrace'
      BY <2>1, <3>1 DEF IInv, StoresTrace
    <3>3. VisitOK(visit[v])'
      BY <1>b, <2>1, <2>4, <3>1 DEF VisitOK, Owning, IInv, StoresTrace
    <3>4. VisitsHonest'
      BY <1>0, <1>b, <1>d, <2>1, <2>2, <2>4, <3>1, <3>3, VisitsKept DEF IInv, Owning
    <3>5. WorkersHonest'
      BY <1>0, <1>b, <2>1, <2>2, <2>4, VisitGoesOn DEF IInv
    <3>6. QED
      BY <1>0, <2>3, <3>2, <3>4, <3>5 DEF IInv
  <2>5. CASE Move(v, [pc |-> "store", attempt |-> n, outcome |-> "final"]) /\ UNCHANGED requests
    <3>1. StoresTrace'
      BY <2>1, <2>5 DEF IInv, StoresTrace
    <3>2. VisitOK(visit[v])'
      BY <1>b, <2>1, <2>5 DEF VisitOK, Owning
    <3>3. VisitsHonest'
      BY <1>0, <1>b, <2>1, <2>2, <2>5, <3>2, VisitsKept DEF IInv, Owning
    <3>4. WorkersHonest'
      BY <1>0, <1>b, <2>1, <2>2, <2>5, VisitGoesOn DEF IInv
    <3>5. QED
      BY <1>0, <2>3, <3>1, <3>3, <3>4 DEF IInv
  <2>6. QED
    BY <1>6, <2>4, <2>5 DEF RequestImage
<1>7. CASE ProviderAnswers(v)
  <2>1. /\ UNCHANGED <<call, artifact, claim, intent, result, requests, worker, ledgers, refused>>
        /\ n \in Attempts /\ visit[v].pc = "provider" /\ n \notin images
        /\ call[n] # "none" /\ claim[n] # "none" /\ intent[n] /\ result[n] = "none" /\ requests[n] > 0
    BY <1>7, <1>a DEF ProviderAnswers, ledgers, adapter, VisitOK, Owning
  <2>2. PICK s : /\ Move(v, s)
                 /\ \/ s = [pc |-> "settle", attempt |-> n, code |-> "unknown"]
                    \/ \E outcome \in Outcomes :
                         /\ s = [pc |-> "store", attempt |-> n, outcome |-> outcome]
                         /\ outcome = "retryable" => images' = images
    BY <1>7 DEF ProviderAnswers, ResponseOutcomes, Outcomes
  <2>3. images' \in {images, images \cup {n}}
    BY <1>7 DEF ProviderAnswers
  <2>4. Grows
    BY <2>1 DEF Grows
  <2>5. CallsInOrder' /\ CallsBacked'
    BY <1>0, <2>1, <2>4, CallsKept DEF IInv
  <2>6. StoresTrace'
    BY <2>1, <2>3 DEF IInv, StoresTrace
  <2>7. VisitOK(visit[v])'
    BY <1>b, <2>1, <2>2 DEF VisitOK, Owning
  <2>8. VisitsHonest'
    BY <1>0, <1>b, <1>d, <2>1, <2>2, <2>3, <2>4, <2>7, VisitsKept DEF IInv, Owning
  <2>9. WorkersHonest'
    BY <1>0, <1>b, <2>1, <2>2, <2>4, VisitGoesOn DEF IInv
  <2>10. QED
    BY <1>0, <2>5, <2>6, <2>8, <2>9 DEF IInv
<1>8. CASE PutResult(v)
  <2> DEFINE outcome == visit[v].outcome
  <2>1. /\ UNCHANGED <<call, artifact, claim, intent, requests, images, worker, ledgers, refused>>
        /\ n \in Attempts /\ visit[v].pc = "store" /\ outcome \in Outcomes
        /\ call[n] # "none" /\ claim[n] # "none" /\ intent[n] /\ result[n] = "none"
        /\ outcome = "retryable" => requests[n] > 0 /\ n \notin images
    BY <1>8, <1>a DEF PutResult, ledgers, provider, VisitOK, Owning
  <2>2. PICK c : /\ Move(v, [pc |-> "settle", attempt |-> n, code |-> c])
                 /\ c # "unknown" => c = outcome /\ result'[n] = outcome
    BY <1>0, <1>8, <2>1 DEF PutResult, TypeOK
  <2>3. result'[n] \in {"none", outcome} /\ \A m \in Attempts : m # n => result'[m] = result[m]
    BY <1>0, <1>8, <2>1 DEF PutResult, TypeOK
  <2>4. Grows
    BY <2>1, <2>3 DEF Grows
  <2>5. CallsInOrder' /\ CallsBacked'
    BY <1>0, <2>1, <2>4, CallsKept DEF IInv
  <2>6. StoresTrace'
    BY <2>1, <2>3 DEF IInv, StoresTrace, Outcomes
  <2>7. VisitOK(visit[v])'
    BY <1>b, <2>1, <2>2 DEF VisitOK, Owning
  <2>8. VisitsHonest'
    BY <1>0, <1>b, <1>d, <2>1, <2>2, <2>3, <2>4, <2>7, VisitsKept DEF IInv, Owning
  <2>9. WorkersHonest'
    BY <1>0, <1>b, <2>1, <2>2, <2>4, VisitGoesOn DEF IInv
  <2>10. QED
    BY <1>0, <2>5, <2>6, <2>8, <2>9 DEF IInv
<1>9. CASE Settle(v)
  <2>1. /\ UNCHANGED <<call, artifact, intent, result, requests, images, ledgers, refused>>
        /\ n \in Attempts /\ visit[v].pc = "settle" /\ call[n] # "none"
        /\ claim' = claim \/ (result[n] # "none" /\ claim' = [claim EXCEPT ![n] = result[n]])
    BY <1>9, <1>a DEF Settle, ledgers, provider, VisitOK
  <2>2. PICK c : /\ Reply(v, c, n)
                 /\ c # "unknown" => c \in Outcomes /\ result[n] = c
    BY <1>9, <1>a DEF Settle, VisitOK
  <2>3. \A m \in Attempts : claim'[m] = claim[m] \/ (m = n /\ result[n] # "none" /\ claim'[n] = result[n])
    BY <1>0, <2>1 DEF TypeOK
  <2>4. Grows
    BY <2>1, <2>3 DEF Grows
  <2>5. CallsInOrder' /\ CallsBacked'
    BY <1>0, <2>1, <2>4, CallsKept DEF IInv
  <2>6. StoresTrace'
    BY <1>0, <2>1, <2>3 DEF IInv, StoresTrace, Outcomes, TypeOK
  <2>7. VisitsHonest'
    BY <1>0, <1>c, <2>1, <2>2, <2>4, VisitsKept DEF IInv, Owning
  <2>8. WorkersHonest'
    BY <1>0, <2>1, <2>2, <2>4, ReplyKept DEF IInv
  <2>9. QED
    BY <1>0, <2>5, <2>6, <2>7, <2>8 DEF IInv
<1>10. CASE VisitDies(v)
  <2>1. /\ UNCHANGED <<call, artifact, claim, intent, result, requests, ledgers, refused>>
        /\ n \in Attempts /\ visit[v].pc # "free" /\ Reply(v, "unknown", n)
        /\ images' = images \/ (visit[v].pc = "provider" /\ images' = images \cup {n})
    BY <1>10, <1>a DEF VisitDies, ledgers, adapter
  <2>2. Grows
    BY <2>1 DEF Grows
  <2>3. CallsInOrder' /\ CallsBacked'
    BY <1>0, <2>1, <2>2, CallsKept DEF IInv
  <2>4. StoresTrace'
    BY <1>a, <2>1 DEF IInv, StoresTrace, VisitOK, Owning
  <2>5. VisitsHonest'
    BY <1>0, <1>c, <1>d, <2>1, <2>2, VisitsKept DEF IInv, Owning
  <2>6. WorkersHonest'
    BY <1>0, <2>1, <2>2, ReplyKept DEF IInv
  <2>7. QED
    BY <1>0, <2>3, <2>4, <2>5, <2>6 DEF IInv
<1>11. QED
  BY <1>1, <1>2, <1>3, <1>4, <1>5, <1>6, <1>7, <1>8, <1>9, <1>10 DEF VisitNext

\* Every step preserves the invariant.
LEMMA NextIInv == IInv /\ [Next]_vars => IInv'
<1> SUFFICES ASSUME IInv, [Next]_vars PROVE IInv'
  OBVIOUS
<1>1. CASE Cancel
  <2>1. UNCHANGED <<call, artifact, claim, intent, result, requests, images, worker, visit, refused>>
    BY <1>1 DEF Cancel, ledgers, adapter, provider
  <2>2. TypeOK'
    BY <1>1, <2>1 DEF IInv, TypeOK, Cancel
  <2>3. CallsInOrder' /\ CallsBacked' /\ StoresTrace'
    BY <2>1 DEF IInv, CallsInOrder, CallsBacked, StoresTrace
  <2>4. VisitsHonest' /\ WorkersHonest'
    BY <2>1 DEF IInv, VisitsHonest, VisitOK, OneOwner, WorkersHonest, WorkerOK, OneWaiter
  <2>5. QED
    BY <2>2, <2>3, <2>4 DEF IInv
<1>2. CASE \E w \in Workers : WorkerNext(w)
  BY <1>2, WorkerStep
<1>3. CASE \E v \in Visits : VisitNext(v)
  BY <1>3, VisitStep
<1>4. CASE UNCHANGED vars
  <2>1. UNCHANGED <<call, artifact, claim, intent, result, requests, images, worker, visit, cancelled, refused>>
    BY <1>4 DEF vars, ledgers, adapter, provider
  <2>2. TypeOK'
    BY <2>1 DEF IInv, TypeOK
  <2>3. CallsInOrder' /\ CallsBacked' /\ StoresTrace'
    BY <2>1 DEF IInv, CallsInOrder, CallsBacked, StoresTrace
  <2>4. VisitsHonest' /\ WorkersHonest'
    BY <2>1 DEF IInv, VisitsHonest, VisitOK, OneOwner, WorkersHonest, WorkerOK, OneWaiter
  <2>5. QED
    BY <2>2, <2>3, <2>4 DEF IInv
<1>5. QED
  BY <1>1, <1>2, <1>3, <1>4 DEF Next

\* The invariant holds in every reachable state: the Coordinator's ledger, the
\* adapter's claims, R2, the provider and everybody between two awaits agree.
THEOREM Invariance == Spec => []IInv
BY InitIInv, NextIInv, PTL DEF Spec

-----------------------------------------------------------------------------
(* What the invariant says. *)

\* If an attempt was ever sent, every earlier one was refused.
LEMMA EarlierRefused ==
  ASSUME IInv, NEW n \in Attempts, call[n] # "none", NEW m \in 1..(n - 1)
  PROVE  m \in Attempts /\ call[m] = "retryable" /\ result[m] = "retryable"
<1>1. m \in Attempts
  BY VisualCallsOK DEF VisualCallsAssumption, Attempts
<1>2. call[m] = "retryable"
  BY DEF IInv, CallsInOrder
<1>3. QED
  BY <1>1, <1>2 DEF IInv, CallsBacked

\* Every variable stays in the set of values the stores and handlers give it.
THEOREM TypeCorrect == Spec => []TypeOK
BY Invariance, PTL DEF IInv

\* prepareFiveAgentCall and the claims of VISUAL_OPERATION never let a later
\* attempt leave a trace anywhere before the one before it has a durable refusal.
THEOREM OrderCorrect == Spec => []AttemptsInOrder
<1>1. IInv => AttemptsInOrder
  <2>1. SUFFICES ASSUME IInv, NEW n \in 2..MaxAttempts,
                        call[n] # "none" \/ claim[n] # "none" \/ intent[n] \/ requests[n] > 0
                 PROVE  result[n - 1] = "retryable"
    BY DEF AttemptsInOrder
  <2>2. n \in Attempts /\ n - 1 \in 1..(n - 1)
    BY VisualCallsOK DEF VisualCallsAssumption, Attempts
  <2>3. call[n] # "none"
    BY <2>1, <2>2 DEF IInv, StoresTrace
  <2>4. QED
    BY <2>1, <2>2, <2>3, EarlierRefused
<1>2. QED
  BY <1>1, Invariance, PTL

\* However often the step is executed, dies and loses answers, processOperation
\* has the provider draw at most one image and sends no attempt twice.
THEOREM ImageCorrect == Spec => []AtMostOneImage
<1>1. IInv => AtMostOneImage
  <2>1. SUFFICES ASSUME IInv PROVE AtMostOneImage
    OBVIOUS
  <2>2. images \subseteq Attempts /\ \A n \in images : call[n] # "none"
    BY <2>1 DEF IInv, TypeOK, StoresTrace
  <2>3. ASSUME NEW m \in images, NEW n \in images, m < n
        PROVE  FALSE
    <3>1. m \in 1..(n - 1)
      BY <2>2, <2>3, VisualCallsOK DEF VisualCallsAssumption, Attempts
    <3>2. result[m] = "retryable" /\ m \in Attempts
      BY <2>1, <2>2, <3>1, EarlierRefused
    <3>3. QED
      BY <2>1, <2>3, <3>2 DEF IInv, StoresTrace
  <2>4. \A m, n \in images : m = n
    BY <2>2, <2>3, VisualCallsOK DEF VisualCallsAssumption, Attempts
  <2>5. QED
    BY <2>1, <2>4 DEF IInv, StoresTrace, AtMostOneImage
<1>2. QED
  BY <1>1, Invariance, PTL

-----------------------------------------------------------------------------
(* A refusal to make an attempt is not followed by a request of it. *)

\* Nothing of attempt n has reached the adapter but questions about it.
Unsent(n) ==
  /\ claim[n] = "none"
  /\ \A v \in Visits : visit[v].pc \notin {"free", "reading"} => visit[v].attempt # n

\* The worker is about to send the request that makes its attempt.
Executing(w) == worker[w].pc = "ask" /\ worker[w].mode = "execute"

\* Only the worker that opened an attempt sends it, once: before it does, nothing
\* of the attempt is under way; once it is refused, nothing ever will be.
RefusalsHarmless ==
  /\ \A w \in Workers : Executing(w) => Unsent(worker[w].attempt)
  /\ \A x, y \in Workers : Executing(x) /\ Executing(y) /\ worker[x].attempt = worker[y].attempt => x = y
  /\ \A n \in Attempts : "execute" \in refused[n] =>
       /\ Unsent(n) /\ call[n] # "none"
       /\ \A w \in Workers : Executing(w) => worker[w].attempt # n

\* An attempt stays unsent while visits only go on, end or read.
LEMMA UnsentKept ==
  ASSUME NEW n, Unsent(n), claim'[n] = claim[n],
         \A v \in Visits : \/ visit'[v] = visit[v]
                           \/ visit'[v].pc \in {"free", "reading"}
                           \/ visit[v].pc \notin {"free", "reading"} /\ visit'[v].attempt = visit[v].attempt
  PROVE  Unsent(n)'
BY DEF Unsent

\* What a step keeps that sends nothing, opens nothing and refuses nothing.
LEMMA HarmlessKept ==
  ASSUME RefusalsHarmless,
         \A n \in Attempts : Unsent(n) => Unsent(n)',
         \A n \in Attempts : call[n] # "none" => call'[n] # "none",
         \A x \in Workers : worker'[x] = worker[x] \/ worker'[x].pc # "ask" \/ worker'[x].mode # "execute",
         \A x \in Workers : worker[x].pc = "ask" => worker[x].attempt \in Attempts,
         UNCHANGED refused
  PROVE  RefusalsHarmless'
<1>1. \A x \in Workers : Executing(x)' => Executing(x) /\ worker'[x] = worker[x]
  BY DEF Executing
<1>2. \A x \in Workers : Executing(x)' => Unsent(worker[x].attempt)'
  BY <1>1 DEF RefusalsHarmless, Executing
<1>3. QED
  BY <1>1, <1>2 DEF RefusalsHarmless

\* Every step of a visit leaves the refusals harmless.
LEMMA VisitHarmless ==
  ASSUME IInv, RefusalsHarmless, NEW v \in Visits, VisitNext(v)
  PROVE  RefusalsHarmless'
<1>0. TypeOK /\ TypeOK'
  BY VisitTyped DEF IInv
<1>1. UNCHANGED <<call, refused>>
  BY DEF VisitNext, Reconcile, CollectEvidence, Claim, Process, PutIntent, RequestImage, ProviderAnswers,
         PutResult, Settle, VisitDies, ledgers
<1>2. /\ \A u \in Visits : u # v => visit'[u] = visit[u]
      /\ visit[v].pc # "free"
      /\ visit'[v].pc = "free" \/ (visit[v].pc # "reading" /\ visit'[v].attempt = visit[v].attempt)
  BY <1>0 DEF VisitNext, Reconcile, CollectEvidence, Claim, Process, PutIntent, RequestImage, ProviderAnswers,
              PutResult, Settle, VisitDies, Reply, Move, TypeOK
<1>3. ASSUME NEW n \in Attempts, Unsent(n)
      PROVE  Unsent(n)'
  <2>1. claim'[n] = claim[n]
    <3>1. CASE Claim(v)
      <4>1. visit[v].attempt # n /\ claim[n] = "none"
        BY <1>3, <3>1 DEF Claim, Unsent
      <4>2. QED
        BY <1>0, <3>1, <4>1 DEF Claim, RepairedClaims, TypeOK
    <3>2. CASE Settle(v)
      <4>1. visit[v].attempt # n
        BY <1>3, <3>2 DEF Settle, Unsent
      <4>2. QED
        BY <1>0, <3>2, <4>1 DEF Settle, TypeOK
    <3>3. CASE UNCHANGED claim
      BY <3>3
    <3>4. QED
      BY <3>1, <3>2, <3>3 DEF VisitNext, Reconcile, CollectEvidence, Process, PutIntent, RequestImage,
         ProviderAnswers, PutResult, VisitDies, adapter
  <2>2. QED
    BY <1>2, <1>3, <2>1, UnsentKept
<1>4. \A x \in Workers : worker'[x] = worker[x] \/ worker'[x].pc # "ask"
  <2>1. ASSUME NEW x \in Workers, NEW c, NEW n, TakeAnswer(x, c, n)
        PROVE  \A y \in Workers : worker'[y] = worker[y] \/ worker'[y].pc # "ask"
    BY <1>0, <2>1 DEF TakeAnswer, Become, Idle, TypeOK
  <2>2. ASSUME NEW c, NEW n, Reply(v, c, n)
        PROVE  \A y \in Workers : worker'[y] = worker[y] \/ worker'[y].pc # "ask"
    BY <2>1, <2>2 DEF Reply
  <2>3. QED
    BY <2>2 DEF VisitNext, Reconcile, CollectEvidence, Claim, Process, PutIntent, RequestImage, ProviderAnswers,
                PutResult, Settle, VisitDies
<1>5. \A x \in Workers : worker[x].pc = "ask" => worker[x].attempt \in Attempts
  BY <1>0, WorkerFields DEF TypeOK
<1>6. QED
  BY <1>1, <1>3, <1>4, <1>5, HarmlessKept

\* An attempt the Coordinator has not opened is unsent, and nobody is at it.
LEMMA Unopened ==
  ASSUME IInv, RefusalsHarmless, NEW n \in Attempts, call[n] = "none"
  PROVE  /\ Unsent(n) /\ "execute" \notin refused[n]
         /\ \A x \in Workers : worker[x].pc = "ask" => worker[x].attempt # n
BY DEF IInv, StoresTrace, VisitsHonest, VisitOK, WorkersHonest, WorkerOK, RefusalsHarmless, Unsent

\* Every step of an execution of the visual step leaves the refusals harmless.
LEMMA WorkerHarmless ==
  ASSUME IInv, RefusalsHarmless, NEW w \in Workers, WorkerNext(w)
  PROVE  RefusalsHarmless'
<1> DEFINE n == worker[w].attempt
<1>0. TypeOK /\ TypeOK'
  BY WorkerTyped DEF IInv
<1>a. \A x \in Workers : worker[x].pc = "ask" => worker[x].attempt \in Attempts /\ call[worker[x].attempt] # "none"
  BY <1>0, WorkerFields DEF TypeOK, IInv, WorkersHonest, WorkerOK
<1>b. UNCHANGED claim
  BY DEF WorkerNext, StartStep, ReenterHold, CheckCancelled, Prepare, SendRequest, StopCancelled, RefuseRequest,
         LoseAnswer, RecordFailure, PersistArtifact, RecordSuccess, WorkerDies, adapter
<1>c. \A x \in Workers : x # w => worker'[x] = worker[x]
  BY <1>0 DEF WorkerNext, StartStep, ReenterHold, CheckCancelled, Prepare, SendRequest, StopCancelled, RefuseRequest,
         LoseAnswer, TakeAnswer, ContinueWith, RecordFailure, PersistArtifact, RecordSuccess, WorkerDies, Become, TypeOK
<1>d. \A m \in Attempts : call[m] # "none" => call'[m] # "none"
  <2>1. UNCHANGED call \/ \E m, c : c # "none" /\ call' = [call EXCEPT ![m] = c]
    <3>1. CASE RecordFailure(w)
      <4>1. worker[w].outcome # "none"
        BY <1>0, <3>1, WorkerFields DEF RecordFailure, TypeOK
      <4>2. QED
        BY <3>1, <4>1 DEF RecordFailure
    <3>2. CASE Prepare(w) \/ RecordSuccess(w)
      BY <3>2 DEF Prepare, RecordSuccess
    <3>3. CASE ~ RecordFailure(w) /\ ~ Prepare(w) /\ ~ RecordSuccess(w)
      BY <3>3 DEF WorkerNext, StartStep, ReenterHold, CheckCancelled, SendRequest, StopCancelled, RefuseRequest,
         LoseAnswer, PersistArtifact, WorkerDies, ledgers
    <3>4. QED
      BY <3>1, <3>2, <3>3
  <2>2. QED
    BY <1>0, <2>1 DEF TypeOK
<1>1. ASSUME NEW v \in Visits, SendRequest(w, v), Executing(w)
      PROVE  RefusalsHarmless'
  <2>1. /\ visit[v].pc = "free" /\ visit'[v].pc = "arrived" /\ visit'[v].attempt = n /\ n \in Attempts
        /\ \A u \in Visits : u # v => visit'[u] = visit[u]
        /\ worker'[w].pc = "waiting" /\ UNCHANGED <<call, refused>>
    BY <1>0, <1>1, <1>a DEF SendRequest, Executing, Become, TypeOK, ledgers
  <2>2. \A m \in Attempts : Unsent(m) /\ m # n => Unsent(m)'
    BY <1>b, <2>1 DEF Unsent
  <2>3. \A x \in Workers : Executing(x)' => x # w /\ Executing(x) /\ worker'[x] = worker[x]
    BY <1>c, <2>1 DEF Executing
  <2>4. \A x \in Workers : Executing(x) /\ x # w => worker[x].attempt # n /\ worker[x].attempt \in Attempts
    BY <1>1, <1>a DEF RefusalsHarmless, Executing
  <2>5. \A m \in Attempts : "execute" \in refused[m] => m # n
    BY <1>1 DEF RefusalsHarmless
  <2>6. QED
    BY <2>1, <2>2, <2>3, <2>4, <2>5 DEF RefusalsHarmless
<1>2. CASE RefuseRequest(w) /\ Executing(w)
  <2>1. /\ n \in Attempts /\ call[n] # "none" /\ Unsent(n)
        /\ UNCHANGED <<call, visit>> /\ worker'[w].pc # "ask"
        /\ \A m \in Attempts : m # n => refused'[m] = refused[m]
    BY <1>0, <1>2, <1>a DEF RefuseRequest, RefusalsHarmless, Executing, TakeAnswer, Become, Idle, TypeOK, ledgers
  <2>2. \A m \in Attempts : Unsent(m) => Unsent(m)'
    BY <1>b, <2>1 DEF Unsent
  <2>3. \A x \in Workers : Executing(x)' => x # w /\ Executing(x) /\ worker'[x] = worker[x]
    BY <1>c, <2>1 DEF Executing
  <2>4. \A x \in Workers : Executing(x) /\ x # w => worker[x].attempt # n /\ worker[x].attempt \in Attempts
    BY <1>2, <1>a DEF RefusalsHarmless, Executing
  <2>5. QED
    BY <2>1, <2>2, <2>3, <2>4 DEF RefusalsHarmless
<1>3. CASE Prepare(w) /\ PrepareStatus(n) = "prepared"
  <2>1. /\ n \in Attempts /\ call' = [call EXCEPT ![n] = "intent"]
        /\ worker'[w] = [pc |-> "ask", mode |-> "execute", attempt |-> n]
        /\ UNCHANGED <<visit, refused>>
    BY <1>0, <1>3, WorkerFields DEF Prepare, Become, TypeOK
  <2>2. call[n] = "none"
    BY <1>0, <1>3, <2>1 DEF PrepareStatus, Settled, InFlight, TypeOK, Attempts
  <2>3. \A m \in Attempts : Unsent(m) => Unsent(m)'
    BY <1>b, <2>1 DEF Unsent
  <2>4. Unsent(n) /\ "execute" \notin refused[n] /\ \A x \in Workers : worker[x].pc = "ask" => worker[x].attempt # n
    BY <2>1, <2>2, Unopened
  <2>5. worker'[w].attempt = n /\ \A x \in Workers : x # w => (Executing(x)' <=> Executing(x))
    BY <1>c, <2>1 DEF Executing
  <2>6. ASSUME NEW x \in Workers, Executing(x)'
        PROVE  Unsent(worker[x].attempt)' /\ worker'[x].attempt \in Attempts /\ (x # w => worker'[x].attempt # n)
    <3>1. CASE x = w
      BY <2>1, <2>3, <2>4, <2>5, <3>1
    <3>2. CASE x # w
      BY <1>a, <1>c, <2>3, <2>4, <2>5, <2>6, <3>2 DEF RefusalsHarmless, Executing
    <3>3. QED
      BY <3>1, <3>2
  <2>7. \A x, y \in Workers : Executing(x)' /\ Executing(y)' /\ worker'[x].attempt = worker'[y].attempt => x = y
    BY <1>c, <2>5, <2>6 DEF RefusalsHarmless
  <2>8. \A m \in Attempts : "execute" \in refused'[m] =>
          Unsent(m)' /\ call'[m] # "none" /\ \A x \in Workers : Executing(x)' => worker'[x].attempt # m
    BY <1>c, <1>d, <2>1, <2>3, <2>4, <2>5 DEF RefusalsHarmless
  <2>9. QED
    BY <2>6, <2>7, <2>8 DEF RefusalsHarmless
<1>4. CASE RefuseRequest(w) /\ ~ Executing(w)
  <2>1. /\ n \in Attempts /\ refused' = [refused EXCEPT ![n] = @ \cup {"reconcile"}]
        /\ UNCHANGED <<call, visit>> /\ worker'[w].pc # "ask"
    <3>1. worker[w].mode # "execute"
      BY <1>4 DEF RefuseRequest, Executing
    <3>2. refused' = [refused EXCEPT ![n] = @ \cup {"reconcile"}]
      BY <1>4, <3>1 DEF RefuseRequest, AdapterMode
    <3>3. n \in Attempts /\ UNCHANGED <<call, visit>>
      BY <1>4, <1>a DEF RefuseRequest, ledgers
    <3>4. worker'[w].pc # "ask"
      BY <1>0, <1>4 DEF RefuseRequest, TakeAnswer, Become, Idle, TypeOK
    <3>5. QED
      BY <3>2, <3>3, <3>4
  <2>2. \A m \in Attempts : "execute" \in refused'[m] => "execute" \in refused[m]
    BY <1>0, <2>1 DEF TypeOK
  <2>3. \A m \in Attempts : Unsent(m) => Unsent(m)'
    BY <1>b, <2>1 DEF Unsent
  <2>4. \A x \in Workers : Executing(x)' => Executing(x) /\ worker'[x] = worker[x] /\ worker[x].attempt \in Attempts
    BY <1>a, <1>c, <2>1 DEF Executing
  <2>5. QED
    BY <2>1, <2>2, <2>3, <2>4 DEF RefusalsHarmless
<1>5. CASE ~ RefuseRequest(w) /\ ~ (Executing(w) /\ \E v \in Visits : SendRequest(w, v))
           /\ ~ (Prepare(w) /\ PrepareStatus(n) = "prepared")
  <2>1. UNCHANGED refused
    BY <1>5 DEF WorkerNext, StartStep, ReenterHold, CheckCancelled, Prepare, SendRequest, StopCancelled,
         LoseAnswer, RecordFailure, PersistArtifact, RecordSuccess, WorkerDies
  <2>2. worker'[w].pc # "ask" \/ worker'[w].mode # "execute"
    BY <1>0, <1>5 DEF WorkerNext, StartStep, ReenterHold, CheckCancelled, Prepare, SendRequest, StopCancelled,
         LoseAnswer, TakeAnswer, ContinueWith, RecordFailure, PersistArtifact, RecordSuccess, WorkerDies, Become, Idle, TypeOK
  <2>3. \A u \in Visits : visit'[u] = visit[u] \/ visit'[u].pc = "reading"
    <3>1. ASSUME NEW v \in Visits, SendRequest(w, v)
          PROVE  \A u \in Visits : visit'[u] = visit[u] \/ visit'[u].pc = "reading"
      <4>1. worker[w].mode # "execute"
        BY <1>5, <3>1 DEF SendRequest, Executing
      <4>2. visit' = [visit EXCEPT ![v] = [pc |-> "reading", attempt |-> n]]
        BY <3>1, <4>1 DEF SendRequest
      <4>3. QED
        BY <1>0, <4>2 DEF TypeOK
    <3>2. CASE UNCHANGED visit
      BY <3>2
    <3>3. QED
      BY <1>5, <3>1, <3>2 DEF WorkerNext, StartStep, ReenterHold, CheckCancelled, Prepare, StopCancelled,
         LoseAnswer, RecordFailure, PersistArtifact, RecordSuccess, WorkerDies
  <2>4. \A m \in Attempts : Unsent(m) => Unsent(m)'
    BY <1>b, <2>3, UnsentKept
  <2>5. QED
    BY <1>a, <1>c, <1>d, <2>1, <2>2, <2>4, HarmlessKept
<1>6. QED
  BY <1>1, <1>2, <1>3, <1>4, <1>5

\* No attempt whose execution the adapter turned away unread ever leaves a trace
\* behind it, whatever other executions of the step do meanwhile.
THEOREM RefusalCorrect == Spec => []RefusalsHarmless
<1>1. Init => RefusalsHarmless
  BY DEF Init, RefusalsHarmless, Executing, Idle
<1>2. ASSUME IInv, RefusalsHarmless, [Next]_vars
      PROVE  RefusalsHarmless'
  <2>1. CASE Cancel \/ UNCHANGED vars
    <3>1. UNCHANGED <<call, claim, worker, visit, refused>>
      BY <2>1 DEF Cancel, vars, ledgers, adapter
    <3>2. QED
      BY <1>2, <3>1 DEF RefusalsHarmless, Unsent, Executing
  <2>2. QED
    BY <1>2, <2>1, VisitHarmless, WorkerHarmless DEF Next
<1>3. QED
  BY <1>1, <1>2, Invariance, PTL DEF Spec

\* The Coordinator gives an attempt up whose image may exist only if R2 says that
\* it failed, or if the adapter turned a reconciliation of it away
\* (reconcileExistingVisualAdapterCall, runVisualAdapterCall): not because another
\* execution of the step, or another request, met a refusal.
THEOREM FailureCorrect == Spec => []FailureForCause
<1>1. ASSUME IInv, RefusalsHarmless, NEW n \in Attempts, requests[n] > 0, call[n] = "final"
      PROVE  result[n] = "final" \/ "reconcile" \in refused[n]
  <2>1. "execute" \notin refused[n]
    BY <1>1 DEF IInv, StoresTrace, RefusalsHarmless, Unsent
  <2>2. result[n] = "final" \/ refused[n] # {}
    BY <1>1 DEF IInv, CallsBacked
  <2>3. QED
    BY <1>1, <2>1, <2>2 DEF IInv, TypeOK
<1>2. IInv /\ RefusalsHarmless => FailureForCause
  BY <1>1 DEF FailureForCause
<1>3. QED
  BY <1>2, Invariance, RefusalCorrect, PTL

\* The Coordinator's ledger, the VISUAL_OPERATION claims and the R2 records
\* never contradict one another.
THEOREM LedgersCorrect == Spec => []LedgersAgree
<1>1. IInv /\ FailureForCause => LedgersAgree
  BY DEF IInv, CallsBacked, StoresTrace, LedgersAgree
<1>2. QED
  BY <1>1, Invariance, FailureCorrect, PTL

-----------------------------------------------------------------------------
(* The refinement of SideEffect. *)

\* The attempts whose request left.
Sent == {n \in Attempts : requests[n] > 0}

\* A success or a final failure is durable.
Closed == \E n \in Attempts : result[n] \in {"success", "final"}

\* An attempt in the Coordinator's ledger without a result is the one at work:
\* every earlier attempt was sent and refused, no later one was sent.
LEMMA Frontier ==
  ASSUME IInv, NEW n \in Attempts, call[n] # "none", result[n] = "none"
  PROVE  /\ Sent = IF requests[n] > 0 THEN 1..n ELSE 1..(n - 1)
         /\ Tries = IF requests[n] > 0 THEN n ELSE n - 1
         /\ ~Closed
         /\ images \subseteq {n}
         /\ n - 1 > 0 => result[n - 1] = "retryable"
<1> USE VisualCallsOK DEF VisualCallsAssumption
<1>1. \A m \in 1..(n - 1) : m \in Attempts /\ result[m] = "retryable" /\ requests[m] > 0 /\ m \notin images
  BY EarlierRefused DEF IInv, StoresTrace
<1>2. ASSUME NEW m \in Attempts, m > n
      PROVE  call[m] = "none" /\ result[m] = "none" /\ ~(requests[m] > 0) /\ m \notin images
  <2>1. n \in 1..(m - 1)
    BY <1>2 DEF Attempts
  <2>2. call[m] = "none"
    BY <2>1, EarlierRefused
  <2>3. QED
    BY <2>2 DEF IInv, StoresTrace
<1>3. Sent = IF requests[n] > 0 THEN 1..n ELSE 1..(n - 1)
  BY <1>1, <1>2 DEF Sent, Attempts
<1>4. Tries = IF requests[n] > 0 THEN n ELSE n - 1
  <2>1. n \in Int /\ n - 1 \in Int /\ n >= 1
    BY DEF Attempts
  <2>2. Cardinality(1..n) = n /\ Cardinality(1..(n - 1)) = n - 1
    BY <2>1, FS_Interval
  <2>3. QED
    BY <1>3, <2>2 DEF Sent, Tries
<1>5. ~Closed
  <2>1. SUFFICES ASSUME NEW m \in Attempts, result[m] \in {"success", "final"} PROVE FALSE
    BY DEF Closed
  <2>2. CASE m < n
    <3>1. m \in 1..(n - 1)
      BY <2>2 DEF Attempts
    <3>2. QED
      BY <1>1, <2>1, <3>1
  <2>3. CASE m = n
    BY <2>1, <2>3
  <2>4. CASE m > n
    BY <1>2, <2>1, <2>4
  <2>5. QED
    BY <2>2, <2>3, <2>4 DEF Attempts
<1>6. images \subseteq {n}
  <2>1. SUFFICES ASSUME NEW m \in images, m # n PROVE FALSE
    OBVIOUS
  <2>2. m \in Attempts
    BY DEF IInv, TypeOK
  <2>3. m \in 1..(n - 1) \/ m > n
    BY <2>1, <2>2 DEF Attempts
  <2>4. QED
    BY <1>1, <1>2, <2>2, <2>3
<1>7. n - 1 > 0 => result[n - 1] = "retryable"
  BY <1>1 DEF Attempts
<1>8. QED
  BY <1>3, <1>4, <1>5, <1>6, <1>7

\* Only requests, results and images are visible to SideEffect.
LEMMA EffectStutters ==
  ASSUME UNCHANGED <<requests, result, images>>
  PROVE  UNCHANGED Effect!effectVars
BY DEF Effect!effectVars, Tries

\* The initial state maps to the initial state.
LEMMA EffectInit == Init => Effect!Init
<1> SUFFICES ASSUME Init PROVE Effect!Init
  OBVIOUS
<1>1. {n \in Attempts : requests[n] > 0} = {}
  BY DEF Init
<1>2. Tries = 0 /\ Cardinality(images) = 0
  BY <1>1, FS_EmptySet DEF Tries, Init
<1>3. ~\E n \in Attempts : result[n] \in {"success", "final"}
  BY DEF Init
<1>4. QED
  BY <1>2, <1>3 DEF Effect!Init

\* A request that leaves is the abstract Begin.
LEMMA RequestRefines ==
  ASSUME IInv, NEW v \in Visits, RequestImage(v)
  PROVE  Effect!Next \/ UNCHANGED Effect!effectVars
<1> DEFINE n == visit[v].attempt
<1>1. /\ n \in Attempts /\ visit[v].pc = "request" /\ call[n] # "none"
      /\ result[n] = "none" /\ requests[n] = 0
  BY VisitFields DEF RequestImage, IInv, TypeOK, VisitsHonest, VisitOK, Owning
<1>2. UNCHANGED <<call, result, images>>
  BY DEF RequestImage, ledgers, adapter
<1>3. CASE UNCHANGED requests
  BY <1>2, <1>3, EffectStutters
<1>4. CASE requests' = [requests EXCEPT ![n] = @ + 1]
  <2>1. /\ Sent = 1..(n - 1) /\ Tries = n - 1 /\ ~Closed
        /\ n - 1 > 0 => result[n - 1] = "retryable"
    BY <1>1, Frontier
  <2>2. n \in Nat /\ n > 0 /\ n <= MaxAttempts
    BY <1>1, VisualCallsOK DEF VisualCallsAssumption, Attempts
  <2>3. Tries' = n
    <3>1. requests'[n] > 0 /\ \A m \in Attempts : m # n => requests'[m] = requests[m]
      BY <1>1, <1>4 DEF IInv, TypeOK
    <3>2. Sent' = Sent \cup {n}
      BY <1>1, <3>1 DEF Sent
    <3>3. IsFiniteSet(Sent) /\ n \notin Sent
      BY <2>1, <2>2, FS_Interval
    <3>4. Cardinality(Sent') = Cardinality(Sent) + 1
      BY <3>2, <3>3, FS_AddElement
    <3>5. QED
      BY <2>1, <2>2, <3>4 DEF Tries, Sent
  <2>4. ~Closed' /\ result'[n] = "none"
    BY <1>1, <1>2, <2>1 DEF Closed
  <2>5. UNCHANGED Cardinality(images)
    BY <1>2
  <2> HIDE DEF n
  <2>6. Effect!Begin
    <3>1. Tries' = Tries + 1 /\ Tries < MaxAttempts
      BY <2>1, <2>2, <2>3, VisualCallsOK DEF VisualCallsAssumption
    <3>2. Tries' # 0 /\ result'[Tries'] = "none"
      BY <2>2, <2>3, <2>4
    <3>3. Tries = 0 \/ result[Tries] = "retryable"
      BY <2>1, <2>2
    <3>4. QED
      BY <2>1, <2>4, <2>5, <3>1, <3>2, <3>3 DEF Effect!Begin, Closed
  <2>7. QED
    BY <2>6 DEF Effect!Next
<1>5. QED
  BY <1>3, <1>4 DEF RequestImage

\* An image drawn for an open request is the abstract Happen.
LEMMA DrawingRefines ==
  ASSUME IInv, NEW v \in Visits, visit[v].pc = "provider",
         UNCHANGED <<requests, result>>, images' \in {images, images \cup {visit[v].attempt}}
  PROVE  Effect!Next \/ UNCHANGED Effect!effectVars
<1> DEFINE n == visit[v].attempt
<1>1. /\ n \in Attempts /\ call[n] # "none"
      /\ result[n] = "none" /\ requests[n] > 0 /\ n \notin images
  BY VisitFields DEF IInv, TypeOK, VisitsHonest, VisitOK, Owning
<1>2. CASE images' = images
  BY <1>2, EffectStutters
<1>3. CASE images' = images \cup {n}
  <2>1. Tries = n /\ ~Closed /\ images = {}
    BY <1>1, Frontier
  <2>2. Cardinality(images) = 0 /\ Cardinality(images') = 1
    <3>1. images' = {n}
      BY <1>3, <2>1
    <3>2. Cardinality({n}) = 1
      BY FS_Singleton
    <3>3. QED
      BY <2>1, <3>1, <3>2, FS_EmptySet
  <2>3. UNCHANGED Tries /\ n > 0 /\ n \in Nat
    BY <1>1, VisualCallsOK DEF VisualCallsAssumption, Tries, Attempts
  <2>4. Effect!Happen
    BY <1>1, <2>1, <2>2, <2>3 DEF Effect!Happen, Closed
  <2>5. QED
    BY <2>4 DEF Effect!Next
<1>4. QED
  BY <1>2, <1>3

\* A result that becomes durable is the abstract Refuse or Close.
LEMMA ResultRefines ==
  ASSUME IInv, NEW v \in Visits, PutResult(v)
  PROVE  Effect!Next \/ UNCHANGED Effect!effectVars
<1> DEFINE n == visit[v].attempt
           outcome == visit[v].outcome
<1>1. /\ n \in Attempts /\ call[n] # "none" /\ result[n] = "none" /\ outcome \in Outcomes
      /\ outcome = "retryable" => requests[n] > 0 /\ n \notin images
  BY VisitFields DEF PutResult, IInv, TypeOK, VisitsHonest, VisitOK, Owning
<1>2. UNCHANGED <<requests, images>>
  BY DEF PutResult, provider
<1>3. CASE UNCHANGED result
  BY <1>2, <1>3, EffectStutters
<1>4. CASE result' = [result EXCEPT ![n] = outcome]
  <2>1. /\ Tries = IF requests[n] > 0 THEN n ELSE n - 1
        /\ ~Closed /\ images \subseteq {n}
    BY <1>1, Frontier
  <2>2. UNCHANGED Tries /\ UNCHANGED Cardinality(images) /\ n > 0 /\ n \in Nat
    BY <1>1, <1>2, VisualCallsOK DEF VisualCallsAssumption, Tries, Attempts
  <2>3. result'[n] = outcome /\ \A m \in Attempts : m # n => result'[m] = result[m]
    BY <1>1, <1>4 DEF IInv, TypeOK
  <2>4. CASE outcome = "retryable"
    <3>1. images = {} /\ Tries = n
      BY <1>1, <2>1, <2>4
    <3>2. Cardinality(images) = 0
      BY <3>1, FS_EmptySet
    <3>3. ~Closed'
      BY <2>1, <2>3, <2>4 DEF Closed
    <3>4. Effect!Refuse
      BY <1>1, <2>1, <2>2, <2>3, <2>4, <3>1, <3>2, <3>3 DEF Effect!Refuse, Closed
    <3>5. QED
      BY <3>4 DEF Effect!Next
  <2>5. CASE outcome \in {"success", "final"}
    <3>1. Closed'
      BY <1>1, <2>3, <2>5 DEF Closed
    <3>2. Effect!Close
      BY <2>1, <2>2, <3>1 DEF Effect!Close, Closed
    <3>3. QED
      BY <3>2 DEF Effect!Next
  <2>6. QED
    BY <1>1, <2>4, <2>5 DEF Outcomes
<1>5. QED
  BY <1>1, <1>3, <1>4 DEF PutResult

\* Ledgers, claims, crashes and lost answers implement one external effect:
\* numbered attempts, a new one only after a refusal, at most one image.
THEOREM Refinement == Spec => ImplementsSideEffect
<1>1. IInv /\ [Next]_vars => [Effect!Next]_(Effect!effectVars)
  <2> SUFFICES ASSUME IInv, [Next]_vars PROVE Effect!Next \/ UNCHANGED Effect!effectVars
    OBVIOUS
  <2>1. ASSUME NEW v \in Visits, VisitNext(v)
        PROVE  Effect!Next \/ UNCHANGED Effect!effectVars
    <3>1. CASE RequestImage(v)
      BY <3>1, RequestRefines
    <3>2. CASE ProviderAnswers(v)
      <4>1. /\ visit[v].pc = "provider" /\ UNCHANGED <<requests, result>>
            /\ images' \in {images, images \cup {visit[v].attempt}}
        BY <3>2 DEF ProviderAnswers, adapter
      <4>2. QED
        BY <4>1, DrawingRefines
    <3>3. CASE PutResult(v)
      BY <3>3, ResultRefines
    <3>4. CASE VisitDies(v)
      <4>1. UNCHANGED <<requests, result>>
        BY <3>4 DEF VisitDies, adapter
      <4>2. CASE UNCHANGED images
        BY <4>1, <4>2, EffectStutters
      <4>3. CASE visit[v].pc = "provider" /\ images' = images \cup {visit[v].attempt}
        BY <4>1, <4>3, DrawingRefines
      <4>4. QED
        BY <3>4, <4>2, <4>3 DEF VisitDies
    <3>5. CASE UNCHANGED <<requests, result, images>>
      BY <3>5, EffectStutters
    <3>6. QED
      BY <2>1, <3>1, <3>2, <3>3, <3>4, <3>5
      DEF VisitNext, Reconcile, CollectEvidence, Claim, Process, PutIntent, Settle, adapter, provider
  <2>2. CASE \E w \in Workers : WorkerNext(w)
    <3>1. UNCHANGED <<requests, result, images>>
      BY <2>2 DEF WorkerNext, StartStep, ReenterHold, CheckCancelled, Prepare, SendRequest, StopCancelled,
                  RefuseRequest, LoseAnswer, RecordFailure, PersistArtifact, RecordSuccess, WorkerDies,
                  adapter, provider
    <3>2. QED
      BY <3>1, EffectStutters
  <2>3. CASE Cancel \/ UNCHANGED vars
    BY <2>3, EffectStutters DEF Cancel, vars, adapter, provider
  <2>4. QED
    BY <2>1, <2>2, <2>3 DEF Next
<1>2. QED
  BY <1>1, EffectInit, Invariance, PTL DEF Spec, ImplementsSideEffect, Effect!Spec


-----------------------------------------------------------------------------
(* The publishing adapter's operation object.                              *)

\* Requests by their fields, as TypeOK has them.
RequestRec == [pc : Places, op : OperationAttempts \cup {NoToken}, at : TokenKeys \cup {NoToken},
               forced : BOOLEAN, again : BOOLEAN, seen : Intents, value : Values \cup TokenResults \cup {"none"}]
\* Where a request looks for a token, works on its operation, stores its result.
Seeking == {"replay", "asked", "keep", "put"}
Working == Seeking \cup {"use"}
Saving == {"save", "store"}
\* What intent i of token attempt t says, and what R2 holds in ev.
Agrees(i, t, ev) ==
  /\ i.known # "none" => t \in DOMAIN ev /\ ev[t] = i.known
  /\ i.state = "completed" => i.known = "token"
\* The token ledger: the intents, the results in R2, the generation, and how often
\* WeChat was asked.
Ledger(ints, ev, gen, ask) ==
  /\ gen \in Nat \ {0} /\ DOMAIN ints \subseteq TokenKeys /\ DOMAIN ask = DOMAIN ints /\ DOMAIN ev \subseteq DOMAIN ints
  /\ \A t \in DOMAIN ints :
       /\ ints[t] \in Intents /\ ask[t] = 1 /\ t[1] <= gen /\ Agrees(ints[t], t, ev)
       /\ t[2] > 1 => <<t[1], t[2] - 1>> \in DOMAIN ev /\ ev[<<t[1], t[2] - 1>>] \in Retryable
  /\ \A t \in DOMAIN ev : ev[t] \in TokenResults
EndedTokens == expired \cup revoked
\* The cause there must be for an error.
Blame(v) ==
  /\ v = "credentials" => (\E t \in DOMAIN evidence : evidence[t] = "rejected") \/ (\E t, u \in EndedTokens : t # u)
  /\ v = "exhausted" =>
       \E g \in 1..generation : \A n \in TryNumbers : <<g, n>> \in DOMAIN evidence /\ evidence[<<g, n>>] \in Retryable
\* What a request relies on at its place: its attempt is announced, what it saw of
\* the intent agrees with R2, its token is stored, a token refreshed for it
\* follows one that ended, and the error it is about to store has its cause.
Holds(x) ==
  /\ x.pc # "idle" => x.op \in claims
  /\ x.pc \in Seeking => x.at \in DOMAIN intents
  /\ x.pc = "replay" => Agrees(x.seen, x.at, evidence)
  /\ x.pc \in {"keep", "put"} => x.value \in TokenResults
  /\ x.pc = "use" => IsToken(x.at)
  /\ x.pc \in Working /\ (x.forced \/ x.again) => \E u \in EndedTokens : u[1] < x.at[1]
  /\ x.pc \in Saving => x.value \in Values /\ Blame(x.value)
TokensInv ==
  /\ Ledger(intents, evidence, generation, asks)
  /\ cache # NoToken => IsToken(cache)
  /\ EndedTokens \subseteq DOMAIN evidence /\ IsFiniteSet(EndedTokens)
  /\ req \in [Requests -> RequestRec] /\ \A r \in Requests : Holds(req[r])
  /\ \A k \in DOMAIN stored : Blame(stored[k])
\* A write is worked on by one request, which has not stored its result, and
\* which knows when it took effect.
Alone(r) ==
  req[r].pc \in Working \cup Saving /\ req[r].op[1] \in Writes =>
    /\ req[r].op \notin DOMAIN stored
    /\ req[r].op \in DOMAIN effects => req[r].pc \in Saving /\ req[r].value = "made"
    /\ \A s \in Requests \ {r} : req[s].pc \in Working \cup Saving => req[s].op # req[r].op
\* Attempts are begun after those before them failed; what took effect is called
\* made or nothing.
ResultsInv ==
  /\ \A k \in claims : \A e \in Earlier(k) : Failed(e)
  /\ AnswersAgree
  /\ \A k \in DOMAIN effects : k \in claims /\ k[1] \in Writes /\ effects[k] = 1 /\ (k \in DOMAIN stored => stored[k] = "made")
  /\ \A r \in Requests : Alone(r)
OperationTypes ==
  /\ sent \subseteq OperationAttempts /\ claims \subseteq sent
  /\ told \subseteq OperationAttempts \X (Values \cup AccountErrors \cup {"invalid"})
  /\ DOMAIN stored \subseteq claims /\ \A k \in DOMAIN stored : stored[k] \in Values
  /\ draft \in Found /\ faults \in 0..MaxFaults
OperationInv == OperationTypes /\ TokensInv /\ ResultsInv

\* What an intent says of its result may be noted when R2 holds that result.
LEMMA LedgerNoted ==
  ASSUME NEW ints, NEW ev, NEW gen, NEW ask, Ledger(ints, ev, gen, ask),
         NEW t \in DOMAIN ints, NEW i \in Intents, Agrees(i, t, ev)
  PROVE  Ledger(Put(ints, t, i), ev, gen, ask)
<1> DEFINE p == Put(ints, t, i)
<1>1. /\ DOMAIN p = DOMAIN ints \cup {t} /\ p[t] = i
      /\ \A j \in DOMAIN ints : j # t => p[j] = ints[j]
  BY DEF Put
<1> HIDE DEF p
<1>2. DOMAIN p = DOMAIN ints
  BY <1>1
<1>3. \A j \in DOMAIN p : p[j] \in Intents /\ Agrees(p[j], j, ev)
  BY <1>1, <1>2 DEF Ledger
<1>4. Ledger(p, ev, gen, ask)
  BY <1>2, <1>3 DEF Ledger
<1>5. QED
  BY <1>4 DEF p

\* R2 may hold one result more: a result is never replaced, so every intent
\* and every later attempt keeps what it relies on.
LEMMA LedgerStored ==
  ASSUME NEW ints, NEW ev, NEW gen, NEW ask, Ledger(ints, ev, gen, ask),
         NEW t \in DOMAIN ints, t \notin DOMAIN ev, NEW v \in TokenResults
  PROVE  Ledger(ints, Put(ev, t, v), gen, ask)
<1> DEFINE e == Put(ev, t, v)
<1>1. /\ DOMAIN e = DOMAIN ev \cup {t} /\ e[t] = v
      /\ \A j \in DOMAIN ev : j # t => e[j] = ev[j]
  BY DEF Put
<1> HIDE DEF e
<1>2. \A j \in DOMAIN ints : Agrees(ints[j], j, e)
  BY <1>1 DEF Ledger, Agrees
<1>3. \A j \in DOMAIN ints : j[2] > 1 =>
        <<j[1], j[2] - 1>> \in DOMAIN e /\ e[<<j[1], j[2] - 1>>] \in Retryable
  BY <1>1 DEF Ledger
<1>4. \A j \in DOMAIN e : e[j] \in TokenResults
  BY <1>1 DEF Ledger
<1>5. Ledger(ints, e, gen, ask)
  BY <1>1, <1>2, <1>3, <1>4 DEF Ledger
<1>6. QED
  BY <1>5 DEF e

\* A new generation has no attempt yet.
LEMMA LedgerRenewed ==
  ASSUME NEW ints, NEW ev, NEW gen, NEW ask, Ledger(ints, ev, gen, ask)
  PROVE  Ledger(ints, ev, gen + 1, ask) /\ <<gen + 1, 1>> \notin DOMAIN ints
         /\ <<gen + 1, 1>> \in TokenKeys
<1>1. gen \in Nat \ {0} /\ gen + 1 \in Nat \ {0}
  BY DEF Ledger
<1>2. \A t \in DOMAIN ints : t[1] <= gen /\ t \in TokenKeys
  BY DEF Ledger
<1>3. \A t \in DOMAIN ints : t[1] \in Nat /\ t[1] <= gen + 1 /\ t # <<gen + 1, 1>>
  BY <1>1, <1>2 DEF TokenKeys
<1>4. QED
  BY <1>1, <1>3 DEF Ledger, TokenKeys, TryNumbers

\* A token attempt that nobody announced is announced and asked for once.
LEMMA LedgerAsked ==
  ASSUME NEW ints, NEW ev, NEW gen, NEW ask, Ledger(ints, ev, gen, ask),
         NEW t \in TokenKeys, t \notin DOMAIN ints, t[1] <= gen,
         t[2] > 1 => <<t[1], t[2] - 1>> \in DOMAIN ev /\ ev[<<t[1], t[2] - 1>>] \in Retryable
  PROVE  Ledger(Put(ints, t, [state |-> "intent", known |-> "none"]), ev, gen, Put(ask, t, Count(ask, t) + 1))
<1> DEFINE i == [state |-> "intent", known |-> "none"]
<1> DEFINE p == Put(ints, t, i)
<1> DEFINE q == Put(ask, t, Count(ask, t) + 1)
<1>1. /\ DOMAIN p = DOMAIN ints \cup {t} /\ p[t] = i
      /\ \A j \in DOMAIN ints : j # t => p[j] = ints[j]
  BY DEF Put
<1>2. Count(ask, t) = 0
  BY DEF Count, Ledger
<1>3. /\ DOMAIN q = DOMAIN ask \cup {t} /\ q[t] = 1
      /\ \A j \in DOMAIN ask : j # t => q[j] = ask[j]
  <2>1. /\ DOMAIN q = DOMAIN ask \cup {t} /\ q[t] = Count(ask, t) + 1
        /\ \A j \in DOMAIN ask : j # t => q[j] = ask[j]
    BY DEF Put
  <2>2. QED
    BY <1>2, <2>1
<1>4. i \in Intents /\ Agrees(i, t, ev)
  BY DEF Intents, TokenResults, Retryable, Agrees
<1> HIDE DEF i, p, q
<1>5. Ledger(p, ev, gen, q)
  BY <1>1, <1>3, <1>4 DEF Ledger
<1>6. QED
  BY <1>5 DEF p, q, i

\* A request moves to y, which holds what it relies on.
Takes(r, y) == y \in RequestRec /\ req' = [req EXCEPT ![r] = y] /\ Holds(y)'
Works(r, op) == \E y : Takes(r, y) /\ y.op = op /\ y.pc \in Working \cup {"save"}
LedgerNext == Ledger(intents', evidence', generation', asks')
\* What x brings into the search for a token of generation g.
Brings(x, g) ==
  /\ x \in RequestRec /\ x.op \in OperationAttempts /\ x.op \in claims' /\ EndedTokens' \subseteq TokenKeys
  /\ x.forced \/ x.again => \E u \in EndedTokens' : u[1] < g

\* The fields of a request.
LEMMA RecFields ==
  ASSUME NEW x \in RequestRec
  PROVE  /\ x.op \in OperationAttempts \cup {NoToken} /\ x.at \in TokenKeys \cup {NoToken}
         /\ x.forced \in BOOLEAN /\ x.again \in BOOLEAN /\ x.seen \in Intents
         /\ x.value \in Values \cup TokenResults \cup {"none"} /\ x.pc \in Places
  BY DEF RequestRec

\* An idle request relies on nothing.
LEMMA IdleRec == NoRequest \in RequestRec /\ Holds(NoRequest)'
<1>1. NoRequest \in RequestRec
  BY DEF NoRequest, NoIntent, RequestRec, Places, Intents
<1>2. NoRequest.pc = "idle"
  BY DEF NoRequest
<1>3. QED
  BY <1>1, <1>2 DEF Holds, Seeking, Working, Saving

\* The fields of a request that looks for a token.
LEMMA SeekFields ==
  ASSUME NEW x \in RequestRec, NEW pc \in Seeking, NEW t \in TokenKeys
  PROVE  /\ Seek(x, pc, t) \in RequestRec
         /\ Seek(x, pc, t).pc = pc /\ Seek(x, pc, t).op = x.op /\ Seek(x, pc, t).at = t
         /\ Seek(x, pc, t).forced = x.forced /\ Seek(x, pc, t).again = x.again
  BY RecFields DEF Seek, NoRequest, NoIntent, RequestRec, Places, Intents, Seeking

\* The fields of a request that met an intent.
LEMMA ReplayFields ==
  ASSUME NEW x \in RequestRec, NEW t \in TokenKeys, NEW i \in Intents
  PROVE  LET y == [Seek(x, "replay", t) EXCEPT !.seen = i] IN
         /\ y \in RequestRec /\ y.pc = "replay" /\ y.op = x.op /\ y.at = t /\ y.seen = i
         /\ y.forced = x.forced /\ y.again = x.again
  BY RecFields DEF Seek, NoRequest, NoIntent, RequestRec, Places

\* An attempt is announced and asked for, or met where it was announced.
LEMMA AttemptWorks ==
  ASSUME NEW r \in Requests, NEW x, NEW t \in TokenKeys, NEW ints,
         Ledger(ints, evidence', generation', asks),
         t[1] <= generation', Brings(x, t[1]),
         t[2] > 1 => <<t[1], t[2] - 1>> \in DOMAIN evidence' /\ evidence'[<<t[1], t[2] - 1>>] \in Retryable,
         Attempt(r, x, t, ints)
  PROVE  LedgerNext /\ Works(r, x.op) /\ DOMAIN ints \subseteq DOMAIN intents'
<1>1. x \in RequestRec
  BY DEF Brings
<1>2. CASE t \in DOMAIN ints
  <2> DEFINE y == [Seek(x, "replay", t) EXCEPT !.seen = ints[t]]
  <2>1. intents' = ints /\ asks' = asks /\ req' = [req EXCEPT ![r] = y]
    BY <1>2 DEF Attempt, MoveTo
  <2>2. ints[t] \in Intents /\ Agrees(ints[t], t, evidence')
    BY <1>2 DEF Ledger
  <2>3. /\ y \in RequestRec /\ y.pc = "replay" /\ y.op = x.op /\ y.at = t /\ y.seen = ints[t]
        /\ y.forced = x.forced /\ y.again = x.again
    BY <1>1, <2>2, ReplayFields
  <2> HIDE DEF y
  <2>4. Holds(y)'
    BY <1>2, <2>1, <2>2, <2>3 DEF Holds, Brings, Seeking, Working, Saving
  <2>5. Works(r, x.op)
    BY <2>1, <2>3, <2>4 DEF Works, Takes, Working, Seeking
  <2>6. QED
    BY <2>1, <2>5 DEF LedgerNext
<1>3. CASE t \notin DOMAIN ints
  <2> DEFINE y == Seek(x, "asked", t)
  <2> DEFINE i == [state |-> "intent", known |-> "none"]
  <2>1. /\ intents' = Put(ints, t, i) /\ asks' = Put(asks, t, Count(asks, t) + 1)
        /\ req' = [req EXCEPT ![r] = y]
    BY <1>3 DEF Attempt, MoveTo
  <2>2. LedgerNext
    BY <1>3, <2>1, LedgerAsked DEF LedgerNext
  <2>3. DOMAIN intents' = DOMAIN ints \cup {t}
    BY <2>1 DEF Put
  <2>4. /\ y \in RequestRec /\ y.pc = "asked" /\ y.op = x.op /\ y.at = t
        /\ y.forced = x.forced /\ y.again = x.again
    BY <1>1, SeekFields DEF Seeking
  <2> HIDE DEF y
  <2>5. Holds(y)'
    BY <2>3, <2>4 DEF Holds, Brings, Seeking, Working, Saving
  <2>6. Works(r, x.op)
    BY <2>1, <2>4, <2>5 DEF Works, Takes, Working, Seeking
  <2>7. QED
    BY <2>2, <2>3, <2>6
<1>4. QED
  BY <1>2, <1>3

\* A request goes to WeChat with a token R2 holds.
LEMMA UseWorks ==
  ASSUME NEW r \in Requests, NEW x, NEW t \in TokenKeys, Brings(x, t[1]), IsToken(t)', Use(r, x, t)
  PROVE  Works(r, x.op)
<1> DEFINE y == [NoRequest EXCEPT !.pc = "use", !.op = x.op, !.again = x.again, !.at = t]
<1>1. req' = [req EXCEPT ![r] = y]
  BY DEF Use, MoveTo
<1>2. x \in RequestRec
  BY DEF Brings
<1>3. /\ y \in RequestRec /\ y.pc = "use" /\ y.op = x.op /\ y.at = t /\ y.again = x.again /\ y.forced = FALSE
  BY <1>2, RecFields DEF NoRequest, NoIntent, RequestRec, Places, Intents
<1> HIDE DEF y
<1>4. Holds(y)'
  BY <1>3 DEF Holds, Brings, Seeking, Working, Saving
<1>5. QED
  BY <1>1, <1>3, <1>4 DEF Works, Takes, Working

\* A request has a result to store.
LEMMA SaveWorks ==
  ASSUME NEW r \in Requests, NEW x \in RequestRec, x.op \in claims', NEW v \in Values, Blame(v)', Save(r, x, v)
  PROVE  \E y : Takes(r, y) /\ y.op = x.op /\ y.pc = "save" /\ y.value = v
<1> DEFINE y == [NoRequest EXCEPT !.pc = "save", !.op = x.op, !.value = v]
<1>1. req' = [req EXCEPT ![r] = y]
  BY DEF Save, MoveTo
<1>2. /\ y \in RequestRec /\ y.pc = "save" /\ y.op = x.op /\ y.value = v
  BY RecFields DEF NoRequest, NoIntent, RequestRec, Places, Intents
<1> HIDE DEF y
<1>3. Holds(y)'
  BY <1>2 DEF Holds, Seeking, Working, Saving
<1>4. QED
  BY <1>1, <1>2, <1>3 DEF Takes

\* token, when it is not forced: with the cached token or at the generation's
\* first attempt.
LEMMA TokenWorks ==
  ASSUME NEW r \in Requests, NEW x, NEW g \in Nat, NEW cached, NEW ints,
         Ledger(ints, evidence', generation, asks), ~ x.forced,
         cached # NoToken => IsToken(cached)' /\ g <= cached[1],
         g <= generation, Brings(x, g), token(r, x, cached, ints)
  PROVE  LedgerNext /\ Works(r, x.op) /\ DOMAIN ints \subseteq DOMAIN intents' /\ generation' = generation
<1>1. generation \in Nat \ {0}
  BY DEF Ledger
<1>2. CASE Fresh(cached)
  <2>1. Use(r, x, cached) /\ intents' = ints /\ generation' = generation /\ asks' = asks
    BY <1>2 DEF token
  <2>2. cached # NoToken /\ IsToken(cached)' /\ cached \in TokenKeys /\ g <= cached[1]
    BY <1>2 DEF Fresh, Ledger, IsToken
  <2>3. Brings(x, cached[1])
    <3>1. \A u \in EndedTokens' : u[1] < g => u[1] < cached[1]
      BY <2>2 DEF Brings, TokenKeys
    <3>2. QED
      BY <3>1 DEF Brings
  <2>4. QED
    BY <2>1, <2>2, <2>3, UseWorks DEF LedgerNext
<1>3. CASE ~ Fresh(cached)
  <2>1. generation' = generation /\ Attempt(r, x, <<generation, 1>>, ints)
    BY <1>3 DEF token
  <2>2. <<generation, 1>> \in TokenKeys
    BY <1>1 DEF TokenKeys, TryNumbers
  <2>3. Brings(x, generation)
    <3>1. \A u \in EndedTokens' : u[1] < g => u[1] < generation
      BY <1>1 DEF Brings, TokenKeys
    <3>2. QED
      BY <3>1 DEF Brings
  <2>4. Ledger(ints, evidence', generation', asks)
    BY <2>1
  <2> DEFINE t == <<generation, 1>>
  <2>5. t \in TokenKeys /\ t[1] = generation /\ ~ (t[2] > 1)
    BY <2>2
  <2>6. t[1] <= generation' /\ Brings(x, t[1]) /\ Attempt(r, x, t, ints)
    BY <1>1, <2>1, <2>3, <2>5
  <2> HIDE DEF t
  <2>7. LedgerNext /\ Works(r, x.op) /\ DOMAIN ints \subseteq DOMAIN intents'
    BY <2>4, <2>5, <2>6, AttemptWorks
  <2>8. QED
    BY <2>1, <2>7
<1>4. QED
  BY <1>2, <1>3

\* A forced refresh opens the next generation.
LEMMA ForcedWorks ==
  ASSUME NEW r \in Requests, NEW x, NEW cached,
         Ledger(intents, evidence', generation, asks), x.forced,
         Brings(x, generation + 1), token(r, x, cached, intents)
  PROVE  LedgerNext /\ Works(r, x.op) /\ DOMAIN intents \subseteq DOMAIN intents' /\ generation' = generation + 1
<1> DEFINE t == <<generation + 1, 1>>
<1>1. generation' = generation + 1 /\ Attempt(r, x, t, intents)
  BY DEF token
<1>2. Ledger(intents, evidence', generation + 1, asks) /\ t \in TokenKeys
  BY LedgerRenewed
<1>3. generation \in Nat
  BY DEF Ledger
<1>4. t[1] = generation + 1 /\ ~ (t[2] > 1) /\ t[1] <= generation'
  BY <1>1, <1>3
<1>5. Ledger(intents, evidence', generation', asks) /\ Brings(x, t[1])
  BY <1>1, <1>2, <1>4
<1> HIDE DEF t
<1>6. LedgerNext /\ Works(r, x.op) /\ DOMAIN intents \subseteq DOMAIN intents'
  BY <1>1, <1>2, <1>4, <1>5, AttemptWorks
<1>7. QED
  BY <1>1, <1>6

\* A token that was given is kept, and used by the request it was forced for.
LEMMA GrantedWorks ==
  ASSUME NEW r \in Requests, NEW x, NEW ints,
         Ledger(ints, evidence', generation, asks),
         x.at \in TokenKeys, x.at[1] <= generation, IsToken(x.at)',
         Brings(x, x.at[1]), Granted(r, x, ints)
  PROVE  LedgerNext /\ Works(r, x.op) /\ DOMAIN ints \subseteq DOMAIN intents' /\ generation' = generation
         /\ IsToken(cache)'
<1>1. cache' = x.at /\ IsToken(cache)'
  BY DEF Granted, IsToken
<1>2. CASE x.forced
  <2> DEFINE z == [x EXCEPT !.forced = FALSE, !.again = TRUE]
  <2>1. token(r, z, x.at, ints)
    BY <1>2 DEF Granted
  <2>2. x \in RequestRec /\ x.op \in OperationAttempts
    BY DEF Brings
  <2>3. z \in RequestRec /\ z.op = x.op /\ ~ z.forced /\ z.again
    BY <2>2 DEF RequestRec
  <2> HIDE DEF z
  <2>4. Brings(z, x.at[1])
    BY <1>2, <2>2, <2>3 DEF Brings
  <2>5. x.at[1] \in Nat /\ x.at[1] <= x.at[1]
    BY DEF TokenKeys
  <2>6. LedgerNext /\ Works(r, z.op) /\ DOMAIN ints \subseteq DOMAIN intents' /\ generation' = generation
    BY <2>1, <2>3, <2>4, <2>5, TokenWorks
  <2>7. QED
    BY <1>1, <2>3, <2>6
<1>3. CASE ~ x.forced
  <2>1. Use(r, x, x.at) /\ intents' = ints /\ generation' = generation /\ asks' = asks
    BY <1>3 DEF Granted
  <2>2. QED
    BY <1>1, <2>1, UseWorks DEF LedgerNext
<1>4. QED
  BY <1>2, <1>3

\* The last attempt of a generation is made after the two before it failed.
LEMMA ThreeFailures ==
  ASSUME NEW ints, NEW ev, NEW gen, NEW ask, Ledger(ints, ev, gen, ask),
         NEW t \in DOMAIN ev, ~ (t[2] < 3), ev[t] \in Retryable
  PROVE  t[1] \in 1..gen /\ \A n \in TryNumbers : <<t[1], n>> \in DOMAIN ev /\ ev[<<t[1], n>>] \in Retryable
<1>1. /\ gen \in Nat /\ DOMAIN ints \subseteq TokenKeys /\ DOMAIN ev \subseteq DOMAIN ints
      /\ \A j \in DOMAIN ints : j[1] <= gen
      /\ \A j \in DOMAIN ints : j[2] > 1 => <<j[1], j[2] - 1>> \in DOMAIN ev /\ ev[<<j[1], j[2] - 1>>] \in Retryable
  BY DEF Ledger
<1>2. t[1] \in Nat \ {0} /\ t[2] \in TryNumbers /\ t = <<t[1], t[2]>> /\ t[1] <= gen
  BY <1>1 DEF TokenKeys
<1>3. t[2] = 3
  BY <1>2 DEF TryNumbers
<1>4. <<t[1], 2>> \in DOMAIN ev /\ ev[<<t[1], 2>>] \in Retryable
  BY <1>1, <1>3
<1>5. <<t[1], 1>> \in DOMAIN ev /\ ev[<<t[1], 1>>] \in Retryable
  <2> DEFINE s == <<t[1], 2>>
  <2>1. s \in DOMAIN ints /\ s[1] = t[1] /\ s[2] = 2
    BY <1>1, <1>4
  <2>2. <<s[1], s[2] - 1>> \in DOMAIN ev /\ ev[<<s[1], s[2] - 1>>] \in Retryable
    BY <1>1, <2>1
  <2>3. QED
    BY <2>1, <2>2
<1>6. t[1] \in 1..gen
  BY <1>1, <1>2
<1>7. QED
  BY <1>2, <1>3, <1>4, <1>5, <1>6 DEF TryNumbers

\* What an attempt came to is acted on.
LEMMA SettledWorks ==
  ASSUME NEW r \in Requests, NEW x, NEW v \in TokenResults, NEW ints,
         Ledger(ints, evidence', generation, asks),
         x.at \in DOMAIN evidence', evidence'[x.at] = v,
         cache # NoToken => cache \in DOMAIN evidence' /\ evidence'[cache] = "token",
         Brings(x, x.at[1]), TokenSettled(r, x, v, ints)
  PROVE  LedgerNext /\ Works(r, x.op) /\ DOMAIN ints \subseteq DOMAIN intents' /\ generation' = generation
         /\ (cache' # NoToken => IsToken(cache)')
<1>1. x.at \in DOMAIN ints /\ x.at \in TokenKeys /\ x.at[1] <= generation /\ generation \in Nat
  BY DEF Ledger
<1>2. CASE v = "token"
  <2>1. Granted(r, x, ints) /\ IsToken(x.at)'
    BY <1>2 DEF TokenSettled, IsToken
  <2>2. QED
    BY <1>1, <2>1, GrantedWorks
<1>3. CASE v # "token"
  <2>1. generation' = generation /\ cache' = cache
    BY <1>3 DEF TokenSettled
  <2>3. cache' # NoToken => IsToken(cache)'
    BY <2>1 DEF IsToken
  <2>4. CASE v \in Retryable /\ x.at[2] < 3
    <3> DEFINE t == <<x.at[1], x.at[2] + 1>>
    <3>1. Attempt(r, x, t, ints)
      BY <1>3, <2>4 DEF TokenSettled
    <3>2. x.at[1] \in Nat \ {0} /\ x.at[2] \in TryNumbers /\ x.at = <<x.at[1], x.at[2]>>
      BY <1>1 DEF TokenKeys
    <3>3. t \in TokenKeys /\ t[1] = x.at[1] /\ <<t[1], t[2] - 1>> = x.at
      BY <2>4, <3>2 DEF TokenKeys, TryNumbers
    <3>4. /\ t[1] <= generation' /\ Brings(x, t[1]) /\ Ledger(ints, evidence', generation', asks)
          /\ <<t[1], t[2] - 1>> \in DOMAIN evidence' /\ evidence'[<<t[1], t[2] - 1>>] \in Retryable
      BY <1>1, <2>1, <2>4, <3>3
    <3> HIDE DEF t
    <3>5. LedgerNext /\ Works(r, x.op) /\ DOMAIN ints \subseteq DOMAIN intents'
      BY <3>1, <3>3, <3>4, AttemptWorks
    <3>6. QED
      BY <2>1, <2>3, <3>5
  <2>5. CASE ~ (v \in Retryable /\ x.at[2] < 3)
    <3> DEFINE e == IF v \in Retryable THEN "exhausted" ELSE "credentials"
    <3>1. Save(r, x, e) /\ intents' = ints /\ asks' = asks
      BY <1>3, <2>5 DEF TokenSettled
    <3>2. e \in Values
      BY DEF Values, Failures
    <3>3. Blame(e)'
      <4>1. CASE v \in Retryable
        <5>1. e = "exhausted"
          BY <4>1
        <5>2. x.at[1] \in 1..generation /\ \A n \in TryNumbers : <<x.at[1], n>> \in DOMAIN evidence' /\ evidence'[<<x.at[1], n>>] \in Retryable
          BY <2>5, <4>1, ThreeFailures
        <5>3. QED
          BY <2>1, <5>1, <5>2 DEF Blame
      <4>2. CASE v \notin Retryable
        <5>1. e = "credentials" /\ v = "rejected"
          BY <1>3, <4>2 DEF TokenResults
        <5>2. QED
          BY <5>1 DEF Blame
      <4>3. QED
        BY <4>1, <4>2
    <3> HIDE DEF e
    <3>4. x \in RequestRec /\ x.op \in claims'
      BY DEF Brings
    <3>5. PICK y : Takes(r, y) /\ y.op = x.op /\ y.pc = "save"
      BY <3>1, <3>2, <3>3, <3>4, SaveWorks
    <3>6. Works(r, x.op)
      BY <3>5 DEF Works
    <3>7. QED
      BY <2>1, <2>3, <3>1, <3>6 DEF LedgerNext
  <2>6. QED
    BY <2>4, <2>5
<1>4. QED
  BY <1>2, <1>3

-----------------------------------------------------------------------------
\* What only grows.
OnlyGrows ==
  /\ claims \subseteq claims' /\ DOMAIN intents \subseteq DOMAIN intents' /\ generation <= generation'
  /\ DOMAIN evidence \subseteq DOMAIN evidence' /\ \A t \in DOMAIN evidence : evidence'[t] = evidence[t]
  /\ EndedTokens \subseteq EndedTokens'

\* The token side as a step leaves it.
TokensNext ==
  /\ LedgerNext /\ (cache' # NoToken => IsToken(cache)')
  /\ EndedTokens' \subseteq DOMAIN evidence' /\ IsFiniteSet(EndedTokens)'

\* A cause for an error stays one.
LEMMA BlameStill ==
  ASSUME generation \in Nat, generation' \in Nat, OnlyGrows, NEW v, Blame(v)
  PROVE  Blame(v)'
<1>1. v = "credentials" =>
        (\E t \in DOMAIN evidence' : evidence'[t] = "rejected") \/ (\E t, u \in EndedTokens' : t # u)
  BY DEF Blame, OnlyGrows
<1>2. ASSUME v = "exhausted"
      PROVE \E g \in 1..generation' : \A n \in TryNumbers : <<g, n>> \in DOMAIN evidence' /\ evidence'[<<g, n>>] \in Retryable
  <2>1. PICK g \in 1..generation : \A n \in TryNumbers : <<g, n>> \in DOMAIN evidence /\ evidence[<<g, n>>] \in Retryable
    BY <1>2 DEF Blame
  <2>2. g \in 1..generation'
    BY <2>1 DEF OnlyGrows
  <2>3. \A n \in TryNumbers : <<g, n>> \in DOMAIN evidence' /\ evidence'[<<g, n>>] \in Retryable
    BY <2>1 DEF OnlyGrows
  <2>4. QED
    BY <2>2, <2>3
<1>3. QED
  BY <1>1, <1>2 DEF Blame

\* What a request relies on stays so while the others work.
LEMMA HoldsStill ==
  ASSUME generation \in Nat, generation' \in Nat, OnlyGrows, NEW x, Holds(x)
  PROVE  Holds(x)'
<1>1. x.pc \in Saving => Blame(x.value)'
  BY BlameStill DEF Holds
<1>2. x.pc = "replay" => Agrees(x.seen, x.at, evidence')
  BY DEF Holds, Agrees, OnlyGrows
<1>3. x.pc = "use" => IsToken(x.at)'
  BY DEF Holds, IsToken, OnlyGrows
<1>4. x.pc \in Working /\ (x.forced \/ x.again) => \E u \in EndedTokens' : u[1] < x.at[1]
  BY DEF Holds, OnlyGrows
<1>5. QED
  BY <1>1, <1>2, <1>3, <1>4 DEF Holds, OnlyGrows

\* The requests keep what they rely on when one of them moves, or none.
LEMMA TokenStep ==
  ASSUME OperationInv, OnlyGrows, TokensNext,
         (\E r \in Requests : \E y : Takes(r, y)) \/ req' = req,
         \A k \in DOMAIN stored' :
           (k \in DOMAIN stored /\ stored'[k] = stored[k]) \/ \E v : v = stored'[k] /\ Blame(v)'
  PROVE  TokensInv'
<1>1. generation \in Nat /\ generation' \in Nat
  BY DEF OperationInv, TokensInv, TokensNext, LedgerNext, Ledger
<1>2. req \in [Requests -> RequestRec] /\ \A r \in Requests : Holds(req[r])
  BY DEF OperationInv, TokensInv
<1>3. \A s \in Requests : Holds(req[s])'  \/ req'[s] # req[s]
  <2> SUFFICES ASSUME NEW s \in Requests, req'[s] = req[s] PROVE Holds(req[s])'
    OBVIOUS
  <2>1. PICK x : x = req[s]
    OBVIOUS
  <2>2. Holds(x)
    BY <1>2, <2>1
  <2>3. Holds(x)'
    BY <1>1, <2>2, HoldsStill
  <2>4. x = req'[s]
    BY <2>1
  <2>5. QED
    BY <2>3, <2>4
<1>4. req' \in [Requests -> RequestRec] /\ \A s \in Requests : Holds(req[s])'
  <2>1. CASE req' = req
    BY <1>2, <1>3, <2>1
  <2>2. ASSUME NEW r \in Requests, NEW y, Takes(r, y)
        PROVE req' \in [Requests -> RequestRec] /\ \A s \in Requests : Holds(req[s])'
    <3>1. req' \in [Requests -> RequestRec] /\ req'[r] = y /\ \A s \in Requests : s # r => req'[s] = req[s]
      BY <1>2, <2>2 DEF Takes
    <3>2. Holds(req[r])'
      BY <2>2, <3>1 DEF Takes
    <3>3. QED
      BY <1>3, <3>1, <3>2
  <2>3. QED
    BY <2>1, <2>2
<1>5. \A k \in DOMAIN stored' : Blame(stored[k])'
  <2> SUFFICES ASSUME NEW k \in DOMAIN stored' PROVE Blame(stored[k])'
    OBVIOUS
  <2>1. CASE k \in DOMAIN stored /\ stored'[k] = stored[k]
    <3>1. PICK v : v = stored[k]
      OBVIOUS
    <3>2. Blame(v)
      BY <2>1, <3>1 DEF OperationInv, TokensInv
    <3>3. Blame(v)'
      BY <1>1, <3>2, BlameStill
    <3>4. QED
      BY <2>1, <3>1, <3>3
  <2>2. CASE \E v : v = stored'[k] /\ Blame(v)'
    BY <2>2
  <2>3. QED
    BY <2>1, <2>2
<1>6. QED
  BY <1>4, <1>5 DEF TokensInv, TokensNext, LedgerNext

-----------------------------------------------------------------------------
\* What may be said to the Worker.
Answer(a) ==
  /\ a \in OperationAttempts \X (Values \cup AccountErrors \cup {"invalid"})
  /\ a[2] \notin AccountErrors \cup {"conflict", "invalid"} => a[1] \in DOMAIN stored /\ stored[a[1]] = a[2]

\* How a request that may have an effect goes on.
Follows(x, y) ==
  \/ y.pc \in {"idle", "look"}
  \/ y.op[1] \notin Writes
  \/ x.pc \in Working /\ y.op = x.op
  \/ x.pc \in Saving /\ y.pc \in Saving /\ y.op = x.op /\ y.value = x.value

Onward == (\E r \in Requests : \E y : Takes(r, y) /\ Follows(req[r], y)) \/ req' = req

\* A write has one request at work as long as the requests only go on.
LEMMA AloneStill ==
  ASSUME req \in [Requests -> RequestRec], \A r \in Requests : Alone(r),
         stored' = stored, effects' = effects, Onward
  PROVE  \A r \in Requests : Alone(r)'
<1>1. CASE req' = req
  BY <1>1 DEF Alone
<1>2. ASSUME NEW r \in Requests, NEW y, Takes(r, y), Follows(req[r], y)
      PROVE  \A s \in Requests : Alone(s)'
  <2>1. req'[r] = y /\ \A s \in Requests : s # r => req'[s] = req[s]
    BY <1>2 DEF Takes
  <2>2. CASE y.pc \notin Working \cup Saving \/ y.op[1] \notin Writes
    BY <2>1, <2>2 DEF Alone
  <2>3. CASE y.pc \in Working \cup Saving /\ y.op[1] \in Writes
    <3>1. /\ req[r].pc \in Working \cup Saving /\ y.op = req[r].op
          /\ req[r].pc \in Saving => y.pc \in Saving /\ y.value = req[r].value
      BY <1>2, <2>3 DEF Follows, Working, Seeking, Saving
    <3>2. Alone(r)
      OBVIOUS
    <3>3. /\ y.op \notin DOMAIN stored
          /\ y.op \in DOMAIN effects => y.pc \in Saving /\ y.value = "made"
          /\ \A s \in Requests \ {r} : req[s].pc \in Working \cup Saving => req[s].op # y.op
      BY <2>3, <3>1, <3>2 DEF Alone
    <3>4. Alone(r)'
      BY <2>1, <3>3 DEF Alone
    <3>5. \A s \in Requests \ {r} : Alone(s)'
      BY <2>1, <3>3 DEF Alone
    <3>6. QED
      BY <3>4, <3>5
  <2>4. QED
    BY <2>2, <2>3
<1>3. QED
  BY <1>1, <1>2 DEF Onward

\* A step after which every result and effect is as it was.
LEMMA QuietStep ==
  ASSUME OperationInv, OnlyGrows, TokensNext, Onward,
         claims' = claims, stored' = stored, effects' = effects,
         sent \subseteq sent', sent' \subseteq OperationAttempts,
         \A a \in told' : a \in told \/ Answer(a),
         draft' \in Found, faults' \in 0..MaxFaults
  PROVE  OperationInv'
<1>1. TokensInv'
  <2>1. (\E r \in Requests : \E y : Takes(r, y)) \/ req' = req
    BY DEF Onward
  <2>2. QED
    BY <2>1, TokenStep
<1>2. \A r \in Requests : Alone(r)'
  BY AloneStill DEF OperationInv, TokensInv, ResultsInv
<1>3. OperationTypes'
  BY DEF OperationInv, OperationTypes, Answer
<1>4. AnswersAgree'
  BY DEF OperationInv, ResultsInv, AnswersAgree, Answer
<1>5. \A k \in claims' : \A e \in Earlier(k) : Failed(e)'
  BY DEF OperationInv, ResultsInv, Failed
<1>6. ResultsInv'
  BY <1>2, <1>4, <1>5 DEF OperationInv, ResultsInv
<1>7. QED
  BY <1>1, <1>3, <1>6 DEF OperationInv

\* The token side is as it was.
LEMMA TokensKept ==
  ASSUME OperationInv, claims \subseteq claims', tokens' = tokens, expired' = expired, revoked' = revoked
  PROVE  OnlyGrows /\ TokensNext
<1>1. generation \in Nat
  BY DEF OperationInv, TokensInv, Ledger
<1>2. /\ generation' = generation /\ intents' = intents /\ evidence' = evidence /\ cache' = cache
      /\ asks' = asks /\ EndedTokens' = EndedTokens
  BY DEF tokens, EndedTokens
<1>3. OnlyGrows
  BY <1>1, <1>2 DEF OnlyGrows
<1>4. TokensNext
  BY <1>2 DEF OperationInv, TokensInv, TokensNext, LedgerNext, IsToken
<1>5. QED
  BY <1>3, <1>4

\* Faults stay within their bound.
LEMMA FaultBound ==
  ASSUME OperationInv, Fault PROVE faults' \in 0..MaxFaults
BY WechatOperationOK DEF Fault, OperationInv, OperationTypes

\* A request falls idle.
LEMMA GoesIdle ==
  ASSUME NEW r \in Requests, MoveTo(r, NoRequest)
  PROVE  Onward /\ Takes(r, NoRequest)
<1>1. Takes(r, NoRequest)
  BY IdleRec DEF MoveTo, Takes
<1>2. Follows(req[r], NoRequest)
  BY DEF Follows, NoRequest
<1>3. QED
  BY <1>1, <1>2 DEF Onward

\* A request that works goes on with its operation.
LEMMA WorksOn ==
  ASSUME NEW r \in Requests, NEW op, Works(r, op), req[r].pc \in Working, op = req[r].op
  PROVE  Onward
BY DEF Works, Onward, Follows

-----------------------------------------------------------------------------
(* The searches for a token. *)

\* What is known of a request and of the search it is in.
LEMMA RequestFacts ==
  ASSUME OperationInv, NEW r \in Requests
  PROVE  /\ Ledger(intents, evidence, generation, asks) /\ req[r] \in RequestRec /\ Holds(req[r])
         /\ req[r].pc # "idle" => req[r].op \in OperationAttempts /\ req[r].op \in claims
         /\ req[r].pc \in Seeking \cup {"use"} => req[r].at \in DOMAIN intents /\ req[r].at \in TokenKeys
         /\ EndedTokens \subseteq TokenKeys /\ generation \in Nat
<1>1. Ledger(intents, evidence, generation, asks) /\ req[r] \in RequestRec /\ Holds(req[r]) /\ EndedTokens \subseteq DOMAIN evidence
  BY DEF OperationInv, TokensInv
<1>2. DOMAIN evidence \subseteq DOMAIN intents /\ DOMAIN intents \subseteq TokenKeys /\ generation \in Nat
  BY <1>1 DEF Ledger
<1>3. req[r].pc # "idle" => req[r].op \in OperationAttempts /\ req[r].op \in claims
  BY <1>1 DEF Holds, OperationInv, OperationTypes
<1>4. req[r].pc \in Seeking \cup {"use"} => req[r].at \in DOMAIN intents
  BY <1>1, <1>2 DEF Holds, IsToken
<1>5. QED
  BY <1>1, <1>2, <1>3, <1>4

\* A request that searches brings what the search needs.
LEMMA SearchBrings ==
  ASSUME OperationInv, NEW r \in Requests, req[r].pc \in Working,
         claims \subseteq claims', EndedTokens' = EndedTokens
  PROVE  Brings(req[r], req[r].at[1])
<1>1. req[r].pc # "idle"
  BY DEF Working, Seeking
<1>2. QED
  BY <1>1, RequestFacts DEF Brings, Holds

\* The request stays in the search, at another place of it.
LEMMA MovesOn ==
  ASSUME OperationInv, NEW r \in Requests, UNCHANGED <<results, tokens, wechatSide>>,
         NEW y \in RequestRec, Holds(y)', MoveTo(r, y), Follows(req[r], y), faults' \in 0..MaxFaults
  PROVE  OperationInv'
<1>1. Onward
  BY DEF MoveTo, Takes, Onward
<1>2. OnlyGrows /\ TokensNext
  BY TokensKept DEF wechatSide, results
<1>3. QED
  BY <1>1, <1>2, QuietStep DEF results, wechatSide, OperationInv, OperationTypes

\* A search step that leaves the intents and stops.
LEMMA StopsStill ==
  ASSUME OperationInv, NEW r \in Requests, MoveTo(r, NoRequest), UNCHANGED <<results, wechatSide>>, faults' \in 0..MaxFaults,
         OnlyGrows, TokensNext
  PROVE  OperationInv'
<1>1. Onward
  BY GoesIdle
<1>2. QED
  BY <1>1, QuietStep DEF results, wechatSide, OperationInv, OperationTypes

\* The result of an attempt, stored by whomever, is noted and acted on.
LEMMA SettledStep ==
  ASSUME OperationInv, NEW r \in Requests, req[r].pc \in Seeking, NEW v \in TokenResults, NEW ints,
         Ledger(ints, evidence', generation, asks), DOMAIN intents \subseteq DOMAIN ints,
         DOMAIN evidence \subseteq DOMAIN evidence', \A t \in DOMAIN evidence : evidence'[t] = evidence[t],
         req[r].at \in DOMAIN evidence', evidence'[req[r].at] = v,
         TokenSettled(r, req[r], v, ints), UNCHANGED <<results, wechatSide, faults>>
  PROVE  OperationInv'
<1>1. EndedTokens' = EndedTokens /\ claims' = claims /\ claims \subseteq claims'
  BY DEF EndedTokens, wechatSide, results
<1>2. req[r].pc \in Working
  BY DEF Working
<1>3. Brings(req[r], req[r].at[1])
  BY <1>1, <1>2, SearchBrings
<1>4. cache # NoToken => cache \in DOMAIN evidence' /\ evidence'[cache] = "token"
  BY DEF OperationInv, TokensInv, IsToken
<1>5. /\ LedgerNext /\ Works(r, req[r].op) /\ DOMAIN ints \subseteq DOMAIN intents' /\ generation' = generation
      /\ (cache' # NoToken => IsToken(cache)')
  <2> DEFINE x == req[r]
  <2>1. PICK z : z = x
    OBVIOUS
  <2>2. /\ z.at \in DOMAIN evidence' /\ evidence'[z.at] = v /\ Brings(z, z.at[1]) /\ TokenSettled(r, z, v, ints)
    BY <1>3, <2>1
  <2>3. /\ LedgerNext /\ Works(r, z.op) /\ DOMAIN ints \subseteq DOMAIN intents' /\ generation' = generation
        /\ (cache' # NoToken => IsToken(cache)')
    BY <1>4, <2>2, SettledWorks
  <2>4. QED
    BY <2>1, <2>3
<1>6. OnlyGrows
  BY <1>1, <1>5, RequestFacts DEF OnlyGrows
<1>7. TokensNext
  BY <1>1, <1>5 DEF TokensNext, OperationInv, TokensInv
<1>8. Onward
  BY <1>2, <1>5, WorksOn
<1>9. QED
  BY <1>6, <1>7, <1>8, QuietStep DEF results, wechatSide, OperationInv, OperationTypes

\* An intent is met: its result is acted on, waited for, or the attempt given up.
LEMMA ReplayStep ==
  ASSUME OperationInv, NEW r \in Requests, Replay(r)
  PROVE  OperationInv'
<1> DEFINE x == req[r]
<1> DEFINE t == x.at
<1>1. x.pc = "replay" /\ UNCHANGED <<results, wechatSide, faults>>
  BY DEF Replay
<1>2. /\ Ledger(intents, evidence, generation, asks) /\ x \in RequestRec /\ Holds(x)
      /\ x.op \in OperationAttempts /\ x.op \in claims /\ t \in DOMAIN intents /\ t \in TokenKeys
  BY <1>1, RequestFacts DEF Seeking
<1>3. x.seen \in Intents /\ Agrees(x.seen, t, evidence)
  BY <1>1, <1>2, RecFields DEF Holds
<1>4. faults' \in 0..MaxFaults
  BY <1>1 DEF OperationInv, OperationTypes
<1>5. CASE t \notin DOMAIN evidence
  <2>1. UNCHANGED tokens
    BY <1>5 DEF Replay
  <2>2. CASE Unknown(r)
    <3>1. OnlyGrows /\ TokensNext
      BY <1>1, <2>1, TokensKept DEF wechatSide, results
    <3>2. QED
      BY <1>1, <1>4, <2>2, <3>1, StopsStill DEF Unknown
  <2>3. ASSUME MoveTo(r, [Seek(x, "keep", t) EXCEPT !.value = "failed"]) PROVE OperationInv'
    <3> DEFINE y == [Seek(x, "keep", t) EXCEPT !.value = "failed"]
    <3>1. /\ y \in RequestRec /\ y.pc = "keep" /\ y.op = x.op /\ y.at = t /\ y.value = "failed"
          /\ y.forced = x.forced /\ y.again = x.again
      BY <1>2, RecFields DEF Seek, NoRequest, NoIntent, RequestRec, Places, Intents, TokenResults, Retryable
    <3>2. claims' = claims /\ intents' = intents /\ EndedTokens' = EndedTokens
      BY <1>1, <2>1 DEF results, tokens, wechatSide, EndedTokens
    <3>3. MoveTo(r, y)
      BY <2>3
    <3> HIDE DEF y
    <3>4. PICK w : w = y
      OBVIOUS
    <3>5. /\ w \in RequestRec /\ w.pc = "keep" /\ w.op = x.op /\ w.at = t /\ w.value = "failed"
          /\ w.forced = x.forced /\ w.again = x.again /\ MoveTo(r, w)
      BY <3>1, <3>3, <3>4
    <3>6. Follows(x, w)
      BY <1>1, <3>5 DEF Follows, Working, Seeking
    <3>7. Holds(w)'
      BY <1>1, <1>2, <3>2, <3>5 DEF Holds, Seeking, Working, Saving, TokenResults, Retryable
    <3>8. QED
      BY <1>1, <1>4, <2>1, <3>5, <3>6, <3>7, MovesOn
  <2>4. QED
    BY <1>5, <2>2, <2>3 DEF Replay
<1>6. CASE t \in DOMAIN evidence
  <2> DEFINE v == evidence[t]
  <2>1. evidence' = evidence
    BY <1>6 DEF Replay
  <2>2. v \in TokenResults
    BY <1>2, <1>6 DEF Ledger
  <2>3. CASE x.seen.known \notin {"none", v}
    <3>1. FALSE
      BY <1>3, <2>3 DEF Agrees
    <3>2. QED
      BY <3>1
  <2>4. CASE x.seen.known \in {"none", v}
    <3> DEFINE i == [x.seen EXCEPT !.known = v]
    <3> DEFINE ints == IF x.seen.known = v THEN intents ELSE Put(intents, t, i)
    <3>1. TokenSettled(r, x, v, ints)
      BY <1>6, <2>4 DEF Replay
    <3>2. i \in Intents /\ Agrees(i, t, evidence)
      <4>1. i = [state |-> x.seen.state, known |-> v]
        BY <1>3 DEF Intents
      <4>2. x.seen.state = "completed" => v = "token"
        BY <1>3, <2>4 DEF Agrees
      <4>3. QED
        BY <1>3, <1>6, <2>2, <4>1, <4>2 DEF Intents, Agrees
    <3>3. Ledger(ints, evidence, generation, asks)
      BY <1>2, <3>2, LedgerNoted
    <3>4. DOMAIN intents \subseteq DOMAIN ints
      BY DEF Put
    <3> HIDE DEF ints
    <3>5. x.pc \in Seeking
      BY <1>1 DEF Seeking
    <3>6. Ledger(ints, evidence', generation, asks)
      BY <2>1, <3>3
    <3>7. QED
      BY <1>1, <1>6, <2>1, <2>2, <3>1, <3>4, <3>5, <3>6, SettledStep
  <2>5. QED
    BY <2>3, <2>4
<1>7. QED
  BY <1>5, <1>6

\* WeChat's answer is in hand, to be kept.
LEMMA TokenAnsweredStep ==
  ASSUME OperationInv, NEW r \in Requests, TokenAnswered(r)
  PROVE  OperationInv'
<1> DEFINE x == req[r]
<1>1. x.pc = "asked" /\ UNCHANGED <<results, tokens, wechatSide>>
  BY DEF TokenAnswered
<1>2. x \in RequestRec /\ Holds(x) /\ x.op \in claims /\ x.at \in DOMAIN intents
  BY <1>1, RequestFacts DEF Seeking
<1>3. claims' = claims /\ intents' = intents /\ EndedTokens' = EndedTokens
  BY <1>1 DEF results, tokens, wechatSide, EndedTokens
<1>4. faults' \in 0..MaxFaults
  BY FaultBound DEF TokenAnswered, OperationInv, OperationTypes
<1>5. PICK v \in TokenResults : MoveTo(r, [x EXCEPT !.pc = "keep", !.value = v])
  BY DEF TokenAnswered, TokenResults
<1>6. PICK y : y = [x EXCEPT !.pc = "keep", !.value = v]
  OBVIOUS
<1>7. /\ y \in RequestRec /\ y.pc = "keep" /\ y.op = x.op /\ y.at = x.at /\ y.value = v
      /\ y.forced = x.forced /\ y.again = x.again
  BY <1>2, <1>6 DEF RequestRec, Places
<1>8. Follows(x, y)
  BY <1>1, <1>7 DEF Follows, Working, Seeking
<1>9. Holds(y)'
  BY <1>1, <1>2, <1>3, <1>7 DEF Holds, Seeking, Working, Saving
<1>10. MoveTo(r, y)
  BY <1>5, <1>6
<1>11. QED
  BY <1>1, <1>4, <1>7, <1>8, <1>9, <1>10, MovesOn

\* The result of a token attempt is in R2, put there now or before.
LEMMA KeptStep ==
  ASSUME OperationInv, NEW r \in Requests, req[r].pc \in {"keep", "put"}, KeptToken(r, req[r].value),
         Ledger(intents, evidence', generation, asks),
         DOMAIN evidence \subseteq DOMAIN evidence', \A t \in DOMAIN evidence : evidence'[t] = evidence[t],
         req[r].at \in DOMAIN evidence', evidence'[req[r].at] = req[r].value,
         UNCHANGED <<results, wechatSide, faults>>
  PROVE  OperationInv'
<1> DEFINE x == req[r]
<1> DEFINE v == x.value
<1> DEFINE i == [state |-> IF v = "token" THEN "completed" ELSE "failed", known |-> v]
<1> DEFINE ints == Put(intents, x.at, i)
<1>1. x \in RequestRec /\ x.at \in DOMAIN intents /\ v \in TokenResults
  BY RequestFacts DEF Holds, Seeking
<1>2. TokenSettled(r, x, v, ints)
  BY DEF KeptToken
<1>3. i \in Intents /\ Agrees(i, x.at, evidence')
  BY <1>1 DEF Intents, Agrees
<1>4. DOMAIN intents \subseteq DOMAIN ints
  BY DEF Put
<1>5. Ledger(ints, evidence', generation, asks)
  BY <1>1, <1>3, LedgerNoted
<1> HIDE DEF i, ints
<1>6. x.pc \in Seeking
  BY DEF Seeking
<1>7. PICK c, w : c = v /\ w = ints
  OBVIOUS
<1>8. /\ c \in TokenResults /\ TokenSettled(r, x, c, w) /\ Ledger(w, evidence', generation, asks)
      /\ DOMAIN intents \subseteq DOMAIN w /\ evidence'[x.at] = c
  BY <1>1, <1>2, <1>4, <1>5, <1>7
<1>9. QED
  BY <1>6, <1>8, SettledStep

\* The look before a token's result is put.
LEMMA LookForTokenStep ==
  ASSUME OperationInv, NEW r \in Requests, LookForToken(r)
  PROVE  OperationInv'
<1> DEFINE x == req[r]
<1>1. x.pc = "keep" /\ UNCHANGED <<results, wechatSide, faults>>
  BY DEF LookForToken
<1>2. /\ x \in RequestRec /\ Holds(x) /\ x.op \in claims /\ x.op \in OperationAttempts /\ x.at \in DOMAIN intents
      /\ Ledger(intents, evidence, generation, asks)
  BY <1>1, RequestFacts DEF Seeking
<1>3. faults' \in 0..MaxFaults /\ claims' = claims /\ EndedTokens' = EndedTokens
  BY <1>1 DEF OperationInv, OperationTypes, results, wechatSide, EndedTokens
<1>4. CASE ~ Exists(evidence, x.at)
  <2>1. UNCHANGED tokens
    BY <1>4 DEF LookForToken
  <2>2. PICK y : y = [x EXCEPT !.pc = "put"]
    OBVIOUS
  <2>3. /\ y \in RequestRec /\ y.pc = "put" /\ y.op = x.op /\ y.at = x.at /\ y.value = x.value
        /\ y.forced = x.forced /\ y.again = x.again
    BY <1>2, <2>2 DEF RequestRec, Places
  <2>4. MoveTo(r, y)
    BY <1>4, <2>2 DEF LookForToken
  <2>5. Follows(x, y)
    BY <1>1, <2>3 DEF Follows, Working, Seeking
  <2>6. intents' = intents
    BY <2>1 DEF tokens
  <2>7. Holds(y)'
    BY <1>1, <1>2, <1>3, <2>3, <2>6 DEF Holds, Seeking, Working, Saving
  <2>8. QED
    BY <1>1, <1>3, <2>1, <2>3, <2>4, <2>5, <2>7, MovesOn
<1>5. CASE Exists(evidence, x.at) /\ evidence[x.at] = x.value
  <2>1. KeptToken(r, x.value) /\ evidence' = evidence
    BY <1>5 DEF LookForToken
  <2>2. x.at \in DOMAIN evidence
    BY <1>5 DEF Exists
  <2>3. QED
    BY <1>1, <1>2, <1>5, <2>1, <2>2, KeptStep
<1>6. CASE Exists(evidence, x.at) /\ evidence[x.at] # x.value
  <2>1. Save(r, x, "conflict") /\ UNCHANGED tokens
    BY <1>6 DEF LookForToken, tokens
  <2>2. PICK z : z = x
    OBVIOUS
  <2>3. z \in RequestRec /\ z.op \in claims' /\ Save(r, z, "conflict")
    BY <1>2, <1>3, <2>1, <2>2
  <2>4. "conflict" \in Values /\ Blame("conflict")'
    BY DEF Values, Failures, Blame
  <2>5. PICK y : Takes(r, y) /\ y.op = z.op /\ y.pc = "save" /\ y.value = "conflict"
    BY <2>3, <2>4, SaveWorks
  <2>6. Follows(x, y)
    BY <1>1, <2>2, <2>5 DEF Follows, Working, Seeking
  <2>7. y \in RequestRec /\ Holds(y)' /\ MoveTo(r, y)
    BY <2>5 DEF Takes, MoveTo
  <2>8. QED
    BY <1>1, <1>3, <2>1, <2>6, <2>7, MovesOn
<1>7. QED
  BY <1>4, <1>5, <1>6

\* R2 holds one result more.
LEMMA PutStored ==
  ASSUME OperationInv, NEW t \in DOMAIN intents, t \notin DOMAIN evidence, NEW v \in TokenResults,
         evidence' = Put(evidence, t, v)
  PROVE  /\ Ledger(intents, evidence', generation, asks)
         /\ DOMAIN evidence \subseteq DOMAIN evidence' /\ \A s \in DOMAIN evidence : evidence'[s] = evidence[s]
         /\ t \in DOMAIN evidence' /\ evidence'[t] = v
<1>1. Ledger(intents, evidence, generation, asks)
  BY DEF OperationInv, TokensInv
<1>2. Ledger(intents, Put(evidence, t, v), generation, asks)
  BY <1>1, LedgerStored
<1>3. QED
  BY <1>2 DEF Put

\* A token's result is put where nothing is, or met.
LEMMA PutTokenStep ==
  ASSUME OperationInv, NEW r \in Requests, PutToken(r)
  PROVE  OperationInv'
<1> DEFINE x == req[r]
<1> DEFINE there == Exists(evidence, x.at)
<1>1. x.pc = "put" /\ UNCHANGED <<results, wechatSide>>
  BY DEF PutToken
<1>2. /\ x \in RequestRec /\ Holds(x) /\ x.op \in claims /\ x.op \in OperationAttempts /\ x.at \in DOMAIN intents
      /\ Ledger(intents, evidence, generation, asks) /\ x.value \in TokenResults /\ generation \in Nat
  BY <1>1, RequestFacts DEF Seeking, Holds
<1>3. claims' = claims /\ EndedTokens' = EndedTokens
  BY <1>1 DEF results, wechatSide, EndedTokens
<1>4. CASE ~ there /\ evidence' = Put(evidence, x.at, x.value) /\ KeptToken(r, x.value) /\ UNCHANGED faults
  <2>1. x.at \notin DOMAIN evidence
    BY <1>4 DEF Exists
  <2>2. /\ Ledger(intents, evidence', generation, asks)
        /\ DOMAIN evidence \subseteq DOMAIN evidence' /\ \A s \in DOMAIN evidence : evidence'[s] = evidence[s]
        /\ x.at \in DOMAIN evidence' /\ evidence'[x.at] = x.value
    BY <1>2, <1>4, <2>1, PutStored
  <2>3. QED
    BY <1>1, <1>4, <2>2, KeptStep
<1>5. CASE /\ ~ there /\ Fault /\ Unknown(r) /\ evidence' \in {evidence, Put(evidence, x.at, x.value)}
           /\ UNCHANGED <<generation, intents, cache, asks>>
  <2>1. /\ Ledger(intents, evidence', generation, asks)
        /\ DOMAIN evidence \subseteq DOMAIN evidence' /\ \A s \in DOMAIN evidence : evidence'[s] = evidence[s]
    <3>1. CASE evidence' = evidence
      BY <1>2, <3>1
    <3>2. CASE evidence' = Put(evidence, x.at, x.value)
      <4>1. x.at \notin DOMAIN evidence
        BY <1>5 DEF Exists
      <4>2. QED
        BY <1>2, <3>2, <4>1, PutStored
    <3>3. QED
      BY <1>5, <3>1, <3>2
  <2>2. faults' \in 0..MaxFaults
    BY <1>5, FaultBound
  <2>3. OnlyGrows
    BY <1>2, <1>3, <1>5, <2>1 DEF OnlyGrows
  <2>4. TokensNext
    BY <1>3, <1>5, <2>1 DEF TokensNext, LedgerNext, OperationInv, TokensInv, IsToken
  <2>5. MoveTo(r, NoRequest)
    BY <1>5 DEF Unknown
  <2>6. QED
    BY <1>1, <2>2, <2>3, <2>4, <2>5, StopsStill
<1>6. CASE there /\ UNCHANGED <<evidence, faults>> /\ evidence[x.at] = x.value /\ KeptToken(r, x.value)
  <2>1. x.at \in DOMAIN evidence
    BY <1>6 DEF Exists
  <2>2. QED
    BY <1>1, <1>2, <1>6, <2>1, KeptStep
<1>7. CASE there /\ UNCHANGED <<evidence, faults>> /\ Unknown(r) /\ UNCHANGED <<generation, intents, cache, asks>>
  <2>1. UNCHANGED tokens
    BY <1>7 DEF tokens
  <2>2. OnlyGrows /\ TokensNext
    BY <1>1, <1>3, <2>1, TokensKept DEF wechatSide
  <2>3. faults' \in 0..MaxFaults
    BY <1>7 DEF OperationInv, OperationTypes
  <2>4. QED
    BY <1>1, <1>7, <2>2, <2>3, StopsStill DEF Unknown
<1>8. QED
  BY <1>4, <1>5, <1>6, <1>7 DEF PutToken

-----------------------------------------------------------------------------
(* Attempts that are begun, asked after and answered. *)

\* An attempt that is begun starts without a refresh behind it.
LEMMA BeginWorks ==
  ASSUME OperationInv, NEW r \in Requests, NEW k \in OperationAttempts, k \in claims', claims \subseteq claims',
         expired' = expired, revoked' = revoked, Begin(r, k)
  PROVE  OnlyGrows /\ TokensNext /\ Works(r, k)
<1> DEFINE x == [NoRequest EXCEPT !.op = k]
<1>1. token(r, x, cache, intents) /\ evidence' = evidence /\ cache' = cache
  BY DEF Begin
<1>2. x \in RequestRec /\ x.op = k /\ ~ x.forced /\ ~ x.again
  BY DEF NoRequest, NoIntent, RequestRec, Places, Intents
<1>3. EndedTokens' = EndedTokens
  BY DEF EndedTokens
<1>4. Ledger(intents, evidence, generation, asks) /\ EndedTokens \subseteq DOMAIN evidence /\ (cache # NoToken => IsToken(cache))
  BY DEF OperationInv, TokensInv
<1>5. generation \in Nat \ {0} /\ DOMAIN evidence \subseteq TokenKeys
  BY <1>4 DEF Ledger
<1> HIDE DEF x
<1>6. Brings(x, 1)
  BY <1>2, <1>3, <1>4, <1>5 DEF Brings
<1>7. PICK c : c = cache
  OBVIOUS
<1>8. c # NoToken => IsToken(c)' /\ 1 <= c[1]
  BY <1>1, <1>4, <1>5, <1>7 DEF IsToken, TokenKeys
<1>9. PICK ints : ints = intents
  OBVIOUS
<1>10. Ledger(ints, evidence', generation, asks) /\ token(r, x, c, ints) /\ 1 <= generation /\ 1 \in Nat
  BY <1>1, <1>4, <1>5, <1>7, <1>9
<1>11. LedgerNext /\ Works(r, x.op) /\ DOMAIN ints \subseteq DOMAIN intents' /\ generation' = generation
  BY <1>2, <1>6, <1>8, <1>10, TokenWorks
<1>12. OnlyGrows
  BY <1>1, <1>3, <1>5, <1>9, <1>11 DEF OnlyGrows
<1>13. TokensNext
  BY <1>1, <1>3, <1>4, <1>11 DEF TokensNext, OperationInv, TokensInv, IsToken
<1>14. QED
  BY <1>2, <1>11, <1>12, <1>13

\* An answer of the account's, or of another attempt, is of no result.
LEMMA RefusalAnswers ==
  ASSUME NEW k \in OperationAttempts, NEW v \in AccountErrors \cup {"invalid"}
  PROVE  Answer(<<k, v>>)
BY DEF Answer

\* Without an account no result is told.
LEMMA NoAccountTells ==
  ASSUME NEW k \in OperationAttempts, NoAccount(k)
  PROVE  \A a \in told' : a \in told \/ Answer(a)
<1>1. told' = told \/ \E v \in AccountErrors : told' = told \cup {<<k, v>>}
  BY DEF NoAccount
<1>2. \A v \in AccountErrors : Answer(<<k, v>>)
  BY RefusalAnswers
<1>3. QED
  BY <1>1, <1>2

\* A new attempt of an operation is begun: those before it came to nothing.
LEMMA BegunStep ==
  ASSUME OperationInv, NEW r \in Requests, NEW k \in OperationAttempts, k \notin sent, sent' = sent \cup {k},
         \A e \in Earlier(k) : Failed(e), claims' = claims \cup {k}, Begin(r, k),
         UNCHANGED <<told, faults, stored, wechatSide>>
  PROVE  OperationInv'
<1>1. OnlyGrows /\ TokensNext /\ Works(r, k)
  BY BeginWorks DEF wechatSide
<1>2. PICK y : Takes(r, y) /\ y.op = k /\ y.pc \in Working \cup {"save"}
  BY <1>1 DEF Works
<1>3. TokensInv'
  BY <1>1, <1>2, TokenStep
<1>4. effects' = effects /\ draft' = draft
  BY DEF wechatSide
<1>5. OperationTypes'
  BY <1>4 DEF OperationInv, OperationTypes
<1>6. AnswersAgree'
  BY DEF OperationInv, ResultsInv, AnswersAgree
<1>7. \A j \in claims' : \A e \in Earlier(j) : Failed(e)'
  BY DEF OperationInv, ResultsInv, Failed
<1>8. k \notin claims /\ k \notin DOMAIN stored /\ k \notin DOMAIN effects
  BY DEF OperationInv, OperationTypes, ResultsInv
<1>9. \A s \in Requests : Alone(s)'
  <2>1. req'[r] = y /\ \A s \in Requests : s # r => req'[s] = req[s]
    BY <1>2 DEF Takes, OperationInv, TokensInv
  <2>2. \A s \in Requests : req[s].pc \in Working \cup Saving => req[s].op # k
    <3> SUFFICES ASSUME NEW s \in Requests, req[s].pc \in Working \cup Saving PROVE req[s].op # k
      OBVIOUS
    <3>1. req[s].pc # "idle"
      BY DEF Working, Seeking, Saving
    <3>2. QED
      BY <1>8, <3>1, RequestFacts
  <2>3. Alone(r)'
    BY <1>2, <1>4, <1>8, <2>1, <2>2 DEF Alone
  <2>4. \A s \in Requests \ {r} : Alone(s)'
    <3> SUFFICES ASSUME NEW s \in Requests \ {r} PROVE Alone(s)'
      OBVIOUS
    <3>1. Alone(s)
      BY DEF OperationInv, ResultsInv
    <3>2. QED
      BY <1>2, <1>4, <2>1, <2>2, <3>1 DEF Alone
  <2>5. QED
    BY <2>3, <2>4
<1>10. ResultsInv'
  BY <1>4, <1>6, <1>7, <1>8, <1>9 DEF OperationInv, ResultsInv
<1>11. QED
  BY <1>3, <1>5, <1>10 DEF OperationInv

\* The Worker sends a new attempt.
LEMMA SendStep ==
  ASSUME OperationInv, NEW r \in Requests, NEW k \in OperationAttempts, Send(r, k)
  PROVE  OperationInv'
<1>1. k \notin sent /\ sent' = sent \cup {k} /\ UNCHANGED <<stored, wechatSide>>
  BY DEF Send
<1>2. sent \subseteq sent' /\ sent' \subseteq OperationAttempts /\ draft' \in Found
  BY <1>1 DEF OperationInv, OperationTypes, wechatSide
<1>3. CASE NoAccount(k) /\ UNCHANGED <<claims, tokens, req>>
  <2>1. faults' \in 0..MaxFaults /\ \A a \in told' : a \in told \/ Answer(a)
    BY <1>3, FaultBound, NoAccountTells DEF NoAccount
  <2>2. OnlyGrows /\ TokensNext
    BY <1>1, <1>3, TokensKept DEF wechatSide
  <2>3. QED
    BY <1>1, <1>2, <1>3, <2>1, <2>2, QuietStep DEF wechatSide, Onward
<1>4. ASSUME NEW e \in Earlier(k), told' = IF Made(e) THEN told \cup {<<k, "invalid">>} ELSE told,
             UNCHANGED <<claims, tokens, req, faults>>
      PROVE OperationInv'
  <2>1. \A a \in told' : a \in told \/ Answer(a)
    BY <1>4, RefusalAnswers
  <2>2. faults' \in 0..MaxFaults
    BY <1>4 DEF OperationInv, OperationTypes
  <2>3. OnlyGrows /\ TokensNext
    BY <1>1, <1>4, TokensKept DEF wechatSide
  <2>4. QED
    BY <1>1, <1>2, <1>4, <2>1, <2>2, <2>3, QuietStep DEF wechatSide, Onward
<1>5. CASE (\A e \in Earlier(k) : Failed(e)) /\ claims' = claims \cup {k} /\ Begin(r, k) /\ UNCHANGED <<told, faults>>
  BY <1>1, <1>5, BegunStep
<1>6. QED
  BY <1>3, <1>4, <1>5 DEF Send

\* The Worker asks after an attempt.
LEMMA AskStep ==
  ASSUME OperationInv, NEW r \in Requests, NEW k \in OperationAttempts, Ask(r, k)
  PROVE  OperationInv'
<1>1. UNCHANGED <<sent, claims, stored, tokens, wechatSide>>
  BY DEF Ask
<1>2. sent' \subseteq OperationAttempts /\ draft' \in Found /\ effects' = effects
  BY <1>1 DEF OperationInv, OperationTypes, wechatSide
<1>3. OnlyGrows /\ TokensNext
  BY <1>1, TokensKept DEF wechatSide
<1>4. CASE NoAccount(k) /\ UNCHANGED req
  <2>1. faults' \in 0..MaxFaults /\ \A a \in told' : a \in told \/ Answer(a)
    BY <1>4, FaultBound, NoAccountTells DEF NoAccount
  <2>2. QED
    BY <1>1, <1>2, <1>3, <1>4, <2>1, QuietStep DEF Onward
<1>5. CASE k \in claims /\ MoveTo(r, [NoRequest EXCEPT !.pc = "look", !.op = k]) /\ UNCHANGED <<told, faults>>
  <2>1. PICK y : y = [NoRequest EXCEPT !.pc = "look", !.op = k]
    OBVIOUS
  <2>2. y \in RequestRec /\ y.pc = "look" /\ y.op = k
    BY <2>1 DEF NoRequest, NoIntent, RequestRec, Places, Intents
  <2>3. Holds(y)'
    BY <1>1, <1>5, <2>2 DEF Holds, Seeking, Working, Saving
  <2>4. Follows(req[r], y)
    BY <2>2 DEF Follows
  <2>5. Onward
    BY <1>5, <2>1, <2>2, <2>3, <2>4 DEF Onward, Takes, MoveTo
  <2>6. faults' \in 0..MaxFaults /\ \A a \in told' : a \in told \/ Answer(a)
    BY <1>5 DEF OperationInv, OperationTypes
  <2>7. QED
    BY <1>1, <1>2, <1>3, <2>5, <2>6, QuietStep
<1>6. QED
  BY <1>4, <1>5 DEF Ask

\* A request answers with v and is done.
LEMMA TellStep ==
  ASSUME OperationInv, NEW r \in Requests, req[r].pc # "idle", NEW v \in Values, Tell(r, v),
         v # "conflict" => req[r].op \in DOMAIN stored /\ stored[req[r].op] = v,
         UNCHANGED <<sent, claims, stored, tokens, wechatSide, faults>>
  PROVE  OperationInv'
<1>1. told' = told \cup {<<req[r].op, v>>} /\ MoveTo(r, NoRequest)
  BY DEF Tell
<1>2. Answer(<<req[r].op, v>>)
  BY RequestFacts DEF Answer
<1>3. \A a \in told' : a \in told \/ Answer(a)
  BY <1>1, <1>2
<1>4. Onward
  BY <1>1, GoesIdle
<1>5. OnlyGrows /\ TokensNext
  BY TokensKept DEF wechatSide
<1>6. sent \subseteq sent' /\ sent' \subseteq OperationAttempts /\ draft' \in Found /\ effects' = effects /\ faults' \in 0..MaxFaults
  BY DEF OperationInv, OperationTypes, wechatSide
<1>7. QED
  BY <1>3, <1>4, <1>5, <1>6, QuietStep

\* The result of an attempt is told; without one a read is begun again, a write is not.
LEMMA LookStep ==
  ASSUME OperationInv, NEW r \in Requests, Look(r)
  PROVE  OperationInv'
<1> DEFINE k == req[r].op
<1>1. req[r].pc = "look" /\ UNCHANGED <<sent, claims, stored, wechatSide, faults>>
  BY DEF Look
<1>2. k \in OperationAttempts /\ k \in claims
  BY <1>1, RequestFacts
<1>3. CASE k \in DOMAIN stored /\ Tell(r, stored[k]) /\ UNCHANGED tokens
  <2>1. PICK v : v = stored[k]
    OBVIOUS
  <2>2. v \in Values
    BY <1>3, <2>1 DEF OperationInv, OperationTypes
  <2>3. Tell(r, v)
    BY <1>3, <2>1
  <2>4. QED
    BY <1>1, <1>3, <2>1, <2>2, <2>3, TellStep
<1>4. CASE /\ k \notin DOMAIN stored /\ UNCHANGED told
           /\ IF Replays(k) THEN Begin(r, k) ELSE Unknown(r) /\ UNCHANGED tokens
  <2>1. sent' \subseteq OperationAttempts /\ draft' \in Found /\ effects' = effects /\ faults' \in 0..MaxFaults
    BY <1>1 DEF OperationInv, OperationTypes, wechatSide
  <2>2. CASE Replays(k)
    <3>1. PICK j : j = k
      OBVIOUS
    <3>2. j \in OperationAttempts /\ j \in claims' /\ Begin(r, j) /\ j[1] \in Reads
      BY <1>1, <1>2, <1>4, <2>2, <3>1 DEF Replays
    <3>3. OnlyGrows /\ TokensNext /\ Works(r, j)
      BY <1>1, <3>2, BeginWorks DEF wechatSide
    <3>4. PICK y : Takes(r, y) /\ y.op = j
      BY <3>3 DEF Works
    <3>5. Follows(req[r], y)
      BY <3>2, <3>4, WechatOperationOK DEF Follows
    <3>6. Onward
      BY <3>4, <3>5 DEF Onward
    <3>7. QED
      BY <1>1, <1>4, <2>1, <3>3, <3>6, QuietStep
  <2>3. CASE ~ Replays(k)
    <3>1. MoveTo(r, NoRequest) /\ UNCHANGED tokens
      BY <1>4, <2>3 DEF Unknown
    <3>2. UNCHANGED results
      BY <1>1, <1>4 DEF results
    <3>3. OnlyGrows /\ TokensNext
      BY <1>1, <3>1, TokensKept DEF wechatSide
    <3>4. QED
      BY <1>1, <2>1, <3>1, <3>2, <3>3, StopsStill
  <2>4. QED
    BY <2>2, <2>3
<1>5. QED
  BY <1>3, <1>4 DEF Look

\* The look before a result is put.
LEMMA LookForResultStep ==
  ASSUME OperationInv, NEW r \in Requests, LookForResult(r)
  PROVE  OperationInv'
<1> DEFINE x == req[r]
<1>1. x.pc = "save" /\ UNCHANGED <<sent, claims, stored, tokens, wechatSide, faults>>
  BY DEF LookForResult
<1>2. x \in RequestRec /\ Holds(x) /\ x.op \in OperationAttempts /\ x.op \in claims /\ x.value \in Values /\ generation \in Nat
  BY <1>1, RequestFacts DEF Holds, Saving
<1>3. CASE ~ Exists(stored, x.op)
  <2>1. PICK z : z = x
    OBVIOUS
  <2>2. PICK y : y = [z EXCEPT !.pc = "store"]
    OBVIOUS
  <2>3. MoveTo(r, y) /\ told' = told
    BY <1>3, <2>1, <2>2 DEF LookForResult
  <2>4. y \in RequestRec /\ y.pc = "store" /\ y.op = z.op /\ y.value = z.value
    BY <1>2, <2>1, <2>2 DEF RequestRec, Places
  <2>5. Follows(x, y)
    BY <1>1, <2>1, <2>4 DEF Follows, Saving
  <2>6. OnlyGrows /\ generation' \in Nat
    BY <1>1, <1>2, TokensKept DEF wechatSide, tokens
  <2>7. Holds(z)'
    BY <1>2, <2>1, <2>6, HoldsStill
  <2>8. Holds(y)'
    BY <1>1, <2>1, <2>4, <2>7 DEF Holds, Seeking, Working, Saving
  <2>9. faults' \in 0..MaxFaults /\ UNCHANGED results
    BY <1>1, <2>3 DEF OperationInv, OperationTypes, results
  <2>10. QED
    BY <1>1, <2>3, <2>4, <2>5, <2>8, <2>9, MovesOn
<1>4. CASE Exists(stored, x.op)
  <2>1. PICK v : v = IF stored[x.op] = x.value THEN x.value ELSE "conflict"
    OBVIOUS
  <2>2. Tell(r, v)
    BY <1>4, <2>1 DEF LookForResult
  <2>3. v \in Values /\ (v # "conflict" => x.op \in DOMAIN stored /\ stored[x.op] = v)
    BY <1>2, <1>4, <2>1 DEF Values, Failures, Exists
  <2>4. QED
    BY <1>1, <2>2, <2>3, TellStep
<1>5. QED
  BY <1>3, <1>4

\* The result of an attempt is put where nothing is.
LEMMA StoredStep ==
  ASSUME OperationInv, NEW r \in Requests, req[r].pc = "store", req[r].op \notin DOMAIN stored,
         stored' = Put(stored, req[r].op, req[r].value), MoveTo(r, NoRequest),
         told' = told \/ told' = told \cup {<<req[r].op, req[r].value>>},
         faults' \in 0..MaxFaults, UNCHANGED <<sent, claims, tokens, wechatSide>>
  PROVE  OperationInv'
<1> DEFINE x == req[r]
<1>1. x \in RequestRec /\ Holds(x) /\ x.op \in OperationAttempts /\ x.op \in claims
  BY RequestFacts
<1>2. x.value \in Values /\ Blame(x.value) /\ generation \in Nat
  BY <1>1, RequestFacts DEF Holds, Saving
<1>3. /\ DOMAIN stored' = DOMAIN stored \cup {x.op} /\ stored'[x.op] = x.value
      /\ \A k \in DOMAIN stored : k # x.op /\ stored'[k] = stored[k]
  BY DEF Put
<1>4. OnlyGrows /\ TokensNext /\ generation' \in Nat
  BY <1>2, TokensKept DEF wechatSide, tokens
<1>5. Takes(r, NoRequest)
  BY GoesIdle
<1>6. \E v : v = stored'[x.op] /\ Blame(v)'
  <2>1. PICK v : v = x.value
    OBVIOUS
  <2>2. Blame(v)'
    BY <1>2, <1>4, <2>1, BlameStill
  <2>3. QED
    BY <1>3, <2>1, <2>2
<1>7. TokensInv'
  BY <1>3, <1>4, <1>5, <1>6, TokenStep
<1>8. effects' = effects /\ draft' = draft
  BY DEF wechatSide
<1>9. OperationTypes'
  BY <1>1, <1>2, <1>3, <1>8 DEF OperationInv, OperationTypes
<1>10. AnswersAgree'
  BY <1>3 DEF OperationInv, ResultsInv, AnswersAgree
<1>11. \A k \in claims' : \A e \in Earlier(k) : Failed(e)'
  BY <1>3 DEF OperationInv, ResultsInv, Failed
<1>12. Alone(r) /\ x.op \in DOMAIN effects => x.value = "made"
  BY DEF OperationInv, ResultsInv, Alone, Saving
<1>13. \A s \in Requests : Alone(s)'
  <2>1. req'[r] = NoRequest /\ \A s \in Requests : s # r => req'[s] = req[s]
    BY <1>5 DEF Takes, OperationInv, TokensInv
  <2>2. Alone(r)'
    BY <2>1 DEF Alone, NoRequest, Working, Seeking, Saving
  <2>3. ASSUME NEW s \in Requests \ {r} PROVE Alone(s)'
    <3>1. Alone(s)
      BY DEF OperationInv, ResultsInv
    <3>2. req'[s] = req[s]
      BY <2>1
    <3>3. req[s].pc \in Working \cup Saving /\ req[s].op[1] \in Writes => req[s].op # x.op
      BY <3>1 DEF Alone, Saving
    <3>4. \A q \in Requests \ {s} : req'[q].pc \in Working \cup Saving => req[q].pc \in Working \cup Saving /\ req'[q].op = req[q].op
      BY <2>1 DEF NoRequest, Working, Seeking, Saving
    <3>5. QED
      BY <1>3, <1>8, <3>1, <3>2, <3>3, <3>4 DEF Alone
  <2>4. QED
    BY <2>2, <2>3
<1>14. \A k \in DOMAIN effects' : k \in claims' /\ k[1] \in Writes /\ effects'[k] = 1 /\ (k \in DOMAIN stored' => stored'[k] = "made")
  <2>1. Alone(r)
    BY DEF OperationInv, ResultsInv
  <2>2. QED
    BY <1>3, <1>8, <1>12, <2>1 DEF OperationInv, ResultsInv
<1>15. ResultsInv'
  BY <1>10, <1>11, <1>13, <1>14 DEF ResultsInv
<1>16. QED
  BY <1>7, <1>9, <1>15 DEF OperationInv

\* A result is put where nothing is, or met.
LEMMA StoreResultStep ==
  ASSUME OperationInv, NEW r \in Requests, StoreResult(r)
  PROVE  OperationInv'
<1> DEFINE x == req[r]
<1> DEFINE there == Exists(stored, x.op)
<1>1. x.pc = "store" /\ UNCHANGED <<sent, claims, tokens, wechatSide>>
  BY DEF StoreResult
<1>2. x.value \in Values
  BY <1>1, RequestFacts DEF Holds, Saving
<1>3. CASE ~ there /\ stored' = Put(stored, x.op, x.value) /\ Tell(r, x.value) /\ UNCHANGED faults
  <2>1. faults' \in 0..MaxFaults
    BY <1>3 DEF OperationInv, OperationTypes
  <2>2. MoveTo(r, NoRequest) /\ told' = told \cup {<<x.op, x.value>>}
    BY <1>3 DEF Tell
  <2>3. QED
    BY <1>1, <1>3, <2>1, <2>2, StoredStep DEF Exists
<1>4. CASE ~ there /\ Fault /\ Unknown(r) /\ stored' \in {stored, Put(stored, x.op, x.value)} /\ UNCHANGED told
  <2>1. faults' \in 0..MaxFaults /\ MoveTo(r, NoRequest)
    BY <1>4, FaultBound DEF Unknown
  <2>2. CASE stored' = stored
    <3>1. OnlyGrows /\ TokensNext
      BY <1>1, TokensKept DEF wechatSide
    <3>2. UNCHANGED results
      BY <1>1, <1>4, <2>2 DEF results
    <3>3. QED
      BY <1>1, <2>1, <3>1, <3>2, StopsStill
  <2>3. CASE stored' = Put(stored, x.op, x.value)
    BY <1>1, <1>4, <2>1, <2>3, StoredStep DEF Exists
  <2>4. QED
    BY <1>4, <2>2, <2>3
<1>5. CASE there /\ UNCHANGED <<stored, faults>> /\ stored[x.op] = x.value /\ Tell(r, x.value)
  <2>1. PICK v : v = x.value
    OBVIOUS
  <2>2. v \in Values /\ Tell(r, v) /\ x.op \in DOMAIN stored /\ stored[x.op] = v
    BY <1>2, <1>5, <2>1 DEF Exists
  <2>3. QED
    BY <1>1, <1>5, <2>2, TellStep
<1>6. CASE there /\ UNCHANGED <<stored, faults>> /\ Unknown(r) /\ UNCHANGED told
  <2>1. OnlyGrows /\ TokensNext
    BY <1>1, TokensKept DEF wechatSide
  <2>2. UNCHANGED results /\ faults' \in 0..MaxFaults /\ MoveTo(r, NoRequest)
    BY <1>1, <1>6 DEF results, OperationInv, OperationTypes, Unknown
  <2>3. QED
    BY <1>1, <2>1, <2>2, StopsStill
<1>7. QED
  BY <1>3, <1>4, <1>5, <1>6 DEF StoreResult

-----------------------------------------------------------------------------
(* WeChat *)

\* A write arrives at WeChat: the first time for this attempt, and while no
\* other request is about it.
LEMMA HappensStep ==
  ASSUME OperationInv, NEW r \in Requests, req[r].pc = "use", req[r].op[1] \in Writes,
         effects' = Put(effects, req[r].op, Count(effects, req[r].op) + 1),
         NEW y, Takes(r, y), y.pc = "idle" \/ (y.pc = "save" /\ y.op = req[r].op /\ y.value = "made"),
         UNCHANGED <<results, tokens, expired, revoked, draft>>, faults' \in 0..MaxFaults
  PROVE  OperationInv'
<1> DEFINE k == req[r].op
<1>1. k \in OperationAttempts /\ k \in claims
  BY RequestFacts
<1>2. Alone(r) /\ req[r].pc \in Working
  BY DEF OperationInv, ResultsInv, Working
<1>3. /\ k \notin DOMAIN stored /\ k \notin DOMAIN effects
      /\ \A s \in Requests \ {r} : req[s].pc \in Working \cup Saving => req[s].op # k
  BY <1>2 DEF Alone, Working, Seeking, Saving
<1>4. Count(effects, k) = 0
  BY <1>3 DEF Count
<1>5. /\ DOMAIN effects' = DOMAIN effects \cup {k} /\ effects'[k] = 1
      /\ \A j \in DOMAIN effects : effects'[j] = effects[j]
  BY <1>3, <1>4 DEF Put
<1>6. sent' = sent /\ claims' = claims /\ stored' = stored /\ told' = told
  BY DEF results
<1>7. OnlyGrows /\ TokensNext
  BY <1>6, TokensKept
<1>8. TokensInv'
  BY <1>6, <1>7, TokenStep
<1>9. OperationTypes'
  BY <1>6 DEF OperationInv, OperationTypes
<1>10. AnswersAgree' /\ \A j \in claims' : \A e \in Earlier(j) : Failed(e)'
  BY <1>6 DEF OperationInv, ResultsInv, AnswersAgree, Failed
<1>11. \A j \in DOMAIN effects' : j \in claims' /\ j[1] \in Writes /\ effects'[j] = 1 /\ (j \in DOMAIN stored' => stored'[j] = "made")
  BY <1>1, <1>3, <1>5, <1>6 DEF OperationInv, ResultsInv
<1>12. \A s \in Requests : Alone(s)'
  <2>1. req'[r] = y /\ \A s \in Requests : s # r => req'[s] = req[s]
    BY DEF Takes, OperationInv, TokensInv
  <2>2. Alone(r)'
    BY <1>3, <1>6, <2>1 DEF Alone, Working, Seeking, Saving
  <2>3. ASSUME NEW s \in Requests \ {r} PROVE Alone(s)'
    <3>1. Alone(s) /\ req'[s] = req[s]
      BY <2>1 DEF OperationInv, ResultsInv
    <3>2. req[s].pc \in Working \cup Saving => req[s].op # k
      BY <1>3
    <3>3. \A q \in Requests \ {s} : req'[q].pc \in Working \cup Saving => req[q].pc \in Working \cup Saving /\ req'[q].op = req[q].op
      BY <1>2, <2>1 DEF Working, Seeking, Saving
    <3>4. QED
      BY <1>5, <1>6, <3>1, <3>2, <3>3 DEF Alone
  <2>4. QED
    BY <2>2, <2>3
<1>13. ResultsInv'
  BY <1>10, <1>11, <1>12 DEF ResultsInv
<1>14. QED
  BY <1>8, <1>9, <1>13 DEF OperationInv

\* The request ends at WeChat without a write.
LEMMA SavesStep ==
  ASSUME OperationInv, NEW r \in Requests, req[r].pc = "use", NEW v \in Values, Blame(v)', Save(r, req[r], v),
         UNCHANGED <<results, tokens, wechatSide>>, faults' \in 0..MaxFaults
  PROVE  OperationInv'
<1>1. req[r] \in RequestRec /\ req[r].op \in claims'
  BY RequestFacts DEF results
<1>2. PICK z : z = req[r]
  OBVIOUS
<1>3. z \in RequestRec /\ z.op \in claims' /\ Save(r, z, v)
  BY <1>1, <1>2
<1>4. PICK y : Takes(r, y) /\ y.op = z.op /\ y.pc = "save" /\ y.value = v
  BY <1>3, SaveWorks
<1>5. Follows(req[r], y)
  BY <1>2, <1>4 DEF Follows, Working
<1>6. y \in RequestRec /\ Holds(y)' /\ MoveTo(r, y)
  BY <1>4 DEF Takes, MoveTo
<1>7. QED
  BY <1>5, <1>6, MovesOn

\* WeChat is asked, with the token refreshed once.
LEMMA ProviderStep ==
  ASSUME OperationInv, NEW r \in Requests, Provider(r)
  PROVE  OperationInv'
<1> DEFINE x == req[r]
<1>1. x.pc = "use" /\ UNCHANGED <<results, expired, revoked, draft>>
  BY DEF Provider
<1>2. /\ x \in RequestRec /\ Holds(x) /\ x.op \in claims /\ x.op \in OperationAttempts /\ x.at \in TokenKeys /\ x.at \in DOMAIN intents
      /\ Ledger(intents, evidence, generation, asks) /\ generation \in Nat /\ EndedTokens \subseteq TokenKeys
  BY <1>1, RequestFacts
<1>3. x.op[1] \in Reads \cup Writes
  BY <1>2 DEF OperationAttempts
<1>4. claims' = claims /\ EndedTokens' = EndedTokens
  BY <1>1 DEF results, EndedTokens
<1>5. draft \in Found /\ faults \in 0..MaxFaults
  BY DEF OperationInv, OperationTypes
<1>6. CASE UNCHANGED tokens /\ Happens(x.op) /\ Save(r, x, IF x.op[1] \in Reads THEN draft ELSE "made") /\ UNCHANGED faults
  <2>1. PICK v : v = IF x.op[1] \in Reads THEN draft ELSE "made"
    OBVIOUS
  <2>2. Save(r, x, v) /\ v \in Values
    BY <1>5, <1>6, <2>1 DEF Values
  <2>3. Blame(v)'
    BY <1>5, <2>1 DEF Blame, Found
  <2>4. CASE x.op[1] \notin Writes
    <3>1. UNCHANGED wechatSide
      BY <1>1, <1>6, <2>4 DEF Happens, wechatSide
    <3>2. QED
      BY <1>1, <1>5, <1>6, <2>2, <2>3, <3>1, SavesStep
  <2>5. CASE x.op[1] \in Writes
    <3>1. v = "made"
      BY <2>1, <2>5, WechatOperationOK
    <3>2. PICK z : z = x
      OBVIOUS
    <3>3. z \in RequestRec /\ z.op \in claims' /\ Save(r, z, v)
      BY <1>2, <1>4, <2>2, <3>2
    <3>4. PICK y : Takes(r, y) /\ y.op = z.op /\ y.pc = "save" /\ y.value = v
      BY <2>2, <2>3, <3>3, SaveWorks
    <3>5. effects' = Put(effects, x.op, Count(effects, x.op) + 1)
      BY <1>6, <2>5 DEF Happens
    <3>6. QED
      BY <1>1, <1>5, <1>6, <2>5, <3>1, <3>2, <3>4, <3>5, HappensStep
  <2>6. QED
    BY <2>4, <2>5
<1>7. ASSUME UNCHANGED tokens, Fault, UNCHANGED effects, NEW v \in {"again", "refused"}, Save(r, x, v) PROVE OperationInv'
  <2>1. v \in Values /\ Blame(v)'
    BY DEF Values, Failures, Blame
  <2>2. UNCHANGED wechatSide /\ faults' \in 0..MaxFaults
    BY <1>1, <1>7, FaultBound DEF wechatSide
  <2>3. QED
    BY <1>1, <1>7, <2>1, <2>2, SavesStep
<1>8. CASE UNCHANGED tokens /\ Fault /\ Unknown(r) /\ (Happens(x.op) \/ UNCHANGED effects)
  <2>1. faults' \in 0..MaxFaults /\ MoveTo(r, NoRequest) /\ Takes(r, NoRequest) /\ NoRequest.pc = "idle"
    BY <1>8, FaultBound, GoesIdle DEF Unknown, NoRequest
  <2>2. CASE effects' = effects
    <3>1. UNCHANGED wechatSide
      BY <1>1, <2>2 DEF wechatSide
    <3>2. OnlyGrows /\ TokensNext
      BY <1>1, <1>4, <1>8, TokensKept
    <3>3. QED
      BY <1>1, <2>1, <3>1, <3>2, StopsStill
  <2>3. CASE effects' = Put(effects, x.op, Count(effects, x.op) + 1) /\ x.op[1] \in Writes
    BY <1>1, <1>8, <2>1, <2>3, HappensStep
  <2>4. QED
    BY <1>8, <2>2, <2>3 DEF Happens
<1>9. CASE x.at \in expired \cup revoked /\ UNCHANGED <<effects, faults>> /\ x.again /\ Save(r, x, "credentials") /\ UNCHANGED tokens
  <2>1. PICK u \in EndedTokens : u[1] < x.at[1]
    BY <1>1, <1>2, <1>9 DEF Holds, Working
  <2>2. u # x.at
    BY <1>2, <2>1 DEF TokenKeys
  <2>3. \E t, w \in EndedTokens' : t # w
    BY <1>4, <1>9, <2>1, <2>2 DEF EndedTokens
  <2>4. "credentials" \in Values /\ Blame("credentials")'
    BY <2>3 DEF Values, Failures, Blame
  <2>5. UNCHANGED wechatSide
    BY <1>1, <1>9 DEF wechatSide
  <2>6. QED
    BY <1>1, <1>5, <1>9, <2>4, <2>5, SavesStep
<1>10. CASE /\ x.at \in expired \cup revoked /\ UNCHANGED <<effects, faults>> /\ ~ x.again
            /\ token(r, [x EXCEPT !.forced = TRUE], cache, intents) /\ UNCHANGED <<evidence, cache>>
  <2>1. PICK z : z = [x EXCEPT !.forced = TRUE]
    OBVIOUS
  <2>2. z \in RequestRec /\ z.forced /\ z.op = x.op
    BY <1>2, <2>1 DEF RequestRec
  <2>3. x.at \in EndedTokens' /\ x.at[1] < generation + 1
    <3>1. x.at[1] <= generation
      BY <1>2 DEF Ledger
    <3>2. x.at \in EndedTokens'
      BY <1>4, <1>10 DEF EndedTokens
    <3>3. x.at[1] \in Nat
      BY <1>2 DEF TokenKeys
    <3>4. QED
      BY <1>2, <3>1, <3>2, <3>3
  <2>4. Brings(z, generation + 1)
    BY <1>2, <1>4, <2>2, <2>3 DEF Brings
  <2>5. PICK c : c = cache
    OBVIOUS
  <2>6. token(r, z, c, intents) /\ Ledger(intents, evidence', generation, asks)
    BY <1>2, <1>10, <2>1, <2>5
  <2>7. LedgerNext /\ Works(r, z.op) /\ DOMAIN intents \subseteq DOMAIN intents' /\ generation' = generation + 1
    BY <2>2, <2>4, <2>6, ForcedWorks
  <2>8. OnlyGrows
    BY <1>2, <1>4, <1>10, <2>7 DEF OnlyGrows
  <2>9. TokensNext
    BY <1>4, <1>10, <2>7 DEF TokensNext, OperationInv, TokensInv, IsToken
  <2>10. PICK y : Takes(r, y) /\ y.op = z.op
    BY <2>7 DEF Works
  <2>11. Follows(x, y)
    BY <1>1, <2>2, <2>10 DEF Follows, Working
  <2>12. Onward
    BY <2>10, <2>11 DEF Onward
  <2>13. sent' = sent /\ claims' = claims /\ stored' = stored /\ told' = told /\ sent \subseteq OperationAttempts
    BY <1>1 DEF results, OperationInv, OperationTypes
  <2>14. QED
    BY <1>1, <1>5, <1>10, <2>8, <2>9, <2>12, <2>13, QuietStep
<1>11. QED
  BY <1>6, <1>7, <1>8, <1>9, <1>10 DEF Provider

\* A request ends unanswered.
LEMMA DieStep ==
  ASSUME OperationInv, NEW r \in Requests, Die(r)
  PROVE  OperationInv'
<1>1. MoveTo(r, NoRequest) /\ UNCHANGED <<results, tokens, wechatSide>> /\ faults' \in 0..MaxFaults
  BY FaultBound DEF Die, Unknown
<1>2. OnlyGrows /\ TokensNext
  BY <1>1, TokensKept DEF results, wechatSide
<1>3. QED
  BY <1>1, <1>2, StopsStill

\* A token runs out or is dropped.
LEMMA TokenEndsStep ==
  ASSUME OperationInv, TokenEnds
  PROVE  OperationInv'
<1>1. UNCHANGED <<results, tokens, effects, draft, req>> /\ faults' \in 0..MaxFaults
  BY FaultBound DEF TokenEnds
<1>2. PICK t \in DOMAIN evidence : (expired' = expired \cup {t} /\ UNCHANGED revoked) \/ (revoked' = revoked \cup {t} /\ UNCHANGED expired)
  BY DEF TokenEnds
<1>3. EndedTokens' = EndedTokens \cup {t}
  BY <1>2 DEF EndedTokens
<1>4. /\ sent' = sent /\ claims' = claims /\ stored' = stored /\ told' = told
      /\ generation' = generation /\ intents' = intents /\ evidence' = evidence /\ cache' = cache /\ asks' = asks
  BY <1>1 DEF results, tokens
<1>5. generation \in Nat
  BY DEF OperationInv, TokensInv, Ledger
<1>6. OnlyGrows
  BY <1>3, <1>4, <1>5 DEF OnlyGrows
<1>7. IsFiniteSet(EndedTokens')
  BY <1>3, FS_AddElement DEF OperationInv, TokensInv
<1>8. TokensNext
  BY <1>3, <1>4, <1>7 DEF TokensNext, LedgerNext, OperationInv, TokensInv, IsToken
<1>9. Onward
  BY <1>1 DEF Onward
<1>10. QED
  BY <1>1, <1>4, <1>6, <1>8, <1>9, QuietStep DEF OperationInv, OperationTypes

\* The author edits the draft.
LEMMA EditDraftStep ==
  ASSUME OperationInv, EditDraft
  PROVE  OperationInv'
<1>1. UNCHANGED <<results, tokens, expired, revoked, effects, req>> /\ faults' \in 0..MaxFaults /\ draft' \in Found
  BY FaultBound DEF EditDraft, Found
<1>2. sent' = sent /\ claims' = claims /\ stored' = stored /\ told' = told
  BY <1>1 DEF results
<1>3. OnlyGrows /\ TokensNext
  BY <1>1, <1>2, TokensKept
<1>4. Onward
  BY <1>1 DEF Onward
<1>5. QED
  BY <1>1, <1>2, <1>3, <1>4, QuietStep DEF OperationInv, OperationTypes

-----------------------------------------------------------------------------
\* The invariant holds before anything was sent.
LEMMA InitOperation == OperationInit => OperationInv
<1> SUFFICES ASSUME OperationInit PROVE OperationInv
  OBVIOUS
<1>1. /\ sent = {} /\ claims = {} /\ DOMAIN stored = {} /\ told = {} /\ generation = 1 /\ DOMAIN intents = {}
      /\ DOMAIN evidence = {} /\ cache = NoToken /\ DOMAIN asks = {} /\ expired = {} /\ revoked = {}
      /\ DOMAIN effects = {} /\ draft = "draft" /\ req = [r \in Requests |-> NoRequest] /\ faults = 0
  BY DEF OperationInit
<1>2. OperationTypes
  BY <1>1, WechatOperationOK DEF OperationTypes, Found
<1>3. Ledger(intents, evidence, generation, asks)
  BY <1>1 DEF Ledger
<1>4. EndedTokens = {} /\ IsFiniteSet(EndedTokens)
  BY <1>1, FS_EmptySet DEF EndedTokens
<1>5. NoRequest \in RequestRec /\ NoRequest.pc = "idle"
  BY DEF NoRequest, NoIntent, RequestRec, Places, Intents
<1>6. Holds(NoRequest)
  BY <1>5 DEF Holds, Seeking, Working, Saving
<1>7. TokensInv
  BY <1>1, <1>3, <1>4, <1>5, <1>6 DEF TokensInv
<1>8. \A r \in Requests : Alone(r)
  BY <1>1, <1>5 DEF Alone, Seeking, Working, Saving
<1>9. ResultsInv
  BY <1>1, <1>8 DEF ResultsInv, AnswersAgree
<1>10. QED
  BY <1>2, <1>7, <1>9 DEF OperationInv

\* Every step of the object and of WeChat keeps the invariant.
LEMMA NextOperation == OperationInv /\ [OperationNext]_operationVars => OperationInv'
<1> SUFFICES ASSUME OperationInv, [OperationNext]_operationVars PROVE OperationInv'
  OBVIOUS
<1>1. ASSUME NEW r \in Requests, NEW k \in OperationAttempts, Send(r, k) \/ Ask(r, k) PROVE OperationInv'
  BY <1>1, SendStep, AskStep
<1>2. ASSUME NEW r \in Requests, Serve(r) PROVE OperationInv'
  BY <1>2, ReplayStep, TokenAnsweredStep, LookForTokenStep, PutTokenStep, LookStep, ProviderStep,
     LookForResultStep, StoreResultStep DEF Serve
<1>3. ASSUME NEW r \in Requests, Die(r) PROVE OperationInv'
  BY <1>3, DieStep
<1>4. CASE TokenEnds \/ EditDraft
  BY <1>4, TokenEndsStep, EditDraftStep
<1>5. CASE UNCHANGED operationVars
  <2>1. UNCHANGED <<results, tokens, wechatSide, req, faults>>
    BY <1>5 DEF operationVars
  <2>2. UNCHANGED <<results, tokens, effects, expired, revoked, draft, req, faults>>
    BY <2>1 DEF wechatSide
  <2>3. sent' = sent /\ claims' = claims /\ stored' = stored /\ told' = told
    BY <2>1 DEF results
  <2>4. OnlyGrows /\ TokensNext
    BY <2>2, <2>3, TokensKept
  <2>5. Onward
    BY <2>1 DEF Onward
  <2>6. QED
    BY <2>2, <2>3, <2>4, <2>5, QuietStep DEF OperationInv, OperationTypes
<1>6. QED
  BY <1>1, <1>2, <1>3, <1>4, <1>5 DEF OperationNext

\* The invariant of the publishing adapter's operation object.
THEOREM OperationInvariance == OperationSpec => []OperationInv
BY InitOperation, NextOperation, PTL DEF OperationSpec

\* The invariant has the types in it.
LEMMA OperationTyped == OperationInv => OperationTypeOK
<1> SUFFICES ASSUME OperationInv PROVE OperationTypeOK
  OBVIOUS
<1>1. Ledger(intents, evidence, generation, asks) /\ req \in [Requests -> RequestRec] /\ EndedTokens \subseteq DOMAIN evidence
  BY DEF OperationInv, TokensInv
<1>2. /\ generation \in Nat \ {0} /\ DOMAIN intents \subseteq TokenKeys /\ \A t \in DOMAIN intents : intents[t] \in Intents
      /\ DOMAIN evidence \subseteq TokenKeys /\ \A t \in DOMAIN evidence : evidence[t] \in TokenResults
  BY <1>1 DEF Ledger
<1>3. cache \in TokenKeys \cup {NoToken}
  BY <1>2 DEF OperationInv, TokensInv, IsToken
<1>4. expired \subseteq TokenKeys /\ revoked \subseteq TokenKeys
  BY <1>1, <1>2 DEF EndedTokens
<1>5. \A k \in DOMAIN effects : k \in OperationAttempts /\ effects[k] \in Nat
  BY DEF OperationInv, OperationTypes, ResultsInv
<1>6. QED
  BY <1>1, <1>2, <1>3, <1>4, <1>5 DEF OperationInv, OperationTypes, OperationTypeOK, RequestRec

\* token, writeTokenAttemptResult: WeChat is asked at most once per token attempt,
\* whoever asks; an attempt follows one that failed; the intents say of the
\* results what R2 holds; and no token is used or kept that R2 does not hold.
THEOREM TokensCorrect == OperationSpec => []TokensSound
<1>1. OperationInv => TokensSound
  <2> SUFFICES ASSUME OperationInv PROVE TokensSound
    OBVIOUS
  <2>1. Ledger(intents, evidence, generation, asks) /\ EndedTokens \subseteq DOMAIN evidence
    BY DEF OperationInv, TokensInv
  <2>2. AskedOnce
    <3>1. DOMAIN asks = DOMAIN intents /\ \A t \in DOMAIN intents : asks[t] = 1
      BY <2>1 DEF Ledger
    <3>2. QED
      BY <3>1 DEF AskedOnce
  <2>3. TokenAttemptsInOrder
    BY <2>1 DEF Ledger, TokenAttemptsInOrder
  <2>4. IntentsAgree
    BY <2>1 DEF Ledger, Agrees, IntentsAgree
  <2>5. TokensStored
    BY DEF OperationInv, TokensInv, Holds, TokensStored
  <2>6. QED
    BY <2>2, <2>3, <2>4, <2>5, OperationTyped DEF TokensSound
<1>2. QED
  BY <1>1, OperationInvariance, PTL

\* execute, writeResult, wechatRequest: all who ask after an attempt are told the
\* result R2 holds, an operation takes effect at most once over all its
\* attempts, requests and tokens, and nobody is blamed without cause.
THEOREM ResultsCorrect == OperationSpec => []ResultsSound
<1>1. OperationInv => ResultsSound
  <2> SUFFICES ASSUME OperationInv PROVE ResultsSound
    OBVIOUS
  <2>1. AnswersAgree
    BY DEF OperationInv, ResultsInv
  <2>2. /\ \A k \in DOMAIN effects : k \in claims /\ effects[k] = 1 /\ (k \in DOMAIN stored => stored[k] = "made")
        /\ \A k \in claims : k \in OperationAttempts /\ \A e \in Earlier(k) : Failed(e)
    BY DEF OperationInv, OperationTypes, ResultsInv
  <2>3. ASSUME NEW j \in DOMAIN effects, NEW k \in DOMAIN effects, j[1] = k[1] PROVE ~ (j[2] < k[2])
    <3> SUFFICES ASSUME j[2] < k[2] PROVE FALSE
      OBVIOUS
    <3>1. j \in OperationAttempts /\ k \in OperationAttempts
      BY <2>2
    <3>2. j = <<k[1], j[2]>> /\ j[2] \in 1..(k[2] - 1)
      BY <2>3, <3>1 DEF OperationAttempts, TryNumbers
    <3>3. j \in Earlier(k)
      BY <3>2 DEF Earlier
    <3>4. j \in DOMAIN stored /\ stored[j] = "again"
      BY <2>2, <3>3 DEF Failed
    <3>5. QED
      BY <2>2, <3>4
  <2>4. ASSUME NEW j \in DOMAIN effects, NEW k \in DOMAIN effects, j[1] = k[1] PROVE j = k
    <3>1. j \in OperationAttempts /\ k \in OperationAttempts
      BY <2>2
    <3>2. ~ (j[2] < k[2]) /\ ~ (k[2] < j[2])
      BY <2>3, <2>4
    <3>3. QED
      BY <2>4, <3>1, <3>2 DEF OperationAttempts, TryNumbers
  <2>5. WrittenOnce
    BY <2>2, <2>4 DEF WrittenOnce
  <2>6. ASSUME NEW t \in EndedTokens, NEW u \in EndedTokens, t # u PROVE Cardinality(EndedTokens) > 1
    <3>1. IsFiniteSet(EndedTokens) /\ {t, u} \subseteq EndedTokens
      BY DEF OperationInv, TokensInv
    <3>2. Cardinality({t, u}) = 2
      <4>1. IsFiniteSet({t}) /\ Cardinality({t}) = 1
        BY FS_Singleton
      <4>2. u \notin {t} /\ {t, u} = {t} \cup {u}
        BY <2>6
      <4>3. Cardinality({t} \cup {u}) = Cardinality({t}) + 1
        BY <4>1, <4>2, FS_AddElement
      <4>4. QED
        BY <4>1, <4>2, <4>3
    <3>3. Cardinality({t, u}) <= Cardinality(EndedTokens)
      BY <3>1, FS_Subset
    <3>4. Cardinality(EndedTokens) \in Nat
      BY <3>1, FS_CardinalityType
    <3>5. QED
      BY <3>2, <3>3, <3>4
  <2>7. \A k \in DOMAIN stored : Blame(stored[k])
    BY DEF OperationInv, TokensInv
  <2>8. BlamedForCause
    BY <2>6, <2>7 DEF BlamedForCause, Blame, EndedTokens
  <2>9. QED
    BY <2>1, <2>5, <2>8 DEF ResultsSound
<1>2. QED
  BY <1>1, OperationInvariance, PTL
=============================================================================
