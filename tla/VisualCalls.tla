------------------------------ MODULE VisualCalls ------------------------------
(***************************************************************************)
(* One image of a publication run, from the workflow step that asks for it *)
(* to the provider that draws it:                                          *)
(*                                                                         *)
(*   - workers: executions of the visual step, re-executed by the Workflow *)
(*     runtime after a timeout or a crash and by every re-entry, an older  *)
(*     one possibly still running (fiveAgentPublishing.ts);                *)
(*   - the Coordinator's call ledger (editorialAgents.ts);                 *)
(*   - visits: requests inside the image adapter's VISUAL_OPERATION object,*)
(*     which go on when their caller is gone, with their claims, and the   *)
(*     immutable intents and results in R2                                 *)
(*     (image-generation-adapter/src/index.ts).                            *)
(*                                                                         *)
(* Every await that another party can get between is a step of its own.    *)
(***************************************************************************)
EXTENDS Naturals, FiniteSets

CONSTANTS
  Workers,      \* step executions alive at once
  Visits,       \* requests alive in the adapter at once
  MaxAttempts   \* attempts per call (the code's 3)

VisualCallsAssumption == MaxAttempts \in Nat \ {0}

ASSUME VisualCallsOK == VisualCallsAssumption

Attempts == 1..MaxAttempts

VARIABLES
  call,      \* call[n]: the Coordinator's ledger entry of attempt n
  claim,     \* claim[n]: the VISUAL_OPERATION object's entry
  intent,    \* intent[n]: the intent record is in R2
  result,    \* result[n]: the result record in R2
  requests,  \* requests[n]: provider requests ever sent
  images,    \* attempts for which the provider drew an image
  artifact,  \* the attempt whose image became the artifact, or 0
  worker,    \* worker[w]: the step execution w
  visit,     \* visit[v]: the adapter request v
  cancelled, \* the publication run is cancelled in D1
  refused    \* history: the modes in which a request about attempt n was turned away

ledgers  == <<call, artifact>>
adapter  == <<claim, intent, result>>
provider == <<requests, images>>
vars     == <<ledgers, adapter, provider, worker, visit, cancelled, refused>>

Outcomes == {"success", "retryable", "final"}

-----------------------------------------------------------------------------
(* The Coordinator: prepareFiveAgentCall and completeFiveAgentCall. *)

Settled == {n \in Attempts : call[n] \in Outcomes}
IsLatest(m) == m \in Settled /\ \A k \in Settled : k <= m
InFlight == {n \in Attempts : call[n] = "intent"}

\* What prepareFiveAgentCall answers a worker that wants to make attempt n:
\* the call is completed; it has failed for good; the worker is to go on after
\* the latest attempt; an attempt has no result yet, so the side effect is
\* unknown; an earlier attempt is missing; or the attempt is prepared.
PrepareStatus(n) ==
  IF \E m \in Settled : IsLatest(m) /\ call[m] = "success" THEN "completed"
  ELSE IF \E m \in Settled : IsLatest(m) /\ (call[m] = "final" \/ m = MaxAttempts) THEN "failed"
  ELSE IF \E m \in Settled : n <= m THEN "again"
  ELSE IF InFlight # {} THEN "needs_action"
  ELSE IF \E m \in 1..(n - 1) : call[m] # "retryable" THEN "attempt_order_invalid"
  ELSE "prepared"

\* A result is recorded once; the same result again is accepted, another one
\* is an idempotency conflict.
RecordAccepted(n, outcome) == call[n] \in {"intent", outcome}

-----------------------------------------------------------------------------
(* Workers: runVisualAdapterCall and the artifact commit around it. *)

Idle == [pc |-> "idle"]

Become(w, state) == worker' = [worker EXCEPT ![w] = state]

\* The loop goes on with attempt n, or the call is given up.
ContinueWith(w, n) ==
  Become(w, IF n \in Attempts THEN [pc |-> "head", attempt |-> n] ELSE Idle)

\* A step execution begins, the first or another one.
StartStep(w) ==
  /\ worker[w].pc = "idle"
  /\ Become(w, [pc |-> "head", attempt |-> 1])
  /\ UNCHANGED <<ledgers, adapter, provider, visit, cancelled, refused>>

\* A re-entry that finds the run on hold asks about the latest attempt
\* before it runs the step (reconcileExistingVisualAdapterCall).
ReenterHold(w) ==
  /\ worker[w].pc = "idle" /\ ~cancelled
  /\ \E n \in InFlight :
       /\ \A m \in Attempts : m > n => call[m] = "none"
       /\ Become(w, [pc |-> "ask", mode |-> "reenter", attempt |-> n])
  /\ UNCHANGED <<ledgers, adapter, provider, visit, cancelled, refused>>

\* The cancellation check at the head of the loop.
CheckCancelled(w) ==
  /\ worker[w].pc = "head"
  /\ Become(w, IF cancelled THEN Idle ELSE [pc |-> "prepare", attempt |-> worker[w].attempt])
  /\ UNCHANGED <<ledgers, adapter, provider, visit, cancelled, refused>>

\* The Coordinator decides, and writes the intent of a prepared attempt.
Prepare(w) ==
  /\ worker[w].pc = "prepare"
  /\ LET n == worker[w].attempt
         status == PrepareStatus(n)
     IN \/ /\ status = "prepared"
           /\ call' = [call EXCEPT ![n] = "intent"]
           /\ Become(w, [pc |-> "ask", mode |-> "execute", attempt |-> n])
        \/ /\ status = "needs_action"
           /\ \E m \in InFlight : Become(w, [pc |-> "ask", mode |-> "reconcile", attempt |-> m])
           /\ UNCHANGED call
        \/ /\ status = "again"
           /\ \E m \in Settled : IsLatest(m) /\ ContinueWith(w, m + 1)
           /\ UNCHANGED call
        \/ /\ status \in {"completed", "failed", "attempt_order_invalid"}
           /\ Become(w, Idle)
           /\ UNCHANGED call
  /\ UNCHANGED <<artifact, adapter, provider, visit, cancelled, refused>>

\* The request leaves for the adapter, unless the run was cancelled since the
\* head of the loop.
SendRequest(w, v) ==
  /\ worker[w].pc = "ask" /\ ~cancelled
  /\ visit[v].pc = "free"
  /\ visit' = [visit EXCEPT ![v] =
       [pc |-> IF worker[w].mode = "execute" THEN "arrived" ELSE "reading",
        attempt |-> worker[w].attempt]]
  /\ Become(w, [pc |-> "waiting", mode |-> worker[w].mode, attempt |-> worker[w].attempt, visit |-> v])
  /\ UNCHANGED <<ledgers, adapter, provider, cancelled, refused>>

StopCancelled(w) ==
  /\ worker[w].pc \in {"ask", "persist"} /\ cancelled
  /\ Become(w, Idle)
  /\ UNCHANGED <<ledgers, adapter, provider, visit, cancelled, refused>>

\* How a worker takes the adapter's answer about attempt n: an unknown side
\* effect holds the run, a success is persisted, a failure recorded. A success
\* that names another attempt fails the response check of the client.
TakeAnswer(w, code, n) ==
  LET asked == worker[w].attempt IN
    IF code = "unknown" THEN Become(w, Idle)
    ELSE IF code = "success" /\ n = asked THEN Become(w, [pc |-> "persist", attempt |-> asked])
    ELSE Become(w, [pc |-> "record", mode |-> worker[w].mode, attempt |-> asked,
                    outcome |-> IF code = "retryable" THEN "retryable" ELSE "final"])

\* What a request asks of the adapter: to make the attempt, or only to tell
\* what became of it.
AdapterMode(mode) == IF mode = "execute" THEN "execute" ELSE "reconcile"

\* The adapter turns a request away before it reads anything: a token, a
\* binding or a canary scope that does not match, a configuration that is gone.
RefuseRequest(w) ==
  /\ worker[w].pc = "ask" /\ ~cancelled
  /\ TakeAnswer(w, "final", worker[w].attempt)
  /\ refused' = [refused EXCEPT ![worker[w].attempt] = @ \cup {AdapterMode(worker[w].mode)}]
  /\ UNCHANGED <<ledgers, adapter, provider, visit, cancelled>>

\* The answer gets lost: a transport exception, an unknown side effect.
LoseAnswer(w) ==
  /\ worker[w].pc = "waiting"
  /\ TakeAnswer(w, "unknown", worker[w].attempt)
  /\ UNCHANGED <<ledgers, adapter, provider, visit, cancelled, refused>>

\* A failed attempt is recorded; a retryable one goes on with the next. A
\* re-entry goes through the loop from the start.
RecordFailure(w) ==
  /\ worker[w].pc = "record"
  /\ LET n == worker[w].attempt
         outcome == worker[w].outcome
     IN IF RecordAccepted(n, outcome)
          THEN /\ call' = [call EXCEPT ![n] = outcome]
               /\ \/ worker[w].mode = "reenter" /\ ContinueWith(w, 1)
                  \/ worker[w].mode # "reenter" /\ outcome = "retryable" /\ ContinueWith(w, n + 1)
                  \/ worker[w].mode # "reenter" /\ outcome = "final" /\ Become(w, Idle)
          ELSE Become(w, Idle) /\ UNCHANGED call
  /\ UNCHANGED <<artifact, adapter, provider, visit, cancelled, refused>>

\* Seeded fault: the call succeeds although the artifact was not committed.
PersistUnverified(w) ==
  /\ worker[w].pc = "persist" /\ ~cancelled
  /\ artifact' \in {artifact, worker[w].attempt}
  /\ Become(w, [pc |-> "succeed", attempt |-> worker[w].attempt])
  /\ UNCHANGED <<call, adapter, provider, visit, cancelled, refused>>

\* The image is committed as the slot's immutable artifact, or that fails.
PersistArtifact(w) ==
  /\ worker[w].pc = "persist" /\ ~cancelled
  /\ LET n == worker[w].attempt IN
       \/ /\ artifact \in {0, n}
          /\ artifact' = n
          /\ Become(w, [pc |-> "succeed", attempt |-> n])
       \/ Become(w, Idle) /\ UNCHANGED artifact
  /\ UNCHANGED <<call, adapter, provider, visit, cancelled, refused>>

RecordSuccess(w) ==
  /\ worker[w].pc = "succeed"
  /\ LET n == worker[w].attempt IN
       call' = IF RecordAccepted(n, "success") THEN [call EXCEPT ![n] = "success"] ELSE call
  /\ Become(w, Idle)
  /\ UNCHANGED <<artifact, adapter, provider, visit, cancelled, refused>>

\* The execution dies or times out wherever it is.
WorkerDies(w) ==
  /\ worker[w].pc # "idle"
  /\ Become(w, Idle)
  /\ UNCHANGED <<ledgers, adapter, provider, visit, cancelled, refused>>

-----------------------------------------------------------------------------
(* Visits: VisualOperationAgent.fetch, processOperation, reconcileOperation. *)

Move(v, state) == visit' = [visit EXCEPT ![v] = state]

\* The visit ends and its caller, if still there, gets the answer.
Reply(v, code, n) ==
  /\ Move(v, [pc |-> "free"])
  /\ \/ \E w \in Workers : worker[w].pc = "waiting" /\ worker[w].visit = v /\ TakeAnswer(w, code, n)
     \/ (\A w \in Workers : worker[w].pc = "waiting" => worker[w].visit # v) /\ UNCHANGED worker

\* A reconcile request only reads the attempt's result.
Reconcile(v) ==
  /\ visit[v].pc = "reading"
  /\ LET n == visit[v].attempt IN
       Reply(v, IF result[n] = "none" THEN "unknown" ELSE result[n], n)
  /\ UNCHANGED <<ledgers, adapter, provider, cancelled, refused>>

\* The results in R2 of the claims that are still intents are read.
CollectEvidence(v) ==
  /\ visit[v].pc = "arrived"
  /\ LET n == visit[v].attempt IN
       Move(v, [pc |-> "collected", attempt |-> n,
                evidence |-> {m \in 1..n : claim[m] = "intent" /\ result[m] # "none"}])
  /\ UNCHANGED <<ledgers, adapter, provider, worker, cancelled, refused>>

\* The claims after the repairs the collected evidence allows.
RepairedClaims(v) ==
  [m \in Attempts |-> IF m \in visit[v].evidence /\ claim[m] = "intent" THEN result[m] ELSE claim[m]]

\* What the claims say to attempt n: an earlier one is open, one has ended the
\* operation, one is missing, or it is this attempt's own claim that counts.
ClaimDecision(claims, n) ==
  IF \E m \in 1..(n - 1) : claims[m] = "intent" THEN "unknown"
  ELSE IF \E m \in 1..(n - 1) : claims[m] \in {"success", "final"} THEN "terminal"
  ELSE IF n > 1 /\ claims[n - 1] = "none" THEN "attempt_order_invalid"
  ELSE CASE claims[n] = "none"      -> "claim"
         [] claims[n] = "intent"    -> "unknown"
         [] claims[n] = "retryable" -> "existing"
         [] OTHER                   -> "terminal"

\* The transaction over the claims: repair, decide, claim. A terminal claim is
\* answered from its immutable result.
Claim(v) ==
  /\ visit[v].pc = "collected"
  /\ LET n == visit[v].attempt
         claims == RepairedClaims(v)
         decision == ClaimDecision(claims, n)
         terminal == {m \in 1..n : claims[m] \in {"success", "final"}}
     IN /\ claim' = IF decision = "claim" THEN [claims EXCEPT ![n] = "intent"] ELSE claims
        /\ \/ /\ decision \in {"claim", "existing"}
              /\ Move(v, [pc |-> "process", attempt |-> n]) /\ UNCHANGED worker
           \/ /\ decision = "terminal"
              /\ \E t \in terminal :
                   /\ \A m \in terminal : t <= m
                   /\ Reply(v, IF result[t] = "none" THEN "unknown" ELSE result[t], t)
           \/ decision = "attempt_order_invalid" /\ Reply(v, "final", n)
           \/ decision = "unknown" /\ Reply(v, "unknown", n)
  /\ UNCHANGED <<ledgers, intent, result, provider, cancelled, refused>>

\* processOperation looks for a result of this attempt, a terminal one of an
\* earlier attempt, and an intent nobody answered. What it finds of an earlier
\* attempt is no evidence for this one, so the visit then answers unknown.
Process(v) ==
  /\ visit[v].pc = "process"
  /\ LET n == visit[v].attempt
         final == {m \in 1..(n - 1) : result[m] \in {"success", "final"}}
     IN Move(v, IF result[n] # "none" THEN [pc |-> "settle", attempt |-> n, code |-> result[n]]
                ELSE IF final # {} \/ intent[n] THEN [pc |-> "settle", attempt |-> n, code |-> "unknown"]
                ELSE [pc |-> "intend", attempt |-> n])
  /\ UNCHANGED <<ledgers, adapter, provider, worker, cancelled, refused>>

\* The intent is put if nothing is there. A put that raced, or whose outcome
\* R2 does not tell, ends the visit without a provider request.
PutIntent(v) ==
  /\ visit[v].pc = "intend"
  /\ LET n == visit[v].attempt IN
       \/ /\ ~intent[n]
          /\ intent' = [intent EXCEPT ![n] = TRUE]
          /\ Move(v, [pc |-> "request", attempt |-> n])
       \/ /\ \E written \in {intent[n], TRUE} : intent' = [intent EXCEPT ![n] = written]
          /\ Move(v, [pc |-> "settle", attempt |-> n, code |-> "unknown"])
  /\ UNCHANGED <<ledgers, claim, result, provider, worker, cancelled, refused>>

\* The provider request leaves; or the canary budget or deadline refuses it,
\* which is recorded as this attempt's final failure.
RequestImage(v) ==
  /\ visit[v].pc = "request"
  /\ LET n == visit[v].attempt IN
       \/ /\ requests' = [requests EXCEPT ![n] = @ + 1]
          /\ Move(v, [pc |-> "provider", attempt |-> n])
       \/ /\ Move(v, [pc |-> "store", attempt |-> n, outcome |-> "final"])
          /\ UNCHANGED requests
  /\ UNCHANGED <<ledgers, adapter, images, worker, cancelled, refused>>

\* Seeded fault: a transport exception is a retryable failure.
ExceptionIsRetryable(drawn) ==
  IF drawn THEN {"success", "final", "retryable"} ELSE {"retryable", "final"}

\* What the adapter may conclude from the provider's response, given whether
\* an image was drawn: a refusal is only an explicit status, an exception or
\* an ambiguous status leaves the outcome unknown, and a response that cannot
\* be read is a final failure.
ResponseOutcomes(drawn) ==
  IF drawn THEN {"success", "final", "unknown"} ELSE {"retryable", "final", "unknown"}

ProviderAnswers(v) ==
  /\ visit[v].pc = "provider"
  /\ LET n == visit[v].attempt IN
       \E drawn \in BOOLEAN : \E outcome \in ResponseOutcomes(drawn) :
         /\ images' = IF drawn THEN images \cup {n} ELSE images
         /\ Move(v, IF outcome = "unknown"
                      THEN [pc |-> "settle", attempt |-> n, code |-> "unknown"]
                      ELSE [pc |-> "store", attempt |-> n, outcome |-> outcome])
  /\ UNCHANGED <<ledgers, adapter, requests, worker, cancelled, refused>>

\* The immutable result is put; a put whose outcome R2 does not tell is
\* answered as unknown, written or not.
PutResult(v) ==
  /\ visit[v].pc = "store"
  /\ LET n == visit[v].attempt
         outcome == visit[v].outcome
         put == [result EXCEPT ![n] = IF @ = "none" THEN outcome ELSE @]
     IN \/ /\ result' = put
           /\ Move(v, [pc |-> "settle", attempt |-> n, code |-> outcome])
        \/ /\ result' \in {result, put}
           /\ Move(v, [pc |-> "settle", attempt |-> n, code |-> "unknown"])
  /\ UNCHANGED <<ledgers, claim, intent, provider, worker, cancelled, refused>>

\* The claim is settled with the result found in R2, if any, and the caller
\* is answered.
Settle(v) ==
  /\ visit[v].pc = "settle"
  /\ LET n == visit[v].attempt IN
       \/ /\ result[n] # "none"
          /\ claim' = [claim EXCEPT ![n] = result[n]]
          /\ Reply(v, visit[v].code, n)
       \/ Reply(v, "unknown", n) /\ UNCHANGED claim
  /\ UNCHANGED <<ledgers, intent, result, provider, cancelled, refused>>

\* The visit is evicted; its caller gets a transport exception. A provider
\* request it had sent may still draw the image.
VisitDies(v) ==
  /\ visit[v].pc # "free"
  /\ Reply(v, "unknown", visit[v].attempt)
  /\ images' \in {images, IF visit[v].pc = "provider" THEN images \cup {visit[v].attempt} ELSE images}
  /\ UNCHANGED <<ledgers, adapter, requests, cancelled, refused>>

-----------------------------------------------------------------------------
\* The user cancels the run.
Cancel ==
  /\ ~cancelled
  /\ cancelled' = TRUE
  /\ UNCHANGED <<ledgers, adapter, provider, worker, visit, refused>>

Init ==
  /\ call = [n \in Attempts |-> "none"]
  /\ claim = [n \in Attempts |-> "none"]
  /\ intent = [n \in Attempts |-> FALSE]
  /\ result = [n \in Attempts |-> "none"]
  /\ requests = [n \in Attempts |-> 0]
  /\ images = {}
  /\ artifact = 0
  /\ worker = [w \in Workers |-> Idle]
  /\ visit = [v \in Visits |-> [pc |-> "free"]]
  /\ cancelled = FALSE
  /\ refused = [n \in Attempts |-> {}]

WorkerNext(w) ==
  \/ StartStep(w) \/ ReenterHold(w) \/ CheckCancelled(w) \/ Prepare(w)
  \/ \E v \in Visits : SendRequest(w, v)
  \/ StopCancelled(w) \/ RefuseRequest(w) \/ LoseAnswer(w)
  \/ RecordFailure(w) \/ PersistArtifact(w) \/ RecordSuccess(w) \/ WorkerDies(w)

VisitNext(v) ==
  \/ Reconcile(v) \/ CollectEvidence(v) \/ Claim(v) \/ Process(v) \/ PutIntent(v)
  \/ RequestImage(v) \/ ProviderAnswers(v) \/ PutResult(v) \/ Settle(v) \/ VisitDies(v)

Next == Cancel \/ (\E w \in Workers : WorkerNext(w)) \/ (\E v \in Visits : VisitNext(v))

Spec == Init /\ [][Next]_vars

-----------------------------------------------------------------------------
(* Types. *)

Modes == {"execute", "reconcile", "reenter"}

WorkerStates ==
  [pc : {"idle"}] \cup
  [pc : {"head", "prepare", "persist", "succeed"}, attempt : Attempts] \cup
  [pc : {"ask"}, mode : Modes, attempt : Attempts] \cup
  [pc : {"waiting"}, mode : Modes, attempt : Attempts, visit : Visits] \cup
  [pc : {"record"}, mode : Modes, attempt : Attempts, outcome : {"retryable", "final"}]

VisitStates ==
  [pc : {"free"}] \cup
  [pc : {"arrived", "reading", "process", "intend", "request", "provider"}, attempt : Attempts] \cup
  [pc : {"collected"}, attempt : Attempts, evidence : SUBSET Attempts] \cup
  [pc : {"store"}, attempt : Attempts, outcome : Outcomes] \cup
  [pc : {"settle"}, attempt : Attempts, code : Outcomes \cup {"unknown"}]

\* Every variable stays in the set of values the stores and handlers give it.
TypeOK ==
  /\ call \in [Attempts -> {"none", "intent"} \cup Outcomes]
  /\ claim \in [Attempts -> {"none", "intent"} \cup Outcomes]
  /\ intent \in [Attempts -> BOOLEAN]
  /\ result \in [Attempts -> {"none"} \cup Outcomes]
  /\ requests \in [Attempts -> Nat]
  /\ images \subseteq Attempts
  /\ artifact \in 0..MaxAttempts
  /\ worker \in [Workers -> WorkerStates]
  /\ visit \in [Visits -> VisitStates]
  /\ cancelled \in BOOLEAN
  /\ refused \in [Attempts -> SUBSET {"execute", "reconcile"}]

-----------------------------------------------------------------------------
(* Safety. *)

\* The provider draws at most one image for a slot, and no attempt is sent
\* twice, however many executions of the step run, die and come back, and
\* whatever gets lost between them.
AtMostOneImage ==
  /\ \A m, n \in images : m = n
  /\ \A n \in Attempts : requests[n] <= 1

\* A later attempt leaves a trace in any ledger only after the attempt before
\* it has a durable retryable failure.
AttemptsInOrder ==
  \A n \in 2..MaxAttempts :
    (call[n] # "none" \/ claim[n] # "none" \/ intent[n] \/ requests[n] > 0) =>
      result[n - 1] = "retryable"

\* An attempt whose request left for the provider, so that its image may exist,
\* is a final failure for the Coordinator only if R2 says so, or if the question
\* what became of it was turned away. A refusal to make an attempt is no such
\* excuse: it is never followed by a request of that attempt, however many
\* executions overlap.
FailureForCause ==
  \A n \in Attempts : requests[n] > 0 /\ call[n] = "final" =>
    result[n] = "final" \/ "reconcile" \in refused[n]

\* The Coordinator's ledger, the adapter's claims and R2 never contradict one
\* another: what the Coordinator retries was refused in R2, what it calls a
\* success is the committed artifact of an R2 success, what it gives up failed
\* for cause, a settled claim is its R2 result, and the provider is asked only
\* for a claimed intent.
LedgersAgree ==
  /\ FailureForCause
  /\ \A n \in Attempts :
      /\ call[n] = "retryable" => result[n] = "retryable"
      /\ call[n] = "success" => artifact = n /\ result[n] = "success"
      /\ claim[n] \in Outcomes => result[n] = claim[n]
      /\ requests[n] > 0 => intent[n] /\ claim[n] # "none" /\ call[n] # "none"

\* What docs/editorial-visual-publishing-pipeline.md:444-446 asks for, and the
\* code does not keep: a drawn image whose reconciliation was merely refused
\* stays unknown, and the run held.
FailureIsKnown ==
  \A n \in images : call[n] = "final" => result[n] = "final"

\* The same operation with nothing but its attempts and its effect.
Tries == Cardinality({n \in Attempts : requests[n] > 0})

Effect == INSTANCE SideEffect WITH
  tries   <- Tries,
  phase   <- IF \E n \in Attempts : result[n] \in {"success", "final"} THEN "closed"
             ELSE IF Tries = 0 THEN "ready"
             ELSE IF result[Tries] = "retryable" THEN "refused" ELSE "open",
  effects <- Cardinality(images)

\* Ledgers, claims, crashes and lost answers implement one external effect.
ImplementsSideEffect == Effect!Spec

==============================================================================
