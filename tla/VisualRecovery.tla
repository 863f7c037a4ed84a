---------------------------- MODULE VisualRecovery ----------------------------
(***************************************************************************)
(* The visual phase of a publication run (runVisualProductionPhase of      *)
(* infra/worker/src/fiveAgentPublishing.ts): the plan, one image per slot, *)
(* the QA report, and the two ledgers that follow them, the publication    *)
(* row in D1 and the Coordinator's run, which no transaction spans. Every  *)
(* state change is written to D1 first and to the Coordinator second.      *)
(*                                                                         *)
(* A worker is one execution of the phase. The Workflow runtime replays it *)
(* from the start after a crash, a re-entry starts it again, and two may   *)
(* be alive at once. An execution that cannot tell whether a side effect   *)
(* happened puts the run on hold; a later one reconciles it and moves both *)
(* ledgers out of the hold again.                                          *)
(*                                                                         *)
(* Positions in the phase carry the code's phase numbers: 11 and 13 start  *)
(* planning and generating, 12 is the plan, 15 and up are the slots in     *)
(* order, 20 is the QA report. VisualCalls models the calls themselves:    *)
(* here a call has no evidence, open evidence (an intent whose outcome is  *)
(* unknown), a known image, or a known failure. Reads of immutable         *)
(* artifacts succeed, and the QA report passes.                            *)
(***************************************************************************)
EXTENDS PublicationStates, FiniteSetsExt

CONSTANTS
  Workers,      \* executions of the phase alive at once
  Slots,        \* images of the plan
  StepTries,    \* executions of a durable step before it gives up (the code's 3)
  Faults,       \* what may get lost: an adapter's "answer", the Coordinator's "reply"
  CrashPoints,  \* positions of a worker where it may die
  MaxFaults,    \* bound: losses, deaths and overlaps in all
  UserActions   \* what the App may ask for: "retry", "cancel"

VisualRecoveryAssumption ==
  /\ Slots \in 1..5
  /\ StepTries \in Nat \ {0} /\ MaxFaults \in Nat
  /\ Faults \subseteq {"answer", "reply"}
  /\ UserActions \subseteq {"retry", "cancel"}

ASSUME VisualRecoveryOK == VisualRecoveryAssumption

Calls == {12} \cup 15..(14 + Slots)
Units == Calls \cup {20}

\* The state in which a unit is worked on.
Stage(u) == IF u = 12 THEN "visual_planning" ELSE "visual_generating"

VARIABLES
  run,          \* the publication_runs row in D1
  log,          \* idempotency keys of its events
  coordinator,  \* the Coordinator's run
  evidence,     \* evidence[u]: what the adapter knows of the call of unit u
  receipt,      \* receipt[u]: the Coordinator revision of u's receipt, or 0
  worker,       \* worker[w]: the execution w
  faults        \* losses, deaths and overlapping executions so far, by kind

stores == <<run, log, coordinator>>
units  == <<evidence, receipt>>
vars   == <<stores, units, worker, faults>>

FaultKinds == {"answer", "reply", "death", "overlap"}
FaultCounts ==
  {f \in [FaultKinds -> 0..MaxFaults] : f["answer"] + f["reply"] + f["death"] + f["overlap"] <= MaxFaults}

Held == run.state = "needs_action" /\ run.code = "unknown"
Cancelled == run.state = "cancelled"
Receipts == {u \in Units : receipt[u] # 0}

-----------------------------------------------------------------------------
(* D1: applySystemPublicationTransition. *)

\* projectPublicationTransition: may the row go to a state?
TransitionAllowed(target, same) ==
  IF same /\ target = run.state THEN TRUE
  ELSE IF target = "retrying" THEN run.state \in {"failed", "needs_action"}
  ELSE IF run.state = "retrying" THEN target \in {run.resume, "cancelled"}
  ELSE target \in ALLOWED_PROJECTION_TRANSITIONS(run.state)

Projected(target, code, event) ==
  [state    |-> target,
   revision |-> run.revision + 1,
   resume   |-> IF target = "retrying" THEN run.last ELSE "none",
   last     |-> IF target \in SUCCESSFUL_STATES THEN target ELSE run.last,
   code     |-> IF target \in ExceptionalStates THEN code ELSE "none",
   event    |-> event]

\* A transition t is [target, code, same, key, at, expected]. Its event is
\* known by its key and, unless it has a name of its own (at = 0), by its
\* revision.
EventOf(t) == [key |-> t.key, at |-> t.at]

IsReplay(t) == run.event = EventOf(t)

\* The caller is told that its transition is in the log.
TransitionSucceeds(t) ==
  \/ IsReplay(t) /\ UNCHANGED <<run, log>>
  \/ /\ ~IsReplay(t)
     /\ run.revision = t.expected
     /\ TransitionAllowed(t.target, t.same) /\ t.key \notin log
     /\ run' = Projected(t.target, t.code, EventOf(t))
     /\ log' = log \cup {t.key}

\* The revision moved on since the caller or the function itself read it, the
\* table has no such transition, or the event key is taken.
TransitionFails(t) ==
  /\ \/ run.revision # t.expected
     \/ ~IsReplay(t) /\ (~TransitionAllowed(t.target, t.same) \/ t.key \in log)
  /\ UNCHANGED <<run, log>>

-----------------------------------------------------------------------------
(* The Coordinator: recordFiveAgentState, completeFiveAgentVisualArtifact. *)

\* WAVE2B_TRANSITIONS, for the states of the visual phase.
WAVE2B_TRANSITIONS(s) ==
  CASE s = "content_frozen"    -> {"visual_planning", "needs_action", "failed"}
    [] s = "visual_planning"   -> {"visual_generating", "needs_action", "failed"}
    [] s = "visual_generating" -> {"visual_ready", "needs_action", "failed"}
    [] s = "visual_ready"      -> {"needs_action", "failed"}
    [] s = "needs_action"      -> {"visual_planning", "visual_generating", "visual_ready", "failed"}
    [] OTHER                   -> {}

\* Seeded fault: the last successful state is overwritten by an exception.
DerivedForgets(state, revision, code, key) ==
  [state |-> state, revision |-> revision, code |-> code, event |-> key, last |-> state]

Derived(state, revision, code, key) ==
  [state |-> state, revision |-> revision, code |-> code, event |-> key,
   last  |-> IF state \in ExceptionalStates THEN coordinator.last ELSE state]

\* recordFiveAgentState: the same revision again is a replay if the same event
\* wrote it; otherwise the revision must be the next one.
StateReplayed(state, revision, key) ==
  coordinator.revision = revision /\ coordinator.state = state /\ coordinator.event = key

StateAccepted(state, revision) ==
  /\ coordinator.revision = revision - 1
  /\ state = coordinator.state \/ state \in WAVE2B_TRANSITIONS(coordinator.state)

RecordState(state, revision, code, key) ==
  \/ StateReplayed(state, revision, key) /\ UNCHANGED coordinator
  \/ StateAccepted(state, revision) /\ coordinator' = Derived(state, revision, code, key)

\* completeFiveAgentVisualArtifact: the receipt of unit u at a revision, which
\* moves the run into the unit's stage if it is not there.
ReceiptAccepted(u, revision) ==
  /\ receipt[u] = 0
  /\ \/ coordinator.state = Stage(u) /\ coordinator.revision = revision
     \/ Stage(u) \in WAVE2B_TRANSITIONS(coordinator.state) /\ coordinator.revision = revision - 1

RecordReceipt(u, revision) ==
  \/ receipt[u] = revision /\ UNCHANGED <<receipt, coordinator>>
  \/ /\ ReceiptAccepted(u, revision)
     /\ receipt' = [receipt EXCEPT ![u] = revision]
     /\ coordinator' = IF coordinator.state = Stage(u) THEN coordinator
                       ELSE Derived(Stage(u), revision, coordinator.code, coordinator.event)

-----------------------------------------------------------------------------
(* Workers. *)

Idle == [pc |-> "idle"]
Nothing == [state |-> "none", revision |-> 0]

\* A worker at a position: what it is about to do, in which phase, which
\* execution of the durable step this is, the receipts it saw before the slot
\* loop, the unit whose reconciled answer it carries, and what it read of the
\* Coordinator and of the row.
Worker(pc, job, phase, seen, carried) ==
  [pc |-> pc, job |-> job, phase |-> phase, try |-> 1, seen |-> seen, carried |-> carried,
   co |-> Nothing, expected |-> 0, same |-> FALSE]

Become(w, state) == worker' = [worker EXCEPT ![w] = state]

\* The worker is about to write a state, or a unit's artifact.
Begins(w, job, phase) ==
  Become(w, [Worker("begin", job, phase, worker[w].seen, worker[w].carried) EXCEPT !.try = worker[w].try])

Goes(w, pc) == Become(w, Worker(pc, "none", 0, {}, worker[w].carried))

\* The loop over the slots goes on after a phase, past the receipts it saw.
NextUnit(w, phase, seen) ==
  LET u == Min({v \in Units : v > phase /\ (v \notin seen \/ v = 20)}) IN
    Become(w, Worker(IF u = 20 THEN "qa" ELSE "call", "artifact", u, seen, worker[w].carried))

\* A fault of a kind, within the bound on all of them.
Fault(kind) == faults' = [faults EXCEPT ![kind] = @ + 1] /\ faults' \in FaultCounts

\* What may get lost is lost.
Strikes(kind) == kind \in Faults /\ Fault(kind)

\* The runtime may start an execution though another one is still alive.
Starts(w) ==
  IF \A v \in Workers \ {w} : worker[v].pc = "idle" THEN UNCHANGED faults ELSE Fault("overlap")

\* An execution starts in the state the Coordinator is in.
Enter(w) ==
  /\ worker[w].pc = "idle" /\ ~Cancelled
  /\ \/ /\ coordinator.state = "content_frozen"
        /\ Become(w, Worker("begin", "visual_planning", 11, {}, 0))
     \/ /\ coordinator.state \in {"visual_planning", "visual_generating"}
        /\ Become(w, Worker("ledger", "none", 0, {}, 0))
  /\ Starts(w)
  /\ UNCHANGED <<stores, units>>

\* The plan is made unless its receipt is there.
ReadLedger(w) ==
  /\ worker[w].pc = "ledger"
  /\ IF receipt[12] = 0 THEN Become(w, Worker("call", "artifact", 12, {}, worker[w].carried))
                        ELSE Goes(w, "planned")
  /\ UNCHANGED <<stores, units, faults>>

ReadStage(w) ==
  /\ worker[w].pc = "planned"
  /\ \/ coordinator.state = "visual_planning" /\ Begins(w, "visual_generating", 13)
     \/ coordinator.state = "visual_generating" /\ Goes(w, "slots")
     \/ coordinator.state \notin {"visual_planning", "visual_generating"} /\ Become(w, Idle)
  /\ UNCHANGED <<stores, units, faults>>

ReadSlots(w) ==
  /\ worker[w].pc = "slots"
  /\ NextUnit(w, 13, Receipts)
  /\ UNCHANGED <<stores, units, faults>>

\* A durable step failed: it is executed again, and in the end the run is held
\* if the side effect is unknown and failed otherwise. QA is no such step.
StepFails(w, outcome) ==
  IF worker[w].try < StepTries /\ worker[w].phase # 20
    THEN Become(w, [Worker("call", "artifact", worker[w].phase, worker[w].seen, 0) EXCEPT
                      !.try = worker[w].try + 1])
    ELSE Begins(w, IF outcome = "unknown" THEN "needs_action" ELSE "failed", worker[w].phase)

\* runVisualAdapterCall: an answer already reconciled is used; otherwise the
\* call is made, or reconciled if it was made before.
CallSucceeds(w) ==
  /\ worker[w].pc = "call" /\ ~Cancelled
  /\ LET u == worker[w].phase IN
       /\ worker[w].carried = u \/ evidence[u] \in {"none", "known"}
       /\ evidence' = [evidence EXCEPT ![u] = "known"]
       /\ Become(w, [worker[w] EXCEPT !.pc = "begin", !.carried = 0])
  /\ UNCHANGED <<stores, receipt, faults>>

CallFails(w) ==
  /\ worker[w].pc = "call" /\ ~Cancelled /\ worker[w].carried # worker[w].phase
  /\ evidence[worker[w].phase] \in {"none", "failed"}
  /\ evidence' = [evidence EXCEPT ![worker[w].phase] = "failed"]
  /\ StepFails(w, "failed")
  /\ UNCHANGED <<stores, receipt, faults>>

CallUnknown(w) ==
  /\ worker[w].pc = "call" /\ ~Cancelled /\ worker[w].carried # worker[w].phase
  /\ LET u == worker[w].phase IN
       /\ \/ evidence[u] = "open" /\ UNCHANGED faults
          \/ evidence[u] \in {"none", "known"} /\ Strikes("answer")
       /\ evidence' = [evidence EXCEPT ![u] = IF @ = "none" THEN "open" ELSE @]
  /\ StepFails(w, "unknown")
  /\ UNCHANGED <<stores, receipt>>

\* The QA report is made unless its receipt is there.
CheckQa(w) ==
  /\ worker[w].pc = "qa" /\ ~Cancelled
  /\ Begins(w, IF 20 \in Receipts THEN "visual_ready" ELSE "artifact", 20)
  /\ UNCHANGED <<stores, units, faults>>

\* A cancellation is noticed before a call and before a forward write.
StopCancelled(w) ==
  /\ Cancelled
  /\ \/ worker[w].pc \in {"call", "qa"}
     \/ worker[w].pc = "begin" /\ worker[w].job \in {"visual_planning", "artifact", "visual_ready"}
  /\ Become(w, Idle)
  /\ UNCHANGED <<stores, units, faults>>

\* Before a write the worker reads the Coordinator's run, then the row.
ReadCoordinator(w) ==
  /\ worker[w].pc = "begin"
  /\ worker[w].job \in {"visual_generating", "failed", "needs_action"} \/ ~Cancelled
  /\ Become(w, [worker[w] EXCEPT !.pc = "project",
       !.co = [state |-> coordinator.state, revision |-> coordinator.revision]])
  /\ UNCHANGED <<stores, units, faults>>

\* A run both ledgers call ready is left alone.
AlreadyReady(w) ==
  /\ worker[w].job \in {"visual_ready", "failed", "needs_action"}
  /\ worker[w].co.state = "visual_ready" /\ run.state = "visual_ready"

ReadProjection(w) ==
  /\ worker[w].pc = "project"
  /\ Become(w, IF AlreadyReady(w) THEN Idle
               ELSE [worker[w] EXCEPT !.pc = "write", !.expected = run.revision,
                       !.same = worker[w].job = "artifact" /\ run.state = Stage(worker[w].phase)])
  /\ UNCHANGED <<stores, units, faults>>

Target(w) == IF worker[w].job = "artifact" THEN Stage(worker[w].phase) ELSE worker[w].job

Code(job) == CASE job = "needs_action" -> "unknown" [] job = "failed" -> "failed" [] OTHER -> "none"

\* Event keys are fixed per phase; only a hold's contains the revision.
KeyOf(w) == <<worker[w].job, worker[w].phase, IF worker[w].job = "needs_action" THEN worker[w].expected ELSE 0>>

TransitionOf(w) ==
  [target |-> Target(w), code |-> Code(worker[w].job), same |-> worker[w].same, key |-> KeyOf(w),
   at |-> IF worker[w].job = "artifact" THEN 0 ELSE worker[w].expected + 1,
   expected |-> worker[w].expected]

\* A write failed. A conflict over an artifact counts as an unknown side
\* effect; over a forward state as a failure; a hold or a failure that cannot
\* be written ends the execution.
WriteFails(w, outcome) ==
  CASE worker[w].job = "artifact" -> StepFails(w, outcome)
    [] worker[w].job \in {"needs_action", "failed"} -> Become(w, Idle)
    [] OTHER -> Begins(w, "failed", worker[w].phase)

\* Seeded fault: the Coordinator is told even when D1 refused.
WriteRegardless(w) ==
  /\ worker[w].pc = "write"
  /\ TransitionSucceeds(TransitionOf(w)) \/ TransitionFails(TransitionOf(w))
  /\ Become(w, [worker[w] EXCEPT !.pc = "record"])
  /\ UNCHANGED <<coordinator, units, faults>>

WriteProjection(w) ==
  /\ worker[w].pc = "write"
  /\ \/ TransitionSucceeds(TransitionOf(w)) /\ Become(w, [worker[w] EXCEPT !.pc = "record"])
     \/ TransitionFails(TransitionOf(w)) /\ WriteFails(w, "unknown")
  /\ UNCHANGED <<coordinator, units, faults>>

\* The revision of the Coordinator the write is for.
NextRevision(w) ==
  IF worker[w].job = "artifact" /\ worker[w].co.state = Target(w)
    THEN worker[w].co.revision ELSE worker[w].co.revision + 1

\* Would the Coordinator take the write?
Recordable(w) ==
  IF worker[w].job = "artifact"
    THEN receipt[worker[w].phase] = NextRevision(w) \/ ReceiptAccepted(worker[w].phase, NextRevision(w))
    ELSE StateReplayed(Target(w), NextRevision(w), KeyOf(w)) \/ StateAccepted(Target(w), NextRevision(w))

\* The Coordinator follows.
Recorded(w) ==
  IF worker[w].job = "artifact"
    THEN RecordReceipt(worker[w].phase, NextRevision(w))
    ELSE RecordState(Target(w), NextRevision(w), Code(worker[w].job), KeyOf(w)) /\ UNCHANGED receipt

\* Where the worker goes once both ledgers have the write.
Continues(w) ==
  CASE worker[w].job = "visual_planning"   -> Goes(w, "ledger")
    [] worker[w].job = "visual_generating" -> Goes(w, "slots")
    [] worker[w].job = "artifact" ->
         CASE worker[w].phase = 12 -> Goes(w, "planned")
           [] worker[w].phase = 20 -> Become(w, Worker("exact", "none", 20, worker[w].seen, 0))
           [] OTHER -> NextUnit(w, worker[w].phase, worker[w].seen)
    [] OTHER -> Become(w, Idle)

RecordSucceeds(w) ==
  /\ worker[w].pc = "record"
  /\ Recorded(w)
  /\ Continues(w)
  /\ UNCHANGED <<run, log, evidence, faults>>

\* The Coordinator refuses, or its reply gets lost, the write done or not. Its
\* error code may or may not survive the call.
RecordFails(w) ==
  /\ worker[w].pc = "record"
  /\ \/ ~Recordable(w) /\ UNCHANGED <<coordinator, receipt, faults>>
     \/ Strikes("reply") /\ (Recorded(w) \/ UNCHANGED <<coordinator, receipt>>)
  /\ \E outcome \in {"unknown", "failed"} : WriteFails(w, outcome)
  /\ UNCHANGED <<run, log, evidence>>

\* The exact set of artifacts is verified before the run becomes ready.
VerifySet(w) ==
  /\ worker[w].pc = "exact"
  /\ IF Cancelled THEN Become(w, Idle)
     ELSE Begins(w, IF Receipts = Units THEN "visual_ready" ELSE "needs_action", 20)
  /\ UNCHANGED <<stores, units, faults>>

-----------------------------------------------------------------------------
(* Re-entering a hold: resumeVisualReconciliationHold. *)

\* The unit a held run waits for: the plan, or the first slot without a receipt.
Pending(target) ==
  IF target = "visual_planning" THEN 12
  ELSE LET open == {u \in Calls \ {12} : receipt[u] = 0} IN IF open = {} THEN 20 ELSE Min(open)

Resumable(co) == co.state = "needs_action" /\ co.code = "unknown" /\ co.last \in {"visual_planning", "visual_generating"}

\* Seeded fault: an open call counts as evidence.
ReenterBlindly(w) ==
  /\ worker[w].pc = "idle" /\ ~Cancelled
  /\ Resumable(coordinator)
  /\ Become(w, [Worker("resuming", coordinator.last, 0, {}, 0)
       EXCEPT !.co = [state |-> coordinator.state, revision |-> coordinator.revision]])
  /\ Starts(w)
  /\ UNCHANGED <<stores, units>>

\* The pending call is reconciled, read-only. Without evidence of its outcome,
\* or without a call, the hold stays.
ReenterHold(w) ==
  /\ worker[w].pc = "idle" /\ ~Cancelled
  /\ Resumable(coordinator)
  /\ LET target == coordinator.last
         u == Pending(target)
     IN /\ u = 20 \/ evidence[u] \in {"known", "failed"}
        /\ Become(w, [Worker("resuming", target, 0, {}, IF u # 20 /\ evidence[u] = "known" THEN u ELSE 0)
             EXCEPT !.co = [state |-> coordinator.state, revision |-> coordinator.revision]])
  /\ Starts(w)
  /\ UNCHANGED <<stores, units>>

\* Seeded fault: a hold is marked reconciled and left at that.
ResumeStopsAtMark(row, target, marked) ==
  CASE row.state = "needs_action" /\ row.code = "unknown" /\ ~marked -> "mark"
    [] row.state = "retrying" /\ row.resume = target -> "return"
    [] row.state = target /\ row.event.key = <<"resumed", target, 0>> -> "repair"
    [] OTHER -> "idle"

\* Seeded fault: the Coordinator is not told of the resumption.
ResumeOnlyProjection(row, target, marked) ==
  CASE row.state = "needs_action" /\ row.code = (IF marked THEN "reconciled" ELSE "unknown") ->
         IF marked THEN "requeue" ELSE "mark"
    [] row.state = "retrying" /\ row.resume = target -> "return"
    [] OTHER -> "idle"

\* What the worker does about a row it read or wrote: mark a hold reconciled,
\* requeue it, return to the target, or let the Coordinator follow. Any other
\* row ends the execution.
ResumeStep(row, target, marked) ==
  CASE row.state = "needs_action" /\ row.code = (IF marked THEN "reconciled" ELSE "unknown") ->
         IF marked THEN "requeue" ELSE "mark"
    [] row.state = "retrying" /\ row.resume = target -> "return"
    [] row.state = target /\ row.event.key = <<"resumed", target, 0>> -> "repair"
    [] OTHER -> "idle"

ResumeWith(w, row, marked) ==
  LET step == ResumeStep(row, worker[w].job, marked) IN
    Become(w, IF step = "idle" THEN Idle ELSE [worker[w] EXCEPT !.pc = step, !.expected = row.revision])

ReadHold(w) ==
  /\ worker[w].pc = "resuming"
  /\ ResumeWith(w, run, FALSE)
  /\ UNCHANGED <<stores, units, faults>>

\* The three D1 events of a resumption. Their keys name only the target.
ResumeTransition(w) ==
  LET target == worker[w].job
      step == worker[w].pc
  IN [target |-> CASE step = "mark" -> "needs_action" [] step = "requeue" -> "retrying" [] OTHER -> target,
      code |-> IF step = "mark" THEN "reconciled" ELSE "none",
      same |-> step = "mark",
      key |-> <<CASE step = "mark" -> "reconciled" [] step = "requeue" -> "retrying" [] OTHER -> "resumed", target, 0>>,
      at |-> worker[w].expected + 1,
      expected |-> worker[w].expected]

ResumeProjection(w) ==
  /\ worker[w].pc \in {"mark", "requeue", "return"}
  /\ \/ TransitionSucceeds(ResumeTransition(w)) /\ ResumeWith(w, run', TRUE)
     \/ TransitionFails(ResumeTransition(w)) /\ Become(w, Idle)
  /\ UNCHANGED <<coordinator, units, faults>>

\* The Coordinator follows, and the phase goes on with the reconciled answer.
RepairCoordinator(w) ==
  /\ worker[w].pc = "repair"
  /\ LET revision == worker[w].co.revision + 1
         key == <<"resumed", worker[w].job, 0>>
     IN \/ /\ RecordState(worker[w].job, revision, "none", key)
           /\ \/ Goes(w, "ledger") /\ UNCHANGED faults
              \/ Strikes("reply") /\ Become(w, Idle)
        \/ /\ ~StateReplayed(worker[w].job, revision, key) /\ ~StateAccepted(worker[w].job, revision)
           /\ Become(w, Idle) /\ UNCHANGED <<coordinator, faults>>
        \/ Strikes("reply") /\ Become(w, Idle) /\ UNCHANGED coordinator
  /\ UNCHANGED <<run, log, units>>

-----------------------------------------------------------------------------
(* Everybody else. *)

\* A worker dies.
Crash(w) ==
  /\ worker[w].pc \in CrashPoints
  /\ Fault("death")
  /\ Become(w, Idle)
  /\ UNCHANGED <<stores, units>>

\* The adapter's result of an open call becomes readable.
EvidenceArrives(u) ==
  /\ evidence[u] = "open"
  /\ \E outcome \in {"known", "failed"} : evidence' = [evidence EXCEPT ![u] = outcome]
  /\ UNCHANGED <<stores, receipt, worker, faults>>

\* The App retries or cancels (applyPublicationAction), which only D1 learns.
UserActs(action) ==
  /\ action \in UserActions /\ ~Held
  /\ CASE action = "retry"  -> run.state \in {"failed", "needs_action"}
       [] action = "cancel" -> run.state \notin TERMINAL_STATES
  /\ run' = Projected(IF action = "retry" THEN "retrying" ELSE "cancelled", "none",
                      [key |-> <<action, 0, run.revision>>, at |-> run.revision + 1])
  /\ UNCHANGED <<log, coordinator, units, worker, faults>>

Init ==
  LET key == <<"content_frozen", 0, 0>> IN
    /\ run = [state |-> "content_frozen", revision |-> 1, resume |-> "none", last |-> "content_frozen",
              code |-> "none", event |-> [key |-> key, at |-> 1]]
    /\ log = {key}
    /\ coordinator = [state |-> "content_frozen", revision |-> 1, code |-> "none", event |-> key,
                      last |-> "content_frozen"]
    /\ evidence = [u \in Units |-> "none"]
    /\ receipt = [u \in Units |-> 0]
    /\ worker = [w \in Workers |-> Idle]
    /\ faults = [kind \in FaultKinds |-> 0]

WorkerNext(w) ==
  \/ Enter(w) \/ ReadLedger(w) \/ ReadStage(w) \/ ReadSlots(w)
  \/ CallSucceeds(w) \/ CallFails(w) \/ CallUnknown(w) \/ CheckQa(w) \/ StopCancelled(w)
  \/ ReadCoordinator(w) \/ ReadProjection(w) \/ WriteProjection(w)
  \/ RecordSucceeds(w) \/ RecordFails(w) \/ VerifySet(w)
  \/ ReenterHold(w) \/ ReadHold(w) \/ ResumeProjection(w) \/ RepairCoordinator(w)

Next ==
  \/ \E w \in Workers : WorkerNext(w) \/ Crash(w)
  \/ \E u \in Units : EvidenceArrives(u)
  \/ \E action \in {"retry", "cancel"} : UserActs(action)

Spec == Init /\ [][Next]_vars

\* Executions make progress, and a run that can be entered again is.
FairSpec == Spec /\ \A w \in Workers : WF_vars(WorkerNext(w))

-----------------------------------------------------------------------------
(* Types. *)

Keys == {"content_frozen", "visual_planning", "visual_generating", "visual_ready", "artifact", "failed",
         "needs_action", "reconciled", "retrying", "resumed", "retry", "cancel"}

\* Every variable stays in the set of values the stores and the executions give it.
TypeOK ==
  /\ run.state \in PUBLICATION_STATES /\ run.revision \in Nat /\ run.last \in SUCCESSFUL_STATES
  /\ run.resume \in SUCCESSFUL_STATES \cup {"none"}
  /\ run.code \in {"none", "unknown", "reconciled", "failed"}
  /\ run.event.key[1] \in Keys /\ \A key \in log : key[1] \in Keys
  /\ coordinator.state \in PUBLICATION_STATES /\ coordinator.revision \in Nat
  /\ coordinator.code \in {"none", "unknown", "failed"} /\ coordinator.last \in SUCCESSFUL_STATES
  /\ evidence \in [Units -> {"none", "open", "known", "failed"}]
  /\ receipt \in [Units -> Nat]
  /\ \A w \in Workers : worker[w].pc # "idle" =>
       worker[w].try \in 1..StepTries /\ worker[w].seen \subseteq Units /\ worker[w].phase \in 0..20
  /\ faults \in FaultCounts

-----------------------------------------------------------------------------
(* Safety. *)

\* The Coordinator never runs ahead of D1: what it last recorded is an event
\* of the publication log, and so is every receipt, the earlier units' first.
CoordinatorFollows ==
  /\ coordinator.event \in log
  /\ \A u \in Receipts : <<"artifact", u, 0>> \in log /\ \A v \in Units : v < u => v \in Receipts

\* The two ledgers of the phase stay in step, and hold what they are made for.
LedgersInStep == TypeOK /\ CoordinatorFollows

\* A run that became ready has the receipts of the plan, every slot and QA.
ReadyIsComplete ==
  (<<"visual_ready", 20, 0>> \in log \/ coordinator.state = "visual_ready") => Receipts = Units

\* A hold is called reconciled only when no call is left whose outcome is unknown.
NoBlindResume ==
  run.code = "reconciled" => \A u \in Units : evidence[u] # "open"

\* Nothing went wrong but lost answers of the adapter.
OnlyAnswersLost == \A kind \in FaultKinds \ {"answer"} : faults[kind] = 0

\* A run fails only for a failure: losses are held and reconciled instead.
FailsForCause ==
  run.state = "failed" => \E u \in Units : evidence[u] = "failed"

\* The two ledgers part only while an execution is at work or when the user
\* retried or cancelled.
LedgersConverge ==
  (\A w \in Workers : worker[w].pc = "idle") =>
    run.state = coordinator.state \/ run.state \in {"retrying", "cancelled"}

\* Once nobody is at work, the phase has come to an end both ledgers know of, and
\* a bad end has a failure for its cause: whatever answer was lost, and wherever.
\* A death or a lost reply between the two ledgers may fail the run, and so may
\* a second execution.
SettlesForCause == OnlyAnswersLost => FailsForCause /\ LedgersConverge

\* A run that became ready is not turned into a failure after the fact. Known
\* divergence, stated for reproduction and checked by no configuration: see README.
ReadyIsFinal == <<"visual_ready", 20, 0>> \in log => run.state # "failed"

\* The progress either ledger reports never goes back.
ProgressKept ==
  [][/\ publicationProgress(run.last) <= publicationProgress(run'.last)
     /\ publicationProgress(coordinator.last) <= publicationProgress(coordinator'.last)]_vars

\* What the phase has achieved it keeps: a ready run has every image, and
\* neither ledger goes back behind a state it reached.
DoneStaysDone == []ReadyIsComplete /\ ProgressKept

-----------------------------------------------------------------------------
(* Liveness. *)

\* The first hold in a state ends once all its calls have evidence, unless a
\* fault gets in its way. A second one stays: see README.
HoldEnds ==
  (/\ Held /\ <<"reconciled", run.last, 0>> \notin log
   /\ \A u \in Units : evidence[u] # "open")
    ~> (run.state \notin {"needs_action", "retrying"} \/ ~OnlyAnswersLost)

\* A retry the App was granted does not stay retrying. Known divergence as well.
RetryResumes == run.state = "retrying" ~> run.state # "retrying"

=============================================================================
