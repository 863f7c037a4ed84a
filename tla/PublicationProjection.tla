------------------------ MODULE PublicationProjection ------------------------
(***************************************************************************)
(* One publication run in D1: its mutable projection row, its append-only  *)
(* event log and its action ledger, written concurrently by                *)
(*                                                                         *)
(*   - workflow executions, whose steps call                               *)
(*     applySystemPublicationTransition with a revision they captured      *)
(*     earlier and are re-executed by the step retry of the Workflow       *)
(*     runtime when their outcome is lost;                                 *)
(*   - HTTP requests of the App (retry, cancel) and the automatic resume   *)
(*     the retry route issues, which call applyPublicationAction.          *)
(*                                                                         *)
(* D1 executes a batch atomically, so each batch is one step here; every   *)
(* read a handler performs before its batch is a step of its own.          *)
(* infra/worker/src/publicationProjection.ts, migrations/0011.             *)
(***************************************************************************)
EXTENDS PublicationStates

CONSTANTS
  Requests,     \* HTTP request executions that may be in flight at once
  Workers,      \* workflow step executions that may be in flight at once
  ActionKeys,   \* idempotency keys the App chooses for its actions
  Steps,        \* the workflow's steps: [key, kind, target, same, code]
  MaxRevision,  \* bound: no new work starts at this revision
  MaxStaleness  \* bound: how many revisions behind an App request may be

\* How a step is called: which row its caller insists on before the call.
StepKinds == {"advance", "hold", "fail", "mark", "requeue", "return"}

\* What next_action/error_code say, as far as any guard tells them apart.
Codes == {"none", "unknown", "reconciled", "service_fix", "error"}

Actions == {"retry", "cancel", "resume"}

StepKeys == {s.key : s \in Steps}

\* Idempotency keys in the log: the run's own creation event, the steps',
\* the App's, and the ones the retry route derives for its automatic resume.
Keys == [id : {"run_queued"} \cup StepKeys \cup ActionKeys, auto : BOOLEAN]

PublicationAssumption ==
  /\ MaxRevision \in Nat /\ MaxStaleness \in Nat
  /\ \A s \in Steps :
       /\ s.kind \in StepKinds /\ s.target \in PUBLICATION_STATES
       /\ s.same \in BOOLEAN /\ s.code \in Codes
  /\ "run_queued" \notin StepKeys \cup ActionKeys
  /\ StepKeys \cap ActionKeys = {}
  \* A step that may stay in its state persists an artifact of a pipeline state
  \* or is the reconciliation mark of a needs_action.
  /\ \A s \in Steps : s.same =>
       \/ s.target \in SUCCESSFUL_STATES \ {"draft_ready"}
       \/ s.target = "needs_action" /\ s.code = "reconciled"
  \* Only the App cancels, and only a reconciled hold is put back to retrying.
  /\ \A s \in Steps : s.target # "cancelled" /\ (s.target = "retrying" => s.kind = "requeue")

ASSUME ConstantsOK == PublicationAssumption

VARIABLES
  run,      \* the publication_runs row
  events,   \* the publication_run_events rows
  actions,  \* the publication_run_actions rows
  request,  \* request[r]: the HTTP request execution r
  task,     \* task[w]: the workflow step execution w
  answers   \* history: the success answers ever sent

vars == <<run, events, actions, request, task, answers>>

-----------------------------------------------------------------------------
\* Payload hashes identify what is hashed: the step, or the action and the
\* revision it was asked for.
Hash == [of : {"run_queued"} \cup StepKeys \cup Actions, revision : Nat]

EventTypes == {"run_queued", "system", "action_retry", "action_cancel", "action_resume"}
ActionType(a) == CASE a = "retry" -> "action_retry" [] a = "cancel" -> "action_cancel" [] OTHER -> "action_resume"

Row == [state : PUBLICATION_STATES, revision : Nat, resume : SUCCESSFUL_STATES \cup {"none"},
        lastSuccessful : SUCCESSFUL_STATES, progress : 0..100, code : Codes,
        type : EventTypes, key : Keys, hash : Hash]

Event == [revision : Nat, state : PUBLICATION_STATES, progress : 0..100, code : Codes,
          type : EventTypes, key : Keys, hash : Hash]

Action == [action : Actions, expected : Nat, key : Keys, hash : Hash]

\* The marker columns last_event_* of a row.
Marker(row) == [type |-> row.type, key |-> row.key, hash |-> row.hash]

\* The event the batch inserts with a row.
EventOf(row) ==
  [revision |-> row.revision, state |-> row.state, progress |-> row.progress,
   code |-> row.code, type |-> row.type, key |-> row.key, hash |-> row.hash]

QueuedRow ==
  [state |-> "queued", revision |-> 0, resume |-> "none", lastSuccessful |-> "queued",
   progress |-> 0, code |-> "none", type |-> "run_queued",
   key |-> [id |-> "run_queued", auto |-> FALSE], hash |-> [of |-> "run_queued", revision |-> 0]]

-----------------------------------------------------------------------------
(* The projection derivation: projectPublicationTransition. *)

TransitionAllowed(row, target, same) ==
  \/ same /\ target = row.state
  \/ target = "retrying" /\ row.state \in {"failed", "needs_action"}
  \/ row.state = "retrying" /\ target \in {row.resume, "cancelled"}
  \/ row.state # "retrying" /\ target # "retrying"
     /\ target \in ALLOWED_PROJECTION_TRANSITIONS(row.state)

MaxProgress(a, b) == IF a >= b THEN a ELSE b

projectPublicationTransition(row, target, code, event) ==
  [state          |-> target,
   revision       |-> row.revision + 1,
   resume         |-> IF target = "retrying" THEN row.lastSuccessful ELSE "none",
   lastSuccessful |-> IF target \in SUCCESSFUL_STATES THEN target ELSE row.lastSuccessful,
   progress       |-> IF target \in SUCCESSFUL_STATES
                        THEN MaxProgress(row.progress, publicationProgress(target))
                        ELSE row.progress,
   code           |-> IF target \in ExceptionalStates THEN code ELSE "none",
   type |-> event.type, key |-> event.key, hash |-> event.hash]

\* Seeded fault: the hold is looked for under the code of its reconciliation.
ReconciledIsHeld(row) == row.state = "needs_action" /\ row.code = "reconciled"

\* needs_action whose external side effect is unknown: only the controlled
\* reconciliation may move the run.
publicationRequiresReconciliation(row) ==
  row.state = "needs_action" /\ row.code = "unknown"

-----------------------------------------------------------------------------
(* What the database itself enforces. *)

\* BEFORE UPDATE trigger publication_runs_projection_update.
UpdateAccepted(old, new) ==
  /\ new.key # old.key
  /\ new.hash # old.hash
  /\ ~(publicationRequiresReconciliation(old) /\ new.state \in {"retrying", "cancelled"})
  /\ new.revision = old.revision + 1
  /\ new.progress >= old.progress
  /\ new.state = "draft_ready" => new.progress = 100 /\ new.lastSuccessful = "draft_ready"
  /\ new.state \in SUCCESSFUL_STATES => new.lastSuccessful = new.state
  /\ TriggerTransition(old.state, old.resume, new.state)

\* Seeded fault: the event log has no UNIQUE constraints.
EventInsertUnconstrained(row, e) == e = EventOf(row)

\* UNIQUE constraints of publication_run_events and its insert trigger,
\* against the row the statement before it left.
EventInsertAccepted(row, e) ==
  /\ \A f \in events : f.revision # e.revision /\ f.key # e.key
  /\ e = EventOf(row)

\* UNIQUE constraints of publication_run_actions and its insert trigger.
ActionInsertAccepted(row, a) ==
  /\ \A b \in actions : b.key # a.key /\ b.expected # a.expected
  /\ row.revision = a.expected + 1
  /\ Marker(row) = [type |-> ActionType(a.action), key |-> a.key, hash |-> a.hash]

-----------------------------------------------------------------------------
(* Workflow steps: applySystemPublicationTransition. *)

StepMarker(s) ==
  [type |-> "system", key |-> [id |-> s.key, auto |-> FALSE],
   hash |-> [of |-> s.key, revision |-> 0]]

\* What the caller of a step requires of the row it reads.
CallerRequires(s, row) ==
  /\ s.kind = "mark"    => publicationRequiresReconciliation(row)
  /\ s.kind = "requeue" => row.state = "needs_action" /\ row.code = "reconciled"
  /\ s.kind = "return"  => row.state = "retrying" /\ row.resume = s.target

IdleTask == [pc |-> "idle"]

\* A step begins: its caller reads the row and remembers the revision.
BeginStep(w, s) ==
  /\ task[w].pc = "idle"
  /\ run.revision < MaxRevision
  /\ CallerRequires(s, run)
  /\ task' = [task EXCEPT ![w] = [pc |-> "begun", step |-> s, expected |-> run.revision]]
  /\ UNCHANGED <<run, events, actions, request, answers>>

\* The row is the step's own effect already.
IsReplay(row, s) == Marker(row) = StepMarker(s)

\* The row is the one the caller remembers and may make the transition.
StepMayProceed(t) ==
  run.revision = t.expected /\ TransitionAllowed(run, t.step.target, t.step.same)

\* applySystemPublicationTransition reads the row: a replay is answered, a
\* stale revision or a forbidden transition is rejected, otherwise the
\* projection is derived from this snapshot.
ReadForStep(w) ==
  /\ task[w].pc = "begun"
  /\ LET s == task[w].step IN
       \/ /\ IsReplay(run, s)
          /\ answers' = answers \cup
               {[key |-> StepMarker(s).key, hash |-> StepMarker(s).hash, revision |-> run.revision]}
          /\ task' = [task EXCEPT ![w] = IdleTask]
       \/ /\ ~IsReplay(run, s) /\ ~StepMayProceed(task[w])
          /\ task' = [task EXCEPT ![w] = IdleTask]
          /\ UNCHANGED answers
       \/ /\ ~IsReplay(run, s) /\ StepMayProceed(task[w])
          /\ task' = [task EXCEPT ![w] =
               [pc |-> "read", step |-> s, expected |-> task[w].expected, snapshot |-> run]]
          /\ UNCHANGED answers
  /\ UNCHANGED <<run, events, actions, request>>

StepProjection(t) ==
  projectPublicationTransition(t.snapshot, t.step.target, t.step.code, StepMarker(t.step))

\* UPDATE ... WHERE state_revision, state and every last_event_* column are
\* the ones read.
StepCasHolds(t) ==
  /\ run.revision = t.expected
  /\ run.state = t.snapshot.state
  /\ Marker(run) = Marker(t.snapshot)

\* The batch of the step commits; the answer may get lost, and the step is
\* then executed again with the same identity and the same revision.
CommitStep(w) ==
  /\ task[w].pc = "read"
  /\ StepCasHolds(task[w])
  /\ LET new == StepProjection(task[w]) IN
       /\ UpdateAccepted(run, new)
       /\ EventInsertAccepted(new, EventOf(new))
       /\ run' = new
       /\ events' = events \cup {EventOf(new)}
       /\ \/ /\ answers' = answers \cup {[key |-> new.key, hash |-> new.hash, revision |-> new.revision]}
             /\ task' = [task EXCEPT ![w] = IdleTask]
          \/ /\ UNCHANGED answers
             /\ task' = [task EXCEPT ![w] =
                  [pc |-> "begun", step |-> task[w].step, expected |-> task[w].expected]]
  /\ UNCHANGED <<actions, request>>

\* The batch changes no row, or the database aborts it. The caller gets an
\* error; the runtime executes the step again or gives the step up.
CommitStepFails(w) ==
  /\ task[w].pc = "read"
  /\ LET new == StepProjection(task[w]) IN
       ~(StepCasHolds(task[w]) /\ UpdateAccepted(run, new) /\ EventInsertAccepted(new, EventOf(new)))
  /\ \/ task' = [task EXCEPT ![w] = IdleTask]
     \/ task' = [task EXCEPT ![w] =
          [pc |-> "begun", step |-> task[w].step, expected |-> task[w].expected]]
  /\ UNCHANGED <<run, events, actions, request, answers>>

\* The execution dies between its read and its batch and is started again.
RestartStep(w) ==
  /\ task[w].pc = "read"
  /\ task' = [task EXCEPT ![w] =
       [pc |-> "begun", step |-> task[w].step, expected |-> task[w].expected]]
  /\ UNCHANGED <<run, events, actions, request, answers>>

-----------------------------------------------------------------------------
(* Actions of the App and of the retry route: applyPublicationAction. *)

IdleRequest == [pc |-> "idle"]

ActionHash(a, expected) == [of |-> a, revision |-> expected]

\* The retry route resumes a run only after its own retry, and only when the
\* event before that retry is the writing failure a service fix cures.
AutoResumeEvidence(expected) ==
  /\ \E a \in actions : a.action = "retry" /\ a.expected = expected - 1
  /\ \E e \in events : e.revision = expected - 1 /\ e.state = "failed" /\ e.code = "service_fix"

\* A request arrives. The App repeats a request it got no answer for, and may
\* ask with a revision that is no longer current. existingAction is read
\* first: a known key is answered from the ledger or refused.
Lookup(r, a, k, expected) ==
  /\ request[r].pc = "idle"
  /\ run.revision < MaxRevision
  /\ a = "resume" => AutoResumeEvidence(expected)
  /\ LET key  == [id |-> k, auto |-> a = "resume"]
         hash == ActionHash(a, expected)
     IN
       \/ \E b \in actions :
            /\ b.key = key /\ b.hash = hash
            /\ answers' = answers \cup {[key |-> key, hash |-> hash, revision |-> b.expected + 1]}
            /\ UNCHANGED request
       \/ /\ \A b \in actions : b.key # key
          /\ request' = [request EXCEPT ![r] =
               [pc |-> "looked", action |-> a, key |-> key, hash |-> hash, expected |-> expected]]
          /\ UNCHANGED answers
  /\ UNCHANGED <<run, events, actions, task>>

\* Seeded fault: a failed run is not terminal for cancel.
ActionAllowedOnFailed(row, a, expected) ==
  /\ row.revision = expected
  /\ ~publicationRequiresReconciliation(row)
  /\ a = "retry"  => row.state \in {"failed", "needs_action"}
  /\ a = "cancel" => row.state \notin {"draft_ready", "cancelled"}
  /\ a = "resume" => row.state = "retrying" /\ row.resume # "none"

\* The guards of applyPublicationAction on the row it reads.
ActionAllowed(row, a, expected) ==
  /\ row.revision = expected
  /\ ~publicationRequiresReconciliation(row)
  /\ a = "retry"  => row.state \in {"failed", "needs_action"}
  /\ a = "cancel" => row.state \notin TERMINAL_STATES
  /\ a = "resume" => row.state = "retrying" /\ row.resume # "none"

ActionTarget(row, a) ==
  CASE a = "retry" -> "retrying" [] a = "cancel" -> "cancelled" [] OTHER -> row.resume

ReadForAction(r) ==
  /\ request[r].pc = "looked"
  /\ LET q == request[r] IN
       IF /\ ActionAllowed(run, q.action, q.expected)
          /\ TransitionAllowed(run, ActionTarget(run, q.action), FALSE)
         THEN request' = [request EXCEPT ![r] =
                [pc |-> "read", action |-> q.action, key |-> q.key, hash |-> q.hash,
                 expected |-> q.expected, snapshot |-> run]]
         ELSE request' = [request EXCEPT ![r] = IdleRequest]
  /\ UNCHANGED <<run, events, actions, task, answers>>

ActionProjection(q) ==
  projectPublicationTransition(q.snapshot, ActionTarget(q.snapshot, q.action), "none",
    [type |-> ActionType(q.action), key |-> q.key, hash |-> q.hash])

ActionRow(q) == [action |-> q.action, expected |-> q.snapshot.revision, key |-> q.key, hash |-> q.hash]

\* The three statements of the batch. The UPDATE compares the revision only;
\* both INSERT ... SELECT fire whenever the row stands at the new revision,
\* whoever put it there, so only the constraints protect them.
ActionUpdates(q) == run.revision = q.snapshot.revision
RowAfterUpdate(q) == IF ActionUpdates(q) THEN ActionProjection(q) ELSE run
ActionInserts(q) == RowAfterUpdate(q).revision = ActionProjection(q).revision

EventsAfterBatch(q) == IF ActionInserts(q) THEN events \cup {EventOf(ActionProjection(q))} ELSE events
ActionsAfterBatch(q) == IF ActionInserts(q) THEN actions \cup {ActionRow(q)} ELSE actions

\* Seeded fault: the INSERTs violate no constraint.
OnlyUpdateChecked(q) == ActionUpdates(q) => UpdateAccepted(run, ActionProjection(q))

ActionBatchAccepted(q) ==
  /\ ActionUpdates(q) => UpdateAccepted(run, ActionProjection(q))
  /\ ActionInserts(q) => /\ EventInsertAccepted(RowAfterUpdate(q), EventOf(ActionProjection(q)))
                         /\ ActionInsertAccepted(RowAfterUpdate(q), ActionRow(q))

\* The batch goes through: it applies the action, or finds nothing to do.
\* The answer of an applied action may be lost.
CommitAction(r) ==
  /\ request[r].pc = "read"
  /\ LET q == request[r] IN
       /\ ActionBatchAccepted(q)
       /\ run' = RowAfterUpdate(q)
       /\ events'  = EventsAfterBatch(q)
       /\ actions' = ActionsAfterBatch(q)
       /\ IF ActionUpdates(q)
            THEN /\ request' = [request EXCEPT ![r] = IdleRequest]
                 /\ \/ answers' = answers \cup
                         {[key |-> q.key, hash |-> q.hash, revision |-> q.snapshot.revision + 1]}
                    \/ UNCHANGED answers
            ELSE /\ request' = [request EXCEPT ![r] =
                      [pc |-> "conflict", key |-> q.key, hash |-> q.hash]]
                 /\ UNCHANGED answers
  /\ UNCHANGED task

UpdateRejected(q) == ActionUpdates(q) /\ ~UpdateAccepted(run, ActionProjection(q))

\* The database aborts the batch. Only the aborts of the two INSERTs are known
\* conflicts; a rejected UPDATE is thrown to the caller.
CommitActionAborts(r) ==
  /\ request[r].pc = "read"
  /\ ~ActionBatchAccepted(request[r])
  /\ request' = [request EXCEPT ![r] =
       IF UpdateRejected(request[r]) THEN IdleRequest
       ELSE [pc |-> "conflict", key |-> request[r].key, hash |-> request[r].hash]]
  /\ UNCHANGED <<run, events, actions, task, answers>>

\* After a conflict the ledger is read again: a duplicate of this request may
\* have been the winner.
SettleConflict(r) ==
  /\ request[r].pc = "conflict"
  /\ request' = [request EXCEPT ![r] = IdleRequest]
  /\ \/ \E b \in actions :
          /\ b.key = request[r].key /\ b.hash = request[r].hash
          /\ answers' = answers \cup
               {[key |-> b.key, hash |-> b.hash, revision |-> b.expected + 1]}
     \/ /\ \A b \in actions : b.key = request[r].key => b.hash # request[r].hash
        /\ UNCHANGED answers
  /\ UNCHANGED <<run, events, actions, task>>

\* The execution dies before its batch.
DropRequest(r) ==
  /\ request[r].pc \in {"looked", "read", "conflict"}
  /\ request' = [request EXCEPT ![r] = IdleRequest]
  /\ UNCHANGED <<run, events, actions, task, answers>>

-----------------------------------------------------------------------------
\* createPublicationRun leaves the queued row and its first event.
Init ==
  /\ run = QueuedRow
  /\ events = {EventOf(QueuedRow)}
  /\ actions = {}
  /\ request = [r \in Requests |-> IdleRequest]
  /\ task = [w \in Workers |-> IdleTask]
  /\ answers = {}

StepNext(w) ==
  \/ \E s \in Steps : BeginStep(w, s)
  \/ ReadForStep(w)
  \/ CommitStep(w)
  \/ CommitStepFails(w)
  \/ RestartStep(w)

RequestNext(r) ==
  \/ \E a \in Actions, k \in ActionKeys, expected \in 0..run.revision :
       run.revision - expected <= MaxStaleness /\ Lookup(r, a, k, expected)
  \/ ReadForAction(r)
  \/ CommitAction(r)
  \/ CommitActionAborts(r)
  \/ SettleConflict(r)
  \/ DropRequest(r)

Next == (\E w \in Workers : StepNext(w)) \/ (\E r \in Requests : RequestNext(r))

Spec == Init /\ [][Next]_vars

-----------------------------------------------------------------------------
(* Types. *)

Tasks ==
  [pc : {"idle"}] \cup
  [pc : {"begun"}, step : Steps, expected : Nat] \cup
  [pc : {"read"}, step : Steps, expected : Nat, snapshot : Row]

InFlight ==
  [pc : {"idle"}] \cup
  [pc : {"looked"}, action : Actions, key : Keys, hash : Hash, expected : Nat] \cup
  [pc : {"read"}, action : Actions, key : Keys, hash : Hash, expected : Nat, snapshot : Row] \cup
  [pc : {"conflict"}, key : Keys, hash : Hash]

Answer == [key : Keys, hash : Hash, revision : Nat]

\* Every variable stays in the set of values the schema and the handlers give it.
TypeOK ==
  /\ run \in Row
  /\ events \subseteq Event
  /\ actions \subseteq Action
  /\ request \in [Requests -> InFlight]
  /\ task \in [Workers -> Tasks]
  /\ answers \subseteq Answer

-----------------------------------------------------------------------------
(* Safety. *)

\* The event log is the run's complete history: one event per revision up to
\* the row's, none beyond it, no idempotency key twice, and the last event is
\* the row's own projection. A stale batch that half-applies would break it.
LogIsComplete ==
  /\ \A n \in 0..run.revision : \E e \in events : e.revision = n
  /\ \A e \in events : e.revision \in 0..run.revision
  /\ \A e, f \in events : (e.revision = f.revision \/ e.key = f.key) => e = f
  /\ EventOf(run) \in events

\* The action ledger and the log agree: each recorded action is the event of
\* the revision after the one it was asked for, and each action event is in
\* the ledger, so that a repeated request finds it.
ActionsMatchLog ==
  /\ \A a \in actions : \E e \in events :
       /\ e.revision = a.expected + 1 /\ e.type = ActionType(a.action)
       /\ e.key = a.key /\ e.hash = a.hash
  /\ \A e \in events : e.type \notin {"run_queued", "system"} =>
       \E a \in actions : a.key = e.key /\ a.hash = e.hash /\ a.expected + 1 = e.revision

\* Row, log and ledger tell one story (applySystemPublicationTransition and
\* applyPublicationAction, whose batches insert under conditions on each other).
TablesAgree == LogIsComplete /\ ActionsMatchLog

\* A success answer tells the truth, whether it was given at once, replayed
\* from the ledger or replayed from the row: its effect is in the log, at the
\* revision the answer names.
AnswersAreDurable ==
  \A a \in answers : \E e \in events :
    e.key = a.key /\ e.hash = a.hash /\ e.revision = a.revision

\* The row condenses the log: last_successful_state is the latest successful
\* state logged, a retrying run resumes there, and the progress shown to the
\* App is the highest any logged state ever reached.
RowCondensesLog ==
  /\ \E e \in events :
       /\ e.state = run.lastSuccessful
       /\ \A f \in events : f.state \in SUCCESSFUL_STATES => f.revision <= e.revision
  /\ run.state = "retrying" => run.resume = run.lastSuccessful
  /\ \E e \in events : e.state \in SUCCESSFUL_STATES /\ publicationProgress(e.state) = run.progress
  /\ \A e \in events : e.progress <= run.progress

\* The two copies of the transition rules agree on reachable rows: whenever
\* the compare-and-set of a batch would match, the database accepts the
\* update. The handlers map this abort to no known conflict (a 503).
GuardsAgree ==
  /\ \A w \in Workers : task[w].pc = "read" /\ StepCasHolds(task[w]) =>
       UpdateAccepted(run, StepProjection(task[w]))
  /\ \A r \in Requests : request[r].pc = "read" /\ ActionUpdates(request[r]) =>
       UpdateAccepted(run, ActionProjection(request[r]))

\* A run held because an external side effect is unknown leaves the hold only
\* through the event that records the reconciliation; neither a retry, a
\* cancel nor a stale step gets past it.
HoldOnlyReconciled ==
  [][(run.state = "needs_action" /\ run.code = "unknown" /\ run' # run) =>
       (run'.state = "needs_action" /\ run'.code = "reconciled")]_vars

\* A snapshot a handler holds is a row the run had, and still has if no batch
\* committed since; what it derives from the snapshot passed its guards. This
\* is what makes the compare-and-set on the revision alone sufficient.
SnapshotsFresh ==
  /\ \A w \in Workers : task[w].pc = "read" =>
       LET t == task[w] IN
         /\ t.snapshot.revision = t.expected /\ t.snapshot.revision <= run.revision
         /\ t.snapshot.revision = run.revision => t.snapshot = run
         /\ TransitionAllowed(t.snapshot, t.step.target, t.step.same)
  /\ \A r \in Requests : request[r].pc = "read" =>
       LET q == request[r] IN
         /\ q.snapshot.revision <= run.revision
         /\ q.snapshot.revision = run.revision => q.snapshot = run
         /\ ActionAllowed(q.snapshot, q.action, q.expected)
         /\ TransitionAllowed(q.snapshot, ActionTarget(q.snapshot, q.action), FALSE)

\* The rules of a transition are written twice, in projectPublicationTransition
\* and in the triggers and constraints of migration 0011: what a handler derives
\* from its snapshot is either found stale or accepted by the database, and what
\* it leaves in the row is what the log says.
RulesAgree == SnapshotsFresh /\ GuardsAgree /\ RowCondensesLog

\* What the projection promises, as a specification of its own.
Ledger == INSTANCE PublicationLedger WITH
  status       <- run.state,
  resume       <- run.resume,
  held         <- run.state = "needs_action" /\ run.code = "unknown",
  applied      <- {e.key : e \in events},
  acknowledged <- {a.key : a \in answers}

\* Every batch is one atomic, exactly-once step of the abstract ledger.
ImplementsLedger == Ledger!Spec

==============================================================================
