--------------------- MODULE PublicationProofs ---------------------
(***************************************************************************)
(* Proofs about PublicationProjection for every set of requests, workers,  *)
(* keys and steps and without any bound on the number of revisions a run   *)
(* reaches: the tables agree, and the projection is the abstract ledger.   *)
(* And proofs about WechatDraft for any number of faults and holds: D1 and *)
(* the Coordinator keep the same artifacts, the receipt being one behind;  *)
(* a run that is ready has proven what it rests on, for good; and what is  *)
(* asked of the author's account is announced, and asked once.             *)
(***************************************************************************)
EXTENDS PublicationProjection, WechatDraftInvariants, FiniteSetTheorems, TLAPS

\* The value a successful target gives the progress column is a percentage.
LEMMA ProgressIsPercentage == \A s \in PUBLICATION_STATES : publicationProgress(s) \in 0..100
BY DEF PUBLICATION_STATES, SUCCESSFUL_STATES, publicationProgress

\* The event written with a row is an event.
LEMMA EventOfRow == \A row \in Row : EventOf(row) \in Event
BY DEF Row, Event, EventOf

\* The projection of a row is a row.
LEMMA ProjectionIsRow ==
  ASSUME NEW row \in Row, NEW target \in PUBLICATION_STATES, NEW code \in Codes,
         NEW type \in EventTypes, NEW key \in Keys, NEW hash \in Hash
  PROVE  projectPublicationTransition(row, target, code, [type |-> type, key |-> key, hash |-> hash]) \in Row
<1> DEFINE new == projectPublicationTransition(row, target, code, [type |-> type, key |-> key, hash |-> hash])
<1>1. new.revision \in Nat
  BY DEF Row, projectPublicationTransition
<1>2. new.resume \in SUCCESSFUL_STATES \cup {"none"} /\ new.lastSuccessful \in SUCCESSFUL_STATES
  BY DEF Row, projectPublicationTransition
<1>3. new.progress \in 0..100
  BY ProgressIsPercentage DEF Row, projectPublicationTransition, MaxProgress
<1>4. new.code \in Codes
  BY DEF projectPublicationTransition, Codes
<1>5. QED
  BY <1>1, <1>2, <1>3, <1>4 DEF Row, projectPublicationTransition

\* A step's marker is a marker of the row.
LEMMA StepMarkerType ==
  ASSUME NEW s \in Steps
  PROVE  /\ StepMarker(s).type \in EventTypes /\ StepMarker(s).key \in Keys /\ StepMarker(s).hash \in Hash
         /\ StepMarker(s) = [type |-> StepMarker(s).type, key |-> StepMarker(s).key, hash |-> StepMarker(s).hash]
BY DEF StepMarker, EventTypes, Keys, Hash, StepKeys

\* What a step derives from a well-typed task is a row.
LEMMA StepProjectionType ==
  ASSUME NEW t \in Tasks, t.pc = "read"
  PROVE  StepProjection(t) \in Row
<1>1. t.step \in Steps /\ t.snapshot \in Row
  BY DEF Tasks
<1>2. t.step.target \in PUBLICATION_STATES /\ t.step.code \in Codes
  BY <1>1, ConstantsOK DEF PublicationAssumption
<1>3. QED
  BY <1>1, <1>2, StepMarkerType, ProjectionIsRow DEF StepProjection

\* What an action derives from a well-typed request is a row.
LEMMA ActionProjectionType ==
  ASSUME NEW q \in InFlight, q.pc = "read", q.action = "resume" => q.snapshot.resume # "none"
  PROVE  ActionProjection(q) \in Row
<1>1. q.action \in Actions /\ q.key \in Keys /\ q.hash \in Hash /\ q.snapshot \in Row
  BY DEF InFlight
<1>2. ActionTarget(q.snapshot, q.action) \in PUBLICATION_STATES
  BY <1>1 DEF ActionTarget, Actions, Row, PUBLICATION_STATES
<1>3. ActionType(q.action) \in EventTypes /\ "none" \in Codes
  BY DEF ActionType, EventTypes, Codes
<1>4. QED
  BY <1>1, <1>2, <1>3, ProjectionIsRow DEF ActionProjection

-----------------------------------------------------------------------------
(* The inductive invariant, one conjunct at a time. *)

\* The initial row is a row and its event an event.
LEMMA QueuedRowType == QueuedRow \in Row
BY DEF QueuedRow, Row, PUBLICATION_STATES, SUCCESSFUL_STATES, Codes, EventTypes, Keys, Hash

\* Every step of a workflow execution keeps the types.
LEMMA StepKeepsTypes ==
  ASSUME TypeOK, NEW worker \in Workers, StepNext(worker)
  PROVE  TypeOK'
<1>0. run \in Row /\ events \subseteq Event /\ actions \subseteq Action
      /\ request \in [Requests -> InFlight] /\ task \in [Workers -> Tasks] /\ answers \subseteq Answer
  BY DEF TypeOK
<1>1. IdleTask \in Tasks
  BY DEF IdleTask, Tasks
<1>2. \A s \in Steps, n \in Nat : [pc |-> "begun", step |-> s, expected |-> n] \in Tasks
  BY DEF Tasks
<1>3. run.revision \in Nat
  BY <1>0 DEF Row
<1>4. task[worker] \in Tasks
  BY <1>0
<1>5. ASSUME NEW s \in Steps, BeginStep(worker, s)
      PROVE  TypeOK'
  BY <1>0, <1>2, <1>3, <1>5 DEF BeginStep, TypeOK
<1>6. CASE ReadForStep(worker)
  <2>1. task[worker].step \in Steps /\ task[worker].pc = "begun"
    BY <1>4, <1>6 DEF ReadForStep, Tasks
  <2>2. [key |-> StepMarker(task[worker].step).key, hash |-> StepMarker(task[worker].step).hash,
         revision |-> run.revision] \in Answer
    BY <2>1, <1>3, StepMarkerType DEF Answer
  <2>3. [pc |-> "read", step |-> task[worker].step, expected |-> task[worker].expected, snapshot |-> run] \in Tasks
    BY <2>1, <1>0, <1>4 DEF Tasks
  <2>4. answers' \subseteq Answer
    BY <1>0, <1>6, <2>2 DEF ReadForStep
  <2>5. task' \in [Workers -> Tasks]
    BY <1>0, <1>1, <1>6, <2>3 DEF ReadForStep
  <2>6. QED
    BY <1>0, <1>6, <2>4, <2>5 DEF ReadForStep, TypeOK
<1>7. CASE CommitStep(worker)
  <2>1. task[worker].pc = "read" /\ task[worker].step \in Steps /\ task[worker].expected \in Nat
    BY <1>4, <1>7 DEF CommitStep, Tasks
  <2>2. StepProjection(task[worker]) \in Row
    BY <1>4, <2>1, StepProjectionType
  <2>3. EventOf(StepProjection(task[worker])) \in Event
    BY <2>2, EventOfRow
  <2>4. run' \in Row /\ events' \subseteq Event
    BY <1>0, <1>7, <2>2, <2>3 DEF CommitStep
  <2>5. [key |-> StepProjection(task[worker]).key, hash |-> StepProjection(task[worker]).hash,
         revision |-> StepProjection(task[worker]).revision] \in Answer
    BY <2>2 DEF Row, Answer
  <2>6. answers' \subseteq Answer
    BY <1>0, <1>7, <2>5 DEF CommitStep
  <2>7. task' \in [Workers -> Tasks]
    BY <1>0, <1>1, <1>2, <1>7, <2>1 DEF CommitStep
  <2>8. QED
    BY <1>0, <1>7, <2>4, <2>6, <2>7 DEF CommitStep, TypeOK
<1>8. CASE CommitStepFails(worker) \/ RestartStep(worker)
  <2>1. task[worker].step \in Steps /\ task[worker].expected \in Nat
    BY <1>4, <1>8 DEF CommitStepFails, RestartStep, Tasks
  <2>2. task' \in [Workers -> Tasks]
    BY <1>0, <1>1, <1>2, <1>8, <2>1 DEF CommitStepFails, RestartStep
  <2>3. QED
    BY <1>0, <1>8, <2>2 DEF CommitStepFails, RestartStep, TypeOK
<1>9. QED
  BY <1>5, <1>6, <1>7, <1>8 DEF StepNext

\* Every step of a request keeps the types; a resume request has read a
\* retrying row, which names the state it resumes.
LEMMA RequestKeepsTypes ==
  ASSUME TypeOK, SnapshotsFresh, NEW r \in Requests, RequestNext(r)
  PROVE  TypeOK'
<1>0. run \in Row /\ events \subseteq Event /\ actions \subseteq Action
      /\ request \in [Requests -> InFlight] /\ task \in [Workers -> Tasks] /\ answers \subseteq Answer
  BY DEF TypeOK
<1>1. IdleRequest \in InFlight
  BY DEF IdleRequest, InFlight
<1>2. request[r] \in InFlight
  BY <1>0
<1>3. run.revision \in Nat
  BY <1>0 DEF Row
<1>4. \A b \in actions : [key |-> b.key, hash |-> b.hash, revision |-> b.expected + 1] \in Answer
  BY <1>0 DEF Action, Answer
<1>5. ASSUME NEW a \in Actions, NEW k \in ActionKeys, NEW expected \in 0..run.revision,
             Lookup(r, a, k, expected)
      PROVE  TypeOK'
  <2> DEFINE key == [id |-> k, auto |-> a = "resume"]
             hash == ActionHash(a, expected)
  <2>1. key \in Keys
    BY DEF Keys
  <2>2. expected \in Nat /\ hash \in Hash
    BY <1>3 DEF ActionHash, Hash
  <2>3. [pc |-> "looked", action |-> a, key |-> key, hash |-> hash, expected |-> expected] \in InFlight
    BY <2>1, <2>2 DEF InFlight
  <2>4. \A b \in actions : b.key = key /\ b.hash = hash =>
          [key |-> key, hash |-> hash, revision |-> b.expected + 1] \in Answer
    BY <1>4
  <2> HIDE DEF key, hash
  <2>5. answers' \subseteq Answer
    BY <1>0, <1>5, <2>4 DEF Lookup, key, hash
  <2>6. request' \in [Requests -> InFlight]
    BY <1>0, <1>5, <2>3 DEF Lookup, key, hash
  <2>7. QED
    BY <1>0, <1>5, <2>5, <2>6 DEF Lookup, TypeOK
<1>6. CASE ReadForAction(r)
  <2>1. request[r].pc = "looked" /\ request[r].action \in Actions /\ request[r].key \in Keys
        /\ request[r].hash \in Hash /\ request[r].expected \in Nat
    BY <1>2, <1>6 DEF ReadForAction, InFlight
  <2>2. [pc |-> "read", action |-> request[r].action, key |-> request[r].key, hash |-> request[r].hash,
         expected |-> request[r].expected, snapshot |-> run] \in InFlight
    BY <1>0, <2>1 DEF InFlight
  <2>3. request' \in [Requests -> InFlight]
    BY <1>0, <1>1, <1>6, <2>2 DEF ReadForAction
  <2>4. QED
    BY <1>0, <1>6, <2>3 DEF ReadForAction, TypeOK
<1>7. CASE CommitAction(r)
  <2> DEFINE q == request[r]
  <2>1. q.pc = "read" /\ q.action \in Actions /\ q.key \in Keys /\ q.hash \in Hash
        /\ q.expected \in Nat /\ q.snapshot \in Row
    BY <1>2, <1>7 DEF CommitAction, InFlight
  <2>2. q.action = "resume" => q.snapshot.resume # "none"
    BY <2>1 DEF SnapshotsFresh, ActionAllowed
  <2>3. ActionProjection(q) \in Row
    BY <1>2, <2>1, <2>2, ActionProjectionType
  <2>4. EventOf(ActionProjection(q)) \in Event
    BY <2>3, EventOfRow
  <2>5. q.snapshot.revision \in Nat
    BY <2>1 DEF Row
  <2>6. ActionRow(q) \in Action
    BY <2>1, <2>5 DEF ActionRow, Action
  <2>7. [key |-> q.key, hash |-> q.hash, revision |-> q.snapshot.revision + 1] \in Answer
    BY <2>1, <2>5 DEF Answer
  <2>8. [pc |-> "conflict", key |-> q.key, hash |-> q.hash] \in InFlight
    BY <2>1 DEF InFlight
  <2>9. run' \in Row
    BY <1>0, <1>7, <2>3 DEF CommitAction, RowAfterUpdate
  <2>10. events' \subseteq Event /\ actions' \subseteq Action
    BY <1>0, <1>7, <2>4, <2>6 DEF CommitAction, EventsAfterBatch, ActionsAfterBatch
  <2>11. answers' \subseteq Answer
    BY <1>0, <1>7, <2>7 DEF CommitAction
  <2>12. request' \in [Requests -> InFlight]
    BY <1>0, <1>1, <1>7, <2>8 DEF CommitAction
  <2>13. QED
    BY <1>0, <1>7, <2>9, <2>10, <2>11, <2>12 DEF CommitAction, TypeOK
<1>8. CASE CommitActionAborts(r)
  <2>1. request[r].key \in Keys /\ request[r].hash \in Hash
    BY <1>2, <1>8 DEF CommitActionAborts, InFlight
  <2>2. [pc |-> "conflict", key |-> request[r].key, hash |-> request[r].hash] \in InFlight
    BY <2>1 DEF InFlight
  <2>3. request' \in [Requests -> InFlight]
    BY <1>0, <1>1, <1>8, <2>2 DEF CommitActionAborts
  <2>4. QED
    BY <1>0, <1>8, <2>3 DEF CommitActionAborts, TypeOK
<1>9. CASE SettleConflict(r) \/ DropRequest(r)
  <2>1. request' \in [Requests -> InFlight]
    BY <1>0, <1>1, <1>9 DEF SettleConflict, DropRequest
  <2>2. answers' \subseteq Answer
    BY <1>0, <1>4, <1>9 DEF SettleConflict, DropRequest
  <2>3. QED
    BY <1>0, <1>9, <2>1, <2>2 DEF SettleConflict, DropRequest, TypeOK
<1>10. QED
  BY <1>5, <1>6, <1>7, <1>8, <1>9 DEF RequestNext

\* What makes a commit a commit: the row moves one revision up and its event,
\* unused revision and unused key, joins the log.
Commits ==
  /\ UpdateAccepted(run, run')
  /\ EventInsertAccepted(run', EventOf(run'))
  /\ events' = events \cup {EventOf(run')}

\* A batch of a step that commits does so from the row it read, and logs an
\* event of type "system".
LEMMA StepEffect ==
  ASSUME TypeOK, SnapshotsFresh, NEW worker \in Workers, CommitStep(worker)
  PROVE  /\ Commits /\ task[worker].pc = "read" /\ task[worker].snapshot = run
         /\ run' = StepProjection(task[worker]) /\ run'.type = "system"
         /\ UNCHANGED <<actions, request>>
<1>1. task[worker].pc = "read" /\ task[worker] \in Tasks
  BY DEF CommitStep, TypeOK
<1>2. run' = StepProjection(task[worker]) /\ run.revision = task[worker].expected
      /\ UNCHANGED <<actions, request>>
  BY DEF CommitStep, StepCasHolds
<1>3. task[worker].snapshot = run
  BY <1>1, <1>2 DEF SnapshotsFresh
<1>4. run'.type = "system"
  BY <1>2 DEF StepProjection, projectPublicationTransition, StepMarker
<1>5. Commits
  BY <1>2 DEF CommitStep, Commits
<1>6. QED
  BY <1>1, <1>2, <1>3, <1>4, <1>5

\* A batch of an action either applies the action, from the row it read, or
\* changes nothing: a row some other batch put at the expected new revision
\* has its event in the log already, so the UNIQUE constraint aborts.
LEMMA ActionEffect ==
  ASSUME TypeOK, SnapshotsFresh, LogIsComplete, NEW r \in Requests, CommitAction(r)
  PROVE  LET q == request[r] IN
           \/ /\ UNCHANGED <<run, events, actions, answers, task>> /\ request'[r].pc = "conflict"
           \/ /\ Commits /\ q.pc = "read" /\ q.snapshot = run
              /\ run' = ActionProjection(q)
              /\ actions' = actions \cup {ActionRow(q)}
              /\ ActionInsertAccepted(run', ActionRow(q))
              /\ answers' \in {answers, answers \cup
                   {[key |-> run'.key, hash |-> run'.hash, revision |-> run'.revision]}}
              /\ request'[r].pc = "idle" /\ UNCHANGED task
<1> DEFINE q == request[r]
<1>1. q.pc = "read" /\ q \in InFlight /\ request \in [Requests -> InFlight] /\ run \in Row
  BY DEF CommitAction, TypeOK
<1>2. q.snapshot \in Row /\ q.snapshot.revision \in Nat /\ run.revision \in Nat
  BY <1>1 DEF InFlight, Row
<1>3. ActionProjection(q).revision = q.snapshot.revision + 1
      /\ ActionProjection(q).key = q.key /\ ActionProjection(q).hash = q.hash
  BY DEF ActionProjection, projectPublicationTransition
<1>4. CASE ActionUpdates(q)
  <2>1. q.snapshot = run
    BY <1>1, <1>4 DEF ActionUpdates, SnapshotsFresh
  <2>2. RowAfterUpdate(q) = ActionProjection(q) /\ ActionInserts(q)
    BY <1>4 DEF RowAfterUpdate, ActionInserts
  <2>3. run' = ActionProjection(q) /\ actions' = actions \cup {ActionRow(q)}
        /\ events' = events \cup {EventOf(ActionProjection(q))} /\ UNCHANGED task
    BY <2>2 DEF CommitAction, EventsAfterBatch, ActionsAfterBatch
  <2>4. Commits /\ ActionInsertAccepted(run', ActionRow(q))
    BY <1>4, <2>2, <2>3 DEF CommitAction, ActionBatchAccepted, Commits
  <2>5. answers' \in {answers, answers \cup
          {[key |-> run'.key, hash |-> run'.hash, revision |-> run'.revision]}}
    BY <1>3, <1>4, <2>3 DEF CommitAction
  <2>6. request'[r].pc = "idle"
    BY <1>1, <1>4 DEF CommitAction, IdleRequest
  <2>7. QED
    BY <1>1, <2>1, <2>3, <2>4, <2>5, <2>6
<1>5. CASE ~ActionUpdates(q)
  <2>1. RowAfterUpdate(q) = run
    BY <1>5 DEF RowAfterUpdate
  <2>2. ~ActionInserts(q)
    <3>1. SUFFICES ASSUME ActionInserts(q) PROVE FALSE
      OBVIOUS
    <3>2. run.revision = ActionProjection(q).revision
      BY <2>1, <3>1 DEF ActionInserts
    <3>3. EventOf(ActionProjection(q)).revision = run.revision /\ EventOf(run).revision = run.revision
      BY <3>2 DEF EventOf
    <3>4. EventInsertAccepted(run, EventOf(ActionProjection(q)))
      BY <2>1, <3>1 DEF CommitAction, ActionBatchAccepted
    <3>5. QED
      BY <3>3, <3>4 DEF EventInsertAccepted, LogIsComplete
  <2>3. UNCHANGED <<run, events, actions, answers, task>>
    BY <1>5, <2>1, <2>2 DEF CommitAction, EventsAfterBatch, ActionsAfterBatch
  <2>4. request'[r].pc = "conflict"
    BY <1>1, <1>5 DEF CommitAction
  <2>5. QED
    BY <2>3, <2>4
<1>6. QED
  BY <1>4, <1>5

\* A commit extends the log by exactly the next revision.
LEMMA CommitKeepsLog ==
  ASSUME run \in Row, run' \in Row, events \subseteq Event, LogIsComplete, Commits
  PROVE  LogIsComplete'
<1>1. run.revision \in Nat /\ run'.revision = run.revision + 1
  BY DEF Row, Commits, UpdateAccepted
<1>2. EventOf(run').revision = run'.revision /\ EventOf(run').key = run'.key
  BY DEF EventOf
<1>3. \A f \in events : f.revision # run'.revision /\ f.key # run'.key
  BY <1>2 DEF Commits, EventInsertAccepted
<1>4. events' = events \cup {EventOf(run')}
  BY DEF Commits
<1>5. ASSUME NEW n \in 0..run'.revision PROVE \E e \in events' : e.revision = n
  <2>1. CASE n = run'.revision
    BY <1>2, <1>4, <2>1
  <2>2. CASE n # run'.revision
    <3>1. n \in 0..run.revision
      BY <1>1, <1>5, <2>2
    <3>2. QED
      BY <1>4, <3>1 DEF LogIsComplete
  <2>3. QED
    BY <2>1, <2>2
<1>6. ASSUME NEW e \in events' PROVE e.revision \in 0..run'.revision
  <2>1. CASE e \in events
    BY <1>1, <2>1 DEF LogIsComplete
  <2>2. CASE e = EventOf(run')
    BY <1>1, <1>2, <2>2
  <2>3. QED
    BY <1>4, <1>6, <2>1, <2>2
<1>7. ASSUME NEW e \in events', NEW f \in events', e.revision = f.revision \/ e.key = f.key
      PROVE  e = f
  <2>1. CASE e \in events /\ f \in events
    BY <1>7, <2>1 DEF LogIsComplete
  <2>2. CASE e \notin events \/ f \notin events
    BY <1>2, <1>3, <1>4, <1>7, <2>2
  <2>3. QED
    BY <2>1, <2>2
<1>8. EventOf(run') \in events'
  BY <1>4
<1>9. QED
  BY <1>5, <1>6, <1>7, <1>8 DEF LogIsComplete

\* Snapshots stay fresh: a commit moves the row past every one of them, and a
\* handler that takes one has just read the row.
LEMMA SnapshotsStayFresh ==
  ASSUME TypeOK, SnapshotsFresh, LogIsComplete, Next
  PROVE  SnapshotsFresh'
<1> DEFINE TaskFresh(t, row) ==
             t.pc = "read" =>
               /\ t.snapshot.revision = t.expected /\ t.snapshot.revision <= row.revision
               /\ t.snapshot.revision = row.revision => t.snapshot = row
               /\ TransitionAllowed(t.snapshot, t.step.target, t.step.same)
           RequestFresh(q, row) ==
             q.pc = "read" =>
               /\ q.snapshot.revision <= row.revision
               /\ q.snapshot.revision = row.revision => q.snapshot = row
               /\ ActionAllowed(q.snapshot, q.action, q.expected)
               /\ TransitionAllowed(q.snapshot, ActionTarget(q.snapshot, q.action), FALSE)
<1>1. SnapshotsFresh <=> /\ \A worker \in Workers : TaskFresh(task[worker], run)
                         /\ \A r \in Requests : RequestFresh(request[r], run)
  BY DEF SnapshotsFresh
<1>2. SnapshotsFresh' <=> /\ \A worker \in Workers : TaskFresh(task'[worker], run')
                          /\ \A r \in Requests : RequestFresh(request'[r], run')
  BY DEF SnapshotsFresh
<1>3. /\ run \in Row /\ run.revision \in Nat
      /\ task \in [Workers -> Tasks] /\ request \in [Requests -> InFlight]
      /\ \A worker \in Workers : task[worker].pc = "read" => task[worker].snapshot.revision \in Nat
      /\ \A r \in Requests : request[r].pc = "read" => request[r].snapshot.revision \in Nat
  BY DEF TypeOK, Tasks, InFlight, Row
<1>4. ASSUME run' = run \/ run'.revision = run.revision + 1
      PROVE  /\ \A worker \in Workers : TaskFresh(task[worker], run')
             /\ \A r \in Requests : RequestFresh(request[r], run')
  <2>1. CASE run' = run
    BY <1>1, <2>1
  <2>2. CASE run'.revision = run.revision + 1
    <3>1. \A n \in Nat : n <= run.revision => n <= run'.revision /\ n # run'.revision
      BY <1>3, <2>2
    <3>2. \A worker \in Workers : TaskFresh(task[worker], run')
      BY <1>1, <1>3, <3>1
    <3>3. \A r \in Requests : RequestFresh(request[r], run')
      BY <1>1, <1>3, <3>1
    <3>4. QED
      BY <3>2, <3>3
  <2>3. QED
    BY <1>4, <2>1, <2>2
<1> HIDE DEF TaskFresh, RequestFresh
<1>5. ASSUME NEW worker \in Workers, StepNext(worker)
      PROVE  SnapshotsFresh'
  <2>1. run' = run \/ run'.revision = run.revision + 1
    BY <1>5, StepEffect DEF StepNext, BeginStep, ReadForStep, CommitStepFails, RestartStep,
                            Commits, UpdateAccepted
  <2>2. request' = request /\ \A v \in Workers : v # worker => task'[v] = task[v]
    BY <1>3, <1>5 DEF StepNext, BeginStep, ReadForStep, CommitStep, CommitStepFails, RestartStep
  <2>3. TaskFresh(task'[worker], run')
    <3>1. CASE ReadForStep(worker)
      BY <1>3, <3>1 DEF ReadForStep, StepMayProceed, IdleTask, TaskFresh
    <3>2. CASE ~ReadForStep(worker)
      <4>1. task'[worker].pc # "read"
        BY <1>3, <1>5, <3>2 DEF StepNext, BeginStep, CommitStep, CommitStepFails, RestartStep, IdleTask
      <4>2. QED
        BY <4>1 DEF TaskFresh
    <3>3. QED
      BY <3>1, <3>2
  <2>4. QED
    BY <1>2, <1>4, <2>1, <2>2, <2>3
<1>6. ASSUME NEW r \in Requests, RequestNext(r)
      PROVE  SnapshotsFresh'
  <2>1. run' = run \/ run'.revision = run.revision + 1
    BY <1>6, ActionEffect DEF RequestNext, Lookup, ReadForAction, CommitActionAborts, SettleConflict,
                              DropRequest, Commits, UpdateAccepted
  <2>2. task' = task /\ \A o \in Requests : o # r => request'[o] = request[o]
    BY <1>3, <1>6 DEF RequestNext, Lookup, ReadForAction, CommitAction, CommitActionAborts,
                      SettleConflict, DropRequest
  <2>3. RequestFresh(request'[r], run')
    <3>1. CASE ReadForAction(r)
      <4> DEFINE q == request[r]
                 Guards == /\ ActionAllowed(run, q.action, q.expected)
                           /\ TransitionAllowed(run, ActionTarget(run, q.action), FALSE)
                 seen == [pc |-> "read", action |-> q.action, key |-> q.key, hash |-> q.hash,
                          expected |-> q.expected, snapshot |-> run]
      <4>1. run' = run /\ request' = [request EXCEPT ![r] = IF Guards THEN seen ELSE IdleRequest]
        BY <3>1 DEF ReadForAction
      <4>2. request'[r] = IF Guards THEN seen ELSE IdleRequest
        BY <1>3, <4>1
      <4>3. CASE Guards
        <5>1. request'[r] = seen
          BY <4>2, <4>3
        <5>2. RequestFresh(seen, run)
          BY <1>3, <4>3 DEF RequestFresh, ActionAllowed, TransitionAllowed
        <5> HIDE DEF seen
        <5>3. QED
          BY <4>1, <5>1, <5>2
      <4>4. CASE ~Guards
        <5> HIDE DEF Guards
        <5>1. request'[r].pc = "idle"
          BY <4>2, <4>4 DEF IdleRequest
        <5>2. QED
          BY <5>1 DEF RequestFresh
      <4>5. QED
        BY <4>3, <4>4
    <3>2. CASE \E a \in Actions, k \in ActionKeys, expected \in 0..run.revision : Lookup(r, a, k, expected)
      <4>1. request'[r].pc # "read"
        BY <1>3, <3>2 DEF Lookup, IdleRequest
      <4>2. QED
        BY <4>1 DEF RequestFresh
    <3>3. CASE CommitAction(r) \/ CommitActionAborts(r) \/ SettleConflict(r) \/ DropRequest(r)
      <4>1. request'[r].pc # "read"
        BY <1>3, <3>3 DEF CommitAction, CommitActionAborts, SettleConflict, DropRequest, IdleRequest
      <4>2. QED
        BY <4>1 DEF RequestFresh
    <3>4. QED
      BY <1>6, <3>1, <3>2, <3>3 DEF RequestNext
  <2>4. QED
    BY <1>2, <1>4, <2>1, <2>2, <2>3
<1>7. QED
  BY <1>5, <1>6 DEF Next

\* The log stays complete.
LEMMA LogStaysComplete ==
  ASSUME TypeOK, TypeOK', SnapshotsFresh, LogIsComplete, Next
  PROVE  LogIsComplete'
<1>1. run \in Row /\ run' \in Row /\ events \subseteq Event
  BY DEF TypeOK
<1>2. CASE UNCHANGED <<run, events>>
  BY <1>2 DEF LogIsComplete
<1>3. CASE Commits
  BY <1>1, <1>3, CommitKeepsLog
<1>4. ASSUME NEW worker \in Workers, StepNext(worker) PROVE UNCHANGED <<run, events>> \/ Commits
  BY <1>4, StepEffect DEF StepNext, BeginStep, ReadForStep, CommitStepFails, RestartStep
<1>5. ASSUME NEW r \in Requests, RequestNext(r) PROVE UNCHANGED <<run, events>> \/ Commits
  BY <1>5, ActionEffect DEF RequestNext, Lookup, ReadForAction, CommitActionAborts,
                            SettleConflict, DropRequest
<1>6. QED
  BY <1>2, <1>3, <1>4, <1>5 DEF Next

\* The action ledger and the log stay in agreement.
LEMMA ActionsStayMatched ==
  ASSUME TypeOK, SnapshotsFresh, LogIsComplete, ActionsMatchLog, Next
  PROVE  ActionsMatchLog'
<1>1. CASE UNCHANGED <<events, actions>>
  BY <1>1 DEF ActionsMatchLog
<1>2. ASSUME NEW worker \in Workers, StepNext(worker) PROVE ActionsMatchLog'
  <2>1. CASE CommitStep(worker)
    <3>1. events' = events \cup {EventOf(run')} /\ UNCHANGED actions /\ EventOf(run').type = "system"
      BY <2>1, StepEffect DEF Commits, EventOf
    <3>2. QED
      BY <3>1 DEF ActionsMatchLog
  <2>2. CASE ~CommitStep(worker)
    BY <1>1, <1>2, <2>2 DEF StepNext, BeginStep, ReadForStep, CommitStepFails, RestartStep
  <2>3. QED
    BY <2>1, <2>2
<1>3. ASSUME NEW r \in Requests, RequestNext(r) PROVE ActionsMatchLog'
  <2>1. CASE CommitAction(r)
    <3>1. CASE UNCHANGED <<events, actions>>
      BY <1>1, <3>1
    <3>2. CASE /\ Commits /\ actions' = actions \cup {ActionRow(request[r])}
               /\ ActionInsertAccepted(run', ActionRow(request[r]))
      <4> DEFINE a == ActionRow(request[r])
                 e == EventOf(run')
      <4>1. events' = events \cup {e} /\ actions' = actions \cup {a}
        BY <3>2 DEF Commits
      <4>2. e.revision = a.expected + 1 /\ e.type = ActionType(a.action) /\ e.key = a.key /\ e.hash = a.hash
        BY <3>2 DEF ActionInsertAccepted, Marker, EventOf
      <4> HIDE DEF a, e
      <4>3. QED
        BY <4>1, <4>2 DEF ActionsMatchLog
    <3>3. QED
      BY <2>1, <3>1, <3>2, ActionEffect
  <2>2. CASE ~CommitAction(r)
    BY <1>1, <1>3, <2>2 DEF RequestNext, Lookup, ReadForAction, CommitActionAborts, SettleConflict, DropRequest
  <2>3. QED
    BY <2>1, <2>2
<1>4. QED
  BY <1>2, <1>3 DEF Next

\* Every answer given is about an event in the log.
LEMMA AnswersStayDurable ==
  ASSUME TypeOK, SnapshotsFresh, LogIsComplete, ActionsMatchLog, AnswersAreDurable, Next
  PROVE  AnswersAreDurable'
<1> DEFINE Logged(a) == \E e \in events' : e.key = a.key /\ e.hash = a.hash /\ e.revision = a.revision
           OfRow(row) == [key |-> row.key, hash |-> row.hash, revision |-> row.revision]
<1>1. events \subseteq events'
  <2>1. ASSUME NEW worker \in Workers, StepNext(worker) PROVE events \subseteq events'
    BY <2>1 DEF StepNext, BeginStep, ReadForStep, CommitStep, CommitStepFails, RestartStep
  <2>2. ASSUME NEW r \in Requests, RequestNext(r) PROVE events \subseteq events'
    BY <2>2 DEF RequestNext, Lookup, ReadForAction, CommitAction, CommitActionAborts,
                SettleConflict, DropRequest, EventsAfterBatch
  <2>3. QED
    BY <2>1, <2>2 DEF Next
<1>2. \A a \in answers : Logged(a)
  BY <1>1 DEF AnswersAreDurable
<1>3. Logged(OfRow(run))
  BY <1>1 DEF LogIsComplete, EventOf
<1>4. \A b \in actions : Logged([key |-> b.key, hash |-> b.hash, revision |-> b.expected + 1])
  BY <1>1 DEF ActionsMatchLog
<1>5. Commits => Logged(OfRow(run'))
  BY DEF Commits, EventOf
<1>6. ASSUME NEW worker \in Workers, StepNext(worker), NEW a \in answers' PROVE Logged(a)
  <2>1. CASE ReadForStep(worker)
    <3>1. CASE a \in answers
      BY <1>2, <3>1
    <3>2. CASE a \notin answers
      <4>1. IsReplay(run, task[worker].step)
            /\ a = [key |-> StepMarker(task[worker].step).key, hash |-> StepMarker(task[worker].step).hash,
                    revision |-> run.revision]
        BY <1>6, <2>1, <3>2 DEF ReadForStep
      <4>2. a = OfRow(run)
        BY <4>1 DEF IsReplay, Marker, StepMarker
      <4>3. QED
        BY <1>3, <4>2
    <3>3. QED
      BY <3>1, <3>2
  <2>2. CASE CommitStep(worker)
    <3>1. Commits /\ run' = StepProjection(task[worker])
      BY <2>2, StepEffect
    <3>2. a \in answers \/ a = OfRow(run')
      BY <1>6, <2>2, <3>1 DEF CommitStep
    <3>3. QED
      BY <1>2, <1>5, <3>1, <3>2
  <2>3. CASE ~ReadForStep(worker) /\ ~CommitStep(worker)
    BY <1>2, <1>6, <2>3 DEF StepNext, BeginStep, CommitStepFails, RestartStep
  <2>4. QED
    BY <2>1, <2>2, <2>3
<1>7. ASSUME NEW r \in Requests, RequestNext(r), NEW a \in answers' PROVE Logged(a)
  <2>1. CASE a \in answers
    BY <1>2, <2>1
  <2>2. CASE CommitAction(r) /\ a \notin answers
    <3>1. Commits /\ a = OfRow(run')
      BY <1>7, <2>2, ActionEffect
    <3>2. QED
      BY <1>5, <3>1
  <2>3. CASE ~CommitAction(r) /\ a \notin answers
    <3>1. \E b \in actions : a = [key |-> b.key, hash |-> b.hash, revision |-> b.expected + 1]
      BY <1>7, <2>3 DEF RequestNext, Lookup, ReadForAction, CommitActionAborts, SettleConflict, DropRequest
    <3>2. QED
      BY <1>4, <3>1
  <2>4. QED
    BY <2>1, <2>2, <2>3
<1> HIDE DEF Logged
<1>8. \A a \in answers' : Logged(a)
  BY <1>6, <1>7 DEF Next
<1>9. QED
  BY <1>8 DEF AnswersAreDurable, Logged

-----------------------------------------------------------------------------
(* The rules written twice: the handlers' and the database's.              *)

\* What the trigger accepts covers what the table allows, save that the table
\* lets a failed run be cancelled, which no handler asks for.
LEMMA TriggerCoversTable ==
  ASSUME NEW from \in PUBLICATION_STATES, NEW to, NEW resume, to \in ALLOWED_PROJECTION_TRANSITIONS(from),
         to # "retrying", ~(from = "failed" /\ to = "cancelled")
  PROVE  TriggerTransition(from, resume, to)
<1>1. CASE from \in {"draft_ready", "cancelled", "retrying"}
  BY <1>1 DEF ALLOWED_PROJECTION_TRANSITIONS, NotHoldable
<1>2. CASE from \in {"needs_action", "failed"}
  <2>1. to \in {"retrying", "cancelled"}
    BY <1>2 DEF ALLOWED_PROJECTION_TRANSITIONS, NotHoldable
  <2>2. QED
    BY <1>2, <2>1 DEF TriggerTransition, TERMINAL_STATES
<1>3. CASE from \notin {"draft_ready", "cancelled", "retrying", "needs_action", "failed"}
  <2>1. from \in SUCCESSFUL_STATES \ {"draft_ready"} /\ from \notin TERMINAL_STATES
    BY <1>3 DEF PUBLICATION_STATES, TERMINAL_STATES
  <2>2. to \in PipelineSuccessors(from) \cup {"needs_action", "failed", "cancelled"}
    BY <1>3 DEF ALLOWED_PROJECTION_TRANSITIONS, NotHoldable
  <2>3. QED
    BY <2>1, <2>2 DEF TriggerTransition
<1>4. QED
  BY <1>1, <1>2, <1>3

\* The database accepts what a handler derives from a row, given a new marker, a
\* transition its table allows and no way around a hold or a failure.
LEMMA ProjectionAccepted ==
  ASSUME NEW row \in Row, NEW target \in PUBLICATION_STATES, NEW code, NEW event, NEW same,
         event.key # row.key, event.hash # row.hash, TransitionAllowed(row, target, same),
         publicationRequiresReconciliation(row) => target \notin {"retrying", "cancelled"},
         target = "cancelled" => row.state # "failed"
  PROVE  UpdateAccepted(row, projectPublicationTransition(row, target, code, event))
<1> DEFINE new == projectPublicationTransition(row, target, code, event)
<1>1. /\ new.state = target /\ new.revision = row.revision + 1 /\ new.key = event.key /\ new.hash = event.hash
      /\ target \in SUCCESSFUL_STATES => new.lastSuccessful = target
      /\ new.progress = IF target \in SUCCESSFUL_STATES THEN MaxProgress(row.progress, publicationProgress(target))
                        ELSE row.progress
  BY DEF projectPublicationTransition
<1>2. row.progress \in 0..100 /\ publicationProgress(target) \in 0..100 /\ row.state \in PUBLICATION_STATES
  BY ProgressIsPercentage DEF Row
<1>3. new.progress >= row.progress
  BY <1>1, <1>2 DEF MaxProgress
<1>4. target = "draft_ready" => new.progress = 100 /\ new.lastSuccessful = "draft_ready"
  <2>1. "draft_ready" \in SUCCESSFUL_STATES /\ publicationProgress("draft_ready") = 100
    BY DEF SUCCESSFUL_STATES, publicationProgress
  <2>2. QED
    BY <1>1, <1>2, <2>1 DEF MaxProgress
<1>5. TriggerTransition(row.state, row.resume, target)
  <2>1. CASE same /\ target = row.state
    BY <2>1 DEF TriggerTransition
  <2>2. CASE target = "retrying" /\ row.state \in {"failed", "needs_action"}
    BY <2>2 DEF TriggerTransition
  <2>3. CASE row.state = "retrying" /\ target \in {row.resume, "cancelled"}
    BY <2>3 DEF TriggerTransition, TERMINAL_STATES
  <2>4. CASE row.state # "retrying" /\ target # "retrying" /\ target \in ALLOWED_PROJECTION_TRANSITIONS(row.state)
    BY <1>2, <2>4, TriggerCoversTable
  <2>5. QED
    BY <2>1, <2>2, <2>3, <2>4 DEF TransitionAllowed
<1> HIDE DEF new
<1>6. QED
  BY <1>1, <1>3, <1>4, <1>5 DEF UpdateAccepted, new

\* Who put the row where it is: nobody yet, a step, or an action asked for at
\* the revision before. The only action a new run allows is its cancellation.
MarkerIdentifies ==
  \/ run = QueuedRow
  \/ run.revision > 0 /\ \E s \in Steps : Marker(run) = StepMarker(s)
  \/ /\ run.revision > 0
     /\ \E a \in Actions : run.type = ActionType(a) /\ run.hash = ActionHash(a, run.revision - 1)
     /\ run.key.id \in ActionKeys
     /\ run.revision = 1 => run.state = "cancelled"

\* What a step and a request were sure of when they began still holds while the
\* row is at the revision they remember; a read row is not the step's effect.
TaskKnows(t) ==
  /\ t.pc \in {"begun", "read"} =>
       t.expected <= run.revision /\ (t.expected = run.revision => CallerRequires(t.step, run))
  /\ t.pc = "read" => ~IsReplay(t.snapshot, t.step)

RequestKnows(q) ==
  q.pc \in {"looked", "read"} =>
    /\ q.key.id \in ActionKeys /\ q.hash = ActionHash(q.action, q.expected) /\ q.expected <= run.revision
    /\ q.expected = run.revision => \A b \in actions : b.key # q.key

HandlersKnow == (\A worker \in Workers : TaskKnows(task[worker])) /\ (\A r \in Requests : RequestKnows(request[r]))

\* A step knows what it read until a commit passes it by.
LEMMA KnowledgeKept ==
  ASSUME TypeOK, HandlersKnow,
         (run' = run /\ actions' = actions) \/ run'.revision = run.revision + 1
  PROVE  /\ \A worker \in Workers : task'[worker] = task[worker] => TaskKnows(task[worker])'
         /\ \A r \in Requests : request'[r] = request[r] => RequestKnows(request[r])'
<1>1. /\ run.revision \in Nat
      /\ \A worker \in Workers : task[worker].pc \in {"begun", "read"} => task[worker].expected \in Nat
      /\ \A r \in Requests : request[r].pc \in {"looked", "read"} => request[r].expected \in Nat
  BY DEF TypeOK, Row, Tasks, InFlight
<1>2. CASE run' = run /\ actions' = actions
  BY <1>2 DEF HandlersKnow, TaskKnows, RequestKnows
<1>3. CASE run'.revision = run.revision + 1
  <2>1. \A n \in Nat : n <= run.revision => n <= run'.revision /\ n # run'.revision
    BY <1>1, <1>3
  <2>2. QED
    BY <1>1, <2>1 DEF HandlersKnow, TaskKnows, RequestKnows
<1>4. QED
  BY <1>2, <1>3

\* What the handlers know stays true.
LEMMA HandlersStayKnowing ==
  ASSUME TypeOK, SnapshotsFresh, LogIsComplete, HandlersKnow, Next
  PROVE  HandlersKnow'
<1>1. /\ run.revision \in Nat /\ task \in [Workers -> Tasks] /\ request \in [Requests -> InFlight]
      /\ \A worker \in Workers : TaskKnows(task[worker])
      /\ \A r \in Requests : RequestKnows(request[r])
  BY DEF TypeOK, Row, HandlersKnow
<1>2. ASSUME NEW worker \in Workers, StepNext(worker)
      PROVE  HandlersKnow'
  <2>1. (run' = run /\ actions' = actions) \/ run'.revision = run.revision + 1
    BY <1>2, StepEffect DEF StepNext, BeginStep, ReadForStep, CommitStepFails, RestartStep, Commits, UpdateAccepted
  <2>2. request' = request /\ \A v \in Workers : v # worker => task'[v] = task[v]
    BY <1>1, <1>2 DEF StepNext, BeginStep, ReadForStep, CommitStep, CommitStepFails, RestartStep
  <2>3. TaskKnows(task[worker])'
    <3>1. ASSUME NEW s \in Steps, BeginStep(worker, s)
          PROVE  TaskKnows(task[worker])'
      <4>1. task'[worker] = [pc |-> "begun", step |-> s, expected |-> run.revision] /\ run' = run /\ CallerRequires(s, run)
        BY <1>1, <3>1 DEF BeginStep
      <4>2. QED
        BY <1>1, <4>1 DEF TaskKnows
    <3>2. CASE ReadForStep(worker)
      <4>1. task'[worker].pc = "read" => /\ task'[worker].step = task[worker].step /\ task'[worker].expected = task[worker].expected
                                    /\ task'[worker].snapshot = run /\ ~IsReplay(run, task[worker].step)
        BY <1>1, <3>2 DEF ReadForStep, IdleTask
      <4>2. task'[worker].pc \in {"idle", "read"} /\ task[worker].pc = "begun" /\ run' = run
        BY <1>1, <3>2 DEF ReadForStep, IdleTask
      <4>3. QED
        BY <1>1, <4>1, <4>2 DEF TaskKnows
    <3>3. CASE CommitStep(worker) \/ CommitStepFails(worker) \/ RestartStep(worker)
      <4>1. /\ task'[worker].pc \in {"idle", "begun"} /\ task[worker].pc = "read"
            /\ task'[worker].pc = "begun" => task'[worker].step = task[worker].step /\ task'[worker].expected = task[worker].expected
        BY <1>1, <3>3 DEF CommitStep, CommitStepFails, RestartStep, IdleTask
      <4>2. task[worker].expected \in Nat
        BY <1>1, <4>1 DEF Tasks
      <4>3. CASE run' = run
        BY <1>1, <4>1, <4>3 DEF TaskKnows
      <4>4. CASE run'.revision = run.revision + 1
        <5>1. task[worker].expected <= run'.revision /\ task[worker].expected # run'.revision
          BY <1>1, <4>1, <4>2, <4>4 DEF TaskKnows
        <5>2. QED
          BY <4>1, <5>1 DEF TaskKnows
      <4>5. QED
        BY <2>1, <4>3, <4>4
    <3>4. QED
      BY <1>2, <3>1, <3>2, <3>3 DEF StepNext
  <2>4. QED
    BY <2>1, <2>2, <2>3, KnowledgeKept DEF HandlersKnow
<1>3. ASSUME NEW r \in Requests, RequestNext(r)
      PROVE  HandlersKnow'
  <2>1. (run' = run /\ actions' = actions) \/ run'.revision = run.revision + 1
    BY <1>3, ActionEffect DEF RequestNext, Lookup, ReadForAction, CommitActionAborts, SettleConflict, DropRequest,
                              Commits, UpdateAccepted
  <2>2. task' = task /\ \A o \in Requests : o # r => request'[o] = request[o]
    BY <1>1, <1>3 DEF RequestNext, Lookup, ReadForAction, CommitAction, CommitActionAborts, SettleConflict, DropRequest
  <2>3. RequestKnows(request[r])'
    <3>1. ASSUME NEW a \in Actions, NEW k \in ActionKeys, NEW expected \in 0..run.revision, Lookup(r, a, k, expected)
          PROVE  RequestKnows(request[r])'
      <4> DEFINE key == [id |-> k, auto |-> a = "resume"]
      <4>1. run' = run /\ actions' = actions /\ key.id = k /\ expected <= run.revision
        BY <1>1, <3>1 DEF Lookup
      <4>2. CASE request' = request
        BY <1>1, <4>1, <4>2 DEF RequestKnows
      <4>3. CASE request' # request
        <5>1. /\ \A b \in actions : b.key # key
              /\ request'[r] = [pc |-> "looked", action |-> a, key |-> key, hash |-> ActionHash(a, expected),
                                expected |-> expected]
          BY <1>1, <3>1, <4>3 DEF Lookup
        <5> HIDE DEF key
        <5>2. QED
          BY <4>1, <5>1 DEF RequestKnows
      <4>4. QED
        BY <4>2, <4>3
    <3>2. CASE ReadForAction(r)
      <4>1. /\ request[r].pc = "looked" /\ request'[r].pc \in {"idle", "read"} /\ run' = run /\ actions' = actions
            /\ request'[r].pc = "read" =>
                 /\ request'[r].action = request[r].action /\ request'[r].key = request[r].key
                 /\ request'[r].hash = request[r].hash /\ request'[r].expected = request[r].expected
        <5> DEFINE Guards == /\ ActionAllowed(run, request[r].action, request[r].expected)
                             /\ TransitionAllowed(run, ActionTarget(run, request[r].action), FALSE)
                   seen == [pc |-> "read", action |-> request[r].action, key |-> request[r].key,
                            hash |-> request[r].hash, expected |-> request[r].expected, snapshot |-> run]
        <5>1. request'[r] = IF Guards THEN seen ELSE IdleRequest
          BY <1>1, <3>2 DEF ReadForAction
        <5> HIDE DEF Guards
        <5>2. QED
          BY <3>2, <5>1 DEF ReadForAction, IdleRequest
      <4>2. QED
        BY <1>1, <4>1 DEF RequestKnows
    <3>3. CASE CommitAction(r) \/ CommitActionAborts(r) \/ SettleConflict(r) \/ DropRequest(r)
      <4>1. request'[r].pc \in {"idle", "conflict"}
        BY <1>1, <3>3 DEF CommitAction, CommitActionAborts, SettleConflict, DropRequest, IdleRequest
      <4>2. QED
        BY <4>1 DEF RequestKnows
    <3>4. QED
      BY <1>3, <3>1, <3>2, <3>3 DEF RequestNext
  <2>4. QED
    BY <2>1, <2>2, <2>3, KnowledgeKept DEF HandlersKnow
<1>4. QED
  BY <1>2, <1>3 DEF Next

\* What a commit leaves in the row tells who committed.
LEMMA MarkerStaysIdentified ==
  ASSUME TypeOK, SnapshotsFresh, LogIsComplete, MarkerIdentifies, HandlersKnow, Next
  PROVE  MarkerIdentifies'
<1>1. run.revision \in Nat
  BY DEF TypeOK, Row
<1>2. CASE run' = run
  BY <1>2 DEF MarkerIdentifies, Marker
<1>3. ASSUME NEW worker \in Workers, CommitStep(worker)
      PROVE  MarkerIdentifies'
  <2>1. run' = StepProjection(task[worker]) /\ run'.revision = run.revision + 1 /\ task[worker].pc = "read"
    BY <1>3, StepEffect DEF Commits, UpdateAccepted
  <2>2. task[worker].step \in Steps
    BY <2>1 DEF TypeOK, Tasks
  <2>3. Marker(run') = StepMarker(task[worker].step)
    BY <2>1 DEF StepProjection, projectPublicationTransition, Marker, StepMarker
  <2>4. QED
    BY <1>1, <2>1, <2>2, <2>3 DEF MarkerIdentifies, Marker
<1>4. ASSUME NEW r \in Requests, CommitAction(r), run' # run
      PROVE  MarkerIdentifies'
  <2> DEFINE q == request[r]
  <2>1. run' = ActionProjection(q) /\ run'.revision = run.revision + 1 /\ q.pc = "read" /\ q.snapshot = run
    BY <1>4, ActionEffect DEF Commits, UpdateAccepted
  <2>2. q.action \in Actions /\ q.expected = run.revision /\ ActionAllowed(run, q.action, q.expected)
        /\ q.hash = ActionHash(q.action, q.expected) /\ q.key.id \in ActionKeys
    BY <2>1 DEF TypeOK, InFlight, SnapshotsFresh, ActionAllowed, HandlersKnow, RequestKnows
  <2>3. run'.type = ActionType(q.action) /\ run'.key = q.key /\ run'.hash = q.hash
        /\ run'.state = ActionTarget(run, q.action)
    BY <2>1 DEF ActionProjection, projectPublicationTransition
  <2>4. run'.revision - 1 = run.revision
    BY <1>1, <2>1
  <2>5. run.revision = 0 => run'.state = "cancelled"
    <3>1. run.revision = 0 => run = QueuedRow
      BY DEF MarkerIdentifies
    <3>2. run = QueuedRow => q.action = "cancel"
      BY <2>2 DEF QueuedRow, ActionAllowed, Actions
    <3>3. QED
      BY <2>3, <3>1, <3>2 DEF ActionTarget
  <2>6. QED
    BY <1>1, <2>1, <2>2, <2>3, <2>4, <2>5 DEF MarkerIdentifies
<1>5. ASSUME NEW worker \in Workers, StepNext(worker), run' # run
      PROVE  CommitStep(worker)
  BY <1>5 DEF StepNext, BeginStep, ReadForStep, CommitStepFails, RestartStep
<1>6. ASSUME NEW r \in Requests, RequestNext(r), run' # run
      PROVE  CommitAction(r)
  BY <1>6 DEF RequestNext, Lookup, ReadForAction, CommitActionAborts, SettleConflict, DropRequest
<1>7. QED
  BY <1>2, <1>3, <1>4, <1>5, <1>6 DEF Next

\* Every commit is the projection of the row it finds.
LEMMA CommitsProject ==
  ASSUME TypeOK, SnapshotsFresh, LogIsComplete, Next, run' # run \/ events' # events
  PROVE  /\ Commits
         /\ \E target, code, event : run' = projectPublicationTransition(run, target, code, event)
<1>1. ASSUME NEW worker \in Workers, CommitStep(worker)
      PROVE  Commits /\ \E target, code, event : run' = projectPublicationTransition(run, target, code, event)
  BY <1>1, StepEffect DEF StepProjection
<1>2. ASSUME NEW r \in Requests, CommitAction(r)
      PROVE  Commits /\ \E target, code, event : run' = projectPublicationTransition(run, target, code, event)
  BY <1>2, ActionEffect DEF ActionProjection
<1>3. ASSUME NEW worker \in Workers, StepNext(worker)
      PROVE  CommitStep(worker)
  BY <1>3 DEF StepNext, BeginStep, ReadForStep, CommitStepFails, RestartStep
<1>4. ASSUME NEW r \in Requests, RequestNext(r)
      PROVE  CommitAction(r)
  BY <1>4 DEF RequestNext, Lookup, ReadForAction, CommitActionAborts, SettleConflict, DropRequest
<1>5. QED
  BY <1>1, <1>2, <1>3, <1>4 DEF Next

\* The row goes on condensing the log: an event either is the new summit or
\* leaves the old one.
LEMMA RowStaysCondensed ==
  ASSUME TypeOK, TypeOK', SnapshotsFresh, LogIsComplete, RowCondensesLog, Next
  PROVE  RowCondensesLog'
<1>1. CASE run' = run /\ events' = events
  BY <1>1 DEF RowCondensesLog
<1>2. CASE run' # run \/ events' # events
  <2> DEFINE e == EventOf(run')
  <2>1. PICK target, code, event : run' = projectPublicationTransition(run, target, code, event)
    BY <1>2, CommitsProject
  <2>2. /\ events' = events \cup {e} /\ run'.revision = run.revision + 1 /\ run'.progress >= run.progress
        /\ e.state = run'.state /\ e.revision = run'.revision /\ e.progress = run'.progress
    BY <1>2, CommitsProject DEF Commits, UpdateAccepted, EventOf
  <2>3. /\ run'.state \in SUCCESSFUL_STATES => run'.lastSuccessful = run'.state
        /\ run'.state \notin SUCCESSFUL_STATES => run'.lastSuccessful = run.lastSuccessful /\ run'.progress = run.progress
        /\ run'.state \in SUCCESSFUL_STATES => run'.progress = MaxProgress(run.progress, publicationProgress(run'.state))
        /\ run'.state = "retrying" => run'.resume = run.lastSuccessful
    BY <2>1 DEF projectPublicationTransition
  <2>4. /\ run.revision \in Nat /\ run.progress \in Nat /\ run'.progress \in Nat
        /\ \A f \in events : f.revision \in Nat /\ f.progress \in Nat
    BY DEF TypeOK, Row, Event
  <2>5. \A f \in events : f.revision <= run.revision
    BY DEF LogIsComplete
  <2> HIDE DEF e
  <2>6. \E s \in events' : /\ s.state = run'.lastSuccessful
                           /\ \A f \in events' : f.state \in SUCCESSFUL_STATES => f.revision <= s.revision
    <3>1. CASE run'.state \in SUCCESSFUL_STATES
      <4>1. \A f \in events' : f.revision <= e.revision
        BY <2>2, <2>4, <2>5
      <4>2. QED
        BY <2>2, <2>3, <3>1, <4>1
    <3>2. CASE run'.state \notin SUCCESSFUL_STATES
      BY <2>2, <2>3, <3>2 DEF RowCondensesLog
    <3>3. QED
      BY <3>1, <3>2
  <2>7. run'.state = "retrying" => run'.resume = run'.lastSuccessful
    BY <2>3 DEF SUCCESSFUL_STATES
  <2>8. \E s \in events' : s.state \in SUCCESSFUL_STATES /\ publicationProgress(s.state) = run'.progress
    BY <2>2, <2>3 DEF RowCondensesLog, MaxProgress
  <2>9. \A f \in events' : f.progress <= run'.progress
    BY <2>2, <2>4 DEF RowCondensesLog
  <2>10. QED
    BY <2>6, <2>7, <2>8, <2>9 DEF RowCondensesLog
<1>3. QED
  BY <1>1, <1>2

\* What a handler's compare-and-set matches, the database accepts: the marker
\* is new, and whatever the database's rules refuse the handler's refuse too.
LEMMA GuardsFollow ==
  ASSUME TypeOK, SnapshotsFresh, LogIsComplete, ActionsMatchLog, MarkerIdentifies, HandlersKnow
  PROVE  GuardsAgree
<1>1. run \in Row /\ run.revision \in Nat
  BY DEF TypeOK, Row
<1>2. ASSUME NEW worker \in Workers, task[worker].pc = "read", StepCasHolds(task[worker])
      PROVE  UpdateAccepted(run, StepProjection(task[worker]))
  <2> DEFINE t == task[worker]
             s == t.step
  <2>1. s \in Steps /\ t.expected \in Nat
    BY <1>2 DEF TypeOK, Tasks
  <2>2. t.snapshot = run /\ TransitionAllowed(run, s.target, s.same) /\ CallerRequires(s, run)
        /\ Marker(run) # StepMarker(s)
    BY <1>2 DEF StepCasHolds, SnapshotsFresh, HandlersKnow, TaskKnows, IsReplay
  <2>3. s.target \in PUBLICATION_STATES /\ s.target # "cancelled" /\ (s.target = "retrying" => s.kind = "requeue")
        /\ s.key \in StepKeys /\ s.key \notin ActionKeys /\ s.key # "run_queued"
    BY <2>1, ConstantsOK DEF PublicationAssumption, StepKeys
  <2>4. publicationRequiresReconciliation(run) => s.target # "retrying"
    BY <2>2, <2>3 DEF CallerRequires, publicationRequiresReconciliation
  <2>5. StepMarker(s).key # run.key /\ StepMarker(s).hash # run.hash
    <3>1. CASE run = QueuedRow
      BY <2>3, <3>1 DEF QueuedRow, StepMarker
    <3>2. ASSUME NEW o \in Steps, Marker(run) = StepMarker(o)
          PROVE  StepMarker(s).key # run.key /\ StepMarker(s).hash # run.hash
      <4>1. o.key # s.key
        BY <2>2, <3>2 DEF StepMarker
      <4>2. run.key = [id |-> o.key, auto |-> FALSE] /\ run.hash = [of |-> o.key, revision |-> 0]
        BY <3>2 DEF Marker, StepMarker
      <4>3. QED
        BY <4>1, <4>2 DEF StepMarker
    <3>3. CASE /\ run.revision > 0
               /\ \E a \in Actions : run.type = ActionType(a) /\ run.hash = ActionHash(a, run.revision - 1)
               /\ run.key.id \in ActionKeys
               /\ run.revision = 1 => run.state = "cancelled"
      <4>1. run.state # "cancelled"
        BY <2>2, <2>3 DEF TransitionAllowed, ALLOWED_PROJECTION_TRANSITIONS, NotHoldable
      <4>2. run.hash.revision # 0
        BY <1>1, <3>3, <4>1 DEF ActionHash
      <4>3. QED
        BY <2>3, <3>3, <4>2 DEF StepMarker
    <3>4. QED
      BY <3>1, <3>2, <3>3 DEF MarkerIdentifies
  <2> HIDE DEF t, s
  <2>6. UpdateAccepted(run, projectPublicationTransition(run, s.target, s.code, StepMarker(s)))
    BY <1>1, <2>2, <2>3, <2>4, <2>5, ProjectionAccepted
  <2>7. QED
    BY <2>2, <2>6 DEF StepProjection, t, s
<1>3. ASSUME NEW r \in Requests, request[r].pc = "read", ActionUpdates(request[r])
      PROVE  UpdateAccepted(run, ActionProjection(request[r]))
  <2> DEFINE q == request[r]
             marker == [type |-> ActionType(q.action), key |-> q.key, hash |-> q.hash]
             target == ActionTarget(run, q.action)
  <2>1. q.action \in Actions /\ q.expected \in Nat
    BY <1>3 DEF TypeOK, InFlight
  <2>2. /\ q.snapshot = run /\ ActionAllowed(run, q.action, q.expected) /\ TransitionAllowed(run, target, FALSE)
        /\ q.expected = run.revision
    BY <1>3 DEF ActionUpdates, SnapshotsFresh, ActionAllowed
  <2>3. q.key.id \in ActionKeys /\ q.hash = [of |-> q.action, revision |-> run.revision]
        /\ \A b \in actions : b.key # q.key
    BY <1>3, <2>2 DEF HandlersKnow, RequestKnows, ActionHash
  <2>4. target \in PUBLICATION_STATES
    BY <1>1, <2>1, <2>2 DEF ActionAllowed, ActionTarget, Actions, Row, PUBLICATION_STATES
  <2>5. target = "cancelled" => run.state # "failed"
    <3>1. CASE q.action = "cancel"
      BY <2>2, <3>1 DEF ActionAllowed, TERMINAL_STATES
    <3>2. CASE q.action # "cancel"
      BY <1>1, <2>1, <2>2, <3>2 DEF ActionAllowed, ActionTarget, Actions, Row, SUCCESSFUL_STATES
    <3>3. QED
      BY <3>1, <3>2
  <2>6. marker.key # run.key /\ marker.hash # run.hash
    <3>1. CASE run = QueuedRow
      BY <2>1, <2>3, <3>1, ConstantsOK DEF QueuedRow, Actions, PublicationAssumption
    <3>2. ASSUME run.revision > 0, NEW o \in Steps, Marker(run) = StepMarker(o)
          PROVE  marker.key # run.key /\ marker.hash # run.hash
      <4>1. o.key \in StepKeys /\ run.key.id = o.key /\ run.hash.revision = 0
        BY <3>2 DEF Marker, StepMarker, StepKeys
      <4>2. QED
        BY <2>3, <3>2, <4>1, <1>1, ConstantsOK DEF PublicationAssumption
    <3>3. ASSUME run.revision > 0, NEW a \in Actions, run.type = ActionType(a), run.hash = ActionHash(a, run.revision - 1)
          PROVE  marker.key # run.key /\ marker.hash # run.hash
      <4>1. run.hash.revision # run.revision
        BY <1>1, <3>3 DEF ActionHash
      <4>2. run.type \notin {"run_queued", "system"}
        BY <3>3 DEF ActionType, Actions
      <4>3. \E b \in actions : b.key = run.key
        BY <4>2 DEF LogIsComplete, ActionsMatchLog, EventOf
      <4>4. QED
        BY <2>3, <4>1, <4>3
    <3>4. QED
      BY <3>1, <3>2, <3>3 DEF MarkerIdentifies
  <2>7. publicationRequiresReconciliation(run) => FALSE
    BY <2>2 DEF ActionAllowed
  <2> HIDE DEF q, marker, target
  <2>8. UpdateAccepted(run, projectPublicationTransition(run, target, "none", marker))
    BY <1>1, <2>2, <2>4, <2>5, <2>6, <2>7, ProjectionAccepted
  <2>9. QED
    BY <2>2, <2>8 DEF ActionProjection, q, marker, target
<1>4. QED
  BY <1>2, <1>3 DEF GuardsAgree

-----------------------------------------------------------------------------
(* The theorems. *)

\* The inductive invariant: the types need the snapshots (a resume derives its
\* target from one), the snapshots need the log (a batch that finds the new
\* revision taken must not insert), the answers need the ledger.
IInv ==
  TypeOK /\ SnapshotsFresh /\ LogIsComplete /\ ActionsMatchLog /\ AnswersAreDurable

\* The queued row and its event satisfy it.
LEMMA InitIInv == Init => IInv
<1> SUFFICES ASSUME Init PROVE IInv
  OBVIOUS
<1>1. run = QueuedRow /\ events = {EventOf(QueuedRow)} /\ actions = {} /\ answers = {}
      /\ request = [r \in Requests |-> IdleRequest] /\ task = [worker \in Workers |-> IdleTask]
  BY DEF Init
<1>2. TypeOK
  <2>1. IdleRequest \in InFlight /\ IdleTask \in Tasks
    BY DEF IdleRequest, InFlight, IdleTask, Tasks
  <2>2. QED
    BY <1>1, <2>1, QueuedRowType, EventOfRow DEF TypeOK
<1>3. SnapshotsFresh
  BY <1>1 DEF SnapshotsFresh, IdleRequest, IdleTask
<1>4. LogIsComplete
  BY <1>1 DEF LogIsComplete, QueuedRow, EventOf
<1>5. ActionsMatchLog /\ AnswersAreDurable
  BY <1>1 DEF ActionsMatchLog, AnswersAreDurable, QueuedRow, EventOf
<1>6. QED
  BY <1>2, <1>3, <1>4, <1>5 DEF IInv

\* Every step keeps it.
LEMMA NextIInv == IInv /\ [Next]_vars => IInv'
<1> SUFFICES ASSUME IInv, [Next]_vars PROVE IInv'
  OBVIOUS
<1>1. TypeOK /\ SnapshotsFresh /\ LogIsComplete /\ ActionsMatchLog /\ AnswersAreDurable
  BY DEF IInv
<1>2. CASE Next
  <2>1. TypeOK'
    BY <1>1, <1>2, StepKeepsTypes, RequestKeepsTypes DEF Next
  <2>2. QED
    BY <1>1, <1>2, <2>1, SnapshotsStayFresh, LogStaysComplete, ActionsStayMatched,
       AnswersStayDurable DEF IInv
<1>3. CASE UNCHANGED vars
  BY <1>1, <1>3 DEF vars, IInv, TypeOK, SnapshotsFresh, LogIsComplete, ActionsMatchLog, AnswersAreDurable
<1>4. QED
  BY <1>2, <1>3

\* The invariant holds in every reachable state.
THEOREM Invariance == Spec => []IInv
BY InitIInv, NextIInv, PTL DEF Spec

\* The row, the log, the ledger and every handler's memory keep their types:
\* in particular a resume never writes a row with no state.
THEOREM TypeCorrect == Spec => []TypeOK
<1>1. IInv => TypeOK
  BY DEF IInv
<1>2. QED
  BY <1>1, Invariance, PTL

\* Whatever batches interleave, the event log has exactly one event per
\* revision and per idempotency key and ends in the row, and the action ledger
\* never disagrees with it, so a repeated request is always recognised.
THEOREM TablesCorrect == Spec => []TablesAgree
<1>1. IInv => TablesAgree
  BY DEF IInv, TablesAgree
<1>2. QED
  BY <1>1, Invariance, PTL

\* No caller is ever told of a success that is not in the log.
THEOREM AnswersCorrect == Spec => []AnswersAreDurable
<1>1. IInv => AnswersAreDurable
  BY DEF IInv
<1>2. QED
  BY <1>1, Invariance, PTL

\* The revision alone identifies the row a handler read.
THEOREM SnapshotsCorrect == Spec => []SnapshotsFresh
<1>1. IInv => SnapshotsFresh
  BY DEF IInv
<1>2. QED
  BY <1>1, Invariance, PTL

\* A run held for an unknown external side effect leaves the hold only by the
\* event that records its reconciliation, however many retries, cancels,
\* stale steps and restarts interleave with it.
THEOREM HoldCorrect == Spec => HoldOnlyReconciled
<1> DEFINE Held(row) == row.state = "needs_action" /\ row.code = "unknown"
           Freed(row) == row.state = "needs_action" /\ row.code = "reconciled"
<1>1. ASSUME IInv, [Next]_vars, Held(run), run' # run
      PROVE  Freed(run')
  <2>1. TypeOK /\ SnapshotsFresh /\ LogIsComplete
    BY <1>1 DEF IInv
  <2>2. ASSUME NEW worker \in Workers, CommitStep(worker) PROVE Freed(run')
    <3> DEFINE s == task[worker].step
    <3>1. Commits /\ run' = StepProjection(task[worker]) /\ task[worker].snapshot = run /\ task[worker].pc = "read"
      BY <2>1, <2>2, StepEffect
    <3>2. s \in Steps /\ TransitionAllowed(run, s.target, s.same)
      BY <2>1, <3>1 DEF TypeOK, SnapshotsFresh, Tasks
    <3>3. run'.state = s.target /\ run'.code = IF s.target \in ExceptionalStates THEN s.code ELSE "none"
      BY <3>1 DEF StepProjection, projectPublicationTransition
    <3>4. s.target \notin {"retrying", "cancelled"}
      BY <1>1, <3>1, <3>3 DEF Commits, UpdateAccepted, publicationRequiresReconciliation
    <3>5. s.same /\ s.target = "needs_action"
      <4>1. ALLOWED_PROJECTION_TRANSITIONS("needs_action") = {"retrying", "cancelled"}
        BY DEF ALLOWED_PROJECTION_TRANSITIONS, NotHoldable
      <4>2. QED
        BY <1>1, <3>2, <3>4, <4>1 DEF TransitionAllowed
    <3>6. s.code = "reconciled"
      BY <3>2, <3>5, ConstantsOK DEF PublicationAssumption, SUCCESSFUL_STATES
    <3>7. QED
      BY <3>3, <3>5, <3>6 DEF ExceptionalStates
  <2>3. ASSUME NEW r \in Requests, CommitAction(r) PROVE FALSE
    <3>1. request[r].snapshot = run /\ request[r].pc = "read"
      BY <1>1, <2>1, <2>3, ActionEffect
    <3>2. QED
      BY <1>1, <2>1, <3>1 DEF SnapshotsFresh, ActionAllowed, publicationRequiresReconciliation
  <2>4. (\E worker \in Workers : CommitStep(worker)) \/ (\E r \in Requests : CommitAction(r))
    BY <1>1 DEF vars, Next, StepNext, BeginStep, ReadForStep, CommitStepFails, RestartStep,
                RequestNext, Lookup, ReadForAction, CommitActionAborts, SettleConflict, DropRequest
  <2>5. QED
    BY <2>2, <2>3, <2>4
<1>2. IInv /\ [Next]_vars =>
        [(run.state = "needs_action" /\ run.code = "unknown" /\ run' # run) =>
           (run'.state = "needs_action" /\ run'.code = "reconciled")]_vars
  BY <1>1
<1>3. QED
  BY <1>2, Invariance, PTL DEF Spec, HoldOnlyReconciled

\* The handlers' memory and the markers, with what they rest on.
RulesInv == IInv /\ MarkerIdentifies /\ HandlersKnow /\ RowCondensesLog

\* It holds in every reachable state.
THEOREM RulesInvariance == Spec => []RulesInv
<1>1. Init => MarkerIdentifies /\ HandlersKnow
  BY DEF Init, MarkerIdentifies, HandlersKnow, TaskKnows, RequestKnows, IdleTask, IdleRequest
<1>2. Init => RowCondensesLog
  BY DEF Init, RowCondensesLog, QueuedRow, EventOf, SUCCESSFUL_STATES, publicationProgress
<1>3. Init => RulesInv
  BY <1>1, <1>2, InitIInv DEF RulesInv
<1>4. RulesInv /\ [Next]_vars => RulesInv'
  <2> SUFFICES ASSUME RulesInv, [Next]_vars PROVE RulesInv'
    OBVIOUS
  <2>1. IInv /\ IInv' /\ MarkerIdentifies /\ HandlersKnow /\ RowCondensesLog
    BY NextIInv DEF RulesInv
  <2>2. TypeOK /\ TypeOK' /\ SnapshotsFresh /\ LogIsComplete
    BY <2>1 DEF IInv
  <2>3. CASE Next
    BY <2>1, <2>2, <2>3, MarkerStaysIdentified, HandlersStayKnowing, RowStaysCondensed DEF RulesInv
  <2>4. CASE UNCHANGED vars
    BY <2>1, <2>4 DEF vars, RulesInv, MarkerIdentifies, HandlersKnow, TaskKnows, RequestKnows, RowCondensesLog
  <2>5. QED
    BY <2>3, <2>4
<1>5. QED
  BY <1>3, <1>4, PTL DEF Spec

\* The transition rules of projectPublicationTransition and of migration 0011
\* agree wherever a batch can get, and the row is the log's summary.
THEOREM RulesCorrect == Spec => []RulesAgree
<1>1. RulesInv => RulesAgree
  BY GuardsFollow DEF RulesInv, IInv, RulesAgree
<1>2. QED
  BY <1>1, RulesInvariance, PTL

-----------------------------------------------------------------------------
(* PublicationProjection implements PublicationLedger: seen through the    *)
(* refinement mapping of the instance Ledger, every batch, race, retry and *)
(* restart is an atomic, exactly-once step or no step at all.              *)

\* The keys of a set of records with one more.
LEMMA KeysGrow ==
  ASSUME NEW S, NEW x
  PROVE  {a.key : a \in S \cup {x}} = {a.key : a \in S} \cup {x.key}
<1>1. ASSUME NEW k \in {a.key : a \in S \cup {x}} PROVE k \in {a.key : a \in S} \cup {x.key}
  BY <1>1
<1>2. ASSUME NEW k \in {a.key : a \in S} \cup {x.key} PROVE k \in {a.key : a \in S \cup {x}}
  BY <1>2
<1>3. QED
  BY <1>1, <1>2

\* A transition the TypeScript table allows from a row is a move of the
\* abstract ledger. A held run is never given one that leaves the hold.
LEMMA AllowedIsMove ==
  ASSUME NEW row \in Row, NEW target \in PUBLICATION_STATES, NEW same \in BOOLEAN,
         TransitionAllowed(row, target, same),
         same => target \in (SUCCESSFUL_STATES \ {"draft_ready"}) \cup {"needs_action"}
  PROVE  /\ row.state \notin {"draft_ready", "cancelled"}
         /\ row.state = "retrying" => target \in {row.resume, "cancelled"}
         /\ target = "retrying" => row.state \in {"failed", "needs_action"}
         /\ row.state \in {"failed", "needs_action"} => target \in {row.state, "retrying", "cancelled"}
<1>1. row.resume # "retrying" /\ row.state \in PUBLICATION_STATES
  BY DEF Row, SUCCESSFUL_STATES
<1>2. /\ ALLOWED_PROJECTION_TRANSITIONS("draft_ready") = {}
      /\ ALLOWED_PROJECTION_TRANSITIONS("cancelled") = {}
      /\ ALLOWED_PROJECTION_TRANSITIONS("failed") = {"retrying", "cancelled"}
      /\ ALLOWED_PROJECTION_TRANSITIONS("needs_action") = {"retrying", "cancelled"}
  BY DEF ALLOWED_PROJECTION_TRANSITIONS, NotHoldable
<1>3. CASE same /\ target = row.state
  BY <1>3 DEF SUCCESSFUL_STATES
<1>4. CASE target = "retrying" /\ row.state \in {"failed", "needs_action"}
  BY <1>4
<1>5. CASE row.state = "retrying" /\ target \in {row.resume, "cancelled"}
  BY <1>1, <1>5
<1>6. CASE /\ row.state # "retrying" /\ target # "retrying"
           /\ target \in ALLOWED_PROJECTION_TRANSITIONS(row.state)
  BY <1>1, <1>2, <1>6
<1>7. QED
  BY <1>3, <1>4, <1>5, <1>6 DEF TransitionAllowed

\* What a commit does to the row is a move and uses an unused key.
LEMMA CommitRefines ==
  ASSUME IInv, IInv', Commits, NEW target \in PUBLICATION_STATES, NEW same \in BOOLEAN,
         NEW code, NEW marker,
         TransitionAllowed(run, target, same),
         same => target \in (SUCCESSFUL_STATES \ {"draft_ready"}) \cup {"needs_action"},
         run' = projectPublicationTransition(run, target, code, marker),
         publicationRequiresReconciliation(run) => target = "needs_action" /\ code # "unknown",
         answers' \in {answers, answers \cup
           {[key |-> run'.key, hash |-> run'.hash, revision |-> run'.revision]}}
  PROVE  Ledger!Next
<1>1. run \in Row /\ run' \in Row
  BY DEF IInv, TypeOK
<1> DEFINE h == run'.state = "needs_action" /\ run'.code = "unknown"
<1>2. /\ run'.state = target
      /\ run'.code = IF target \in ExceptionalStates THEN code ELSE "none"
      /\ run'.resume = IF target = "retrying" THEN run.lastSuccessful ELSE "none"
  BY DEF projectPublicationTransition
<1>3. Ledger!MayMove(target, h)
  <2>1. h \in BOOLEAN /\ (h => target = "needs_action")
    BY <1>2
  <2>2. run.state = "needs_action" /\ run.code = "unknown" => target = "needs_action" /\ ~h
    BY <1>2 DEF publicationRequiresReconciliation, ExceptionalStates
  <2> HIDE DEF h
  <2>3. QED
    BY <1>1, <2>1, <2>2, AllowedIsMove DEF Ledger!MayMove, Ledger!Final
<1>4. run'.resume \in IF target = "retrying" THEN SUCCESSFUL_STATES ELSE {"none"}
  BY <1>1, <1>2 DEF Row
<1>5. run'.key \notin {e.key : e \in events}
  BY DEF Commits, EventInsertAccepted, EventOf
<1>6. {e.key : e \in events'} = {e.key : e \in events} \cup {run'.key}
  BY DEF Commits, EventOf
<1>7. {a.key : a \in answers'} \in
        {{a.key : a \in answers}, {a.key : a \in answers} \cup {run'.key}}
  <2> DEFINE x == [key |-> run'.key, hash |-> run'.hash, revision |-> run'.revision]
  <2>1. {a.key : a \in answers \cup {x}} = {a.key : a \in answers} \cup {x.key}
    BY KeysGrow
  <2>2. QED
    BY <2>1
<1>8. Ledger!SUCCESSFUL_STATES = SUCCESSFUL_STATES
  BY DEF Ledger!SUCCESSFUL_STATES, SUCCESSFUL_STATES
<1>9. h \in BOOLEAN
  OBVIOUS
<1>10. \E g \in BOOLEAN :
         Ledger!MayMove(target, g) /\ (run.state = "needs_action" /\ run.code = "unknown")' = g
  BY <1>3, <1>9
<1> HIDE DEF h
<1>11. PICK k \in Keys : k = run'.key
  BY <1>1 DEF Row
<1>12. Ledger!Apply(k, target)
  BY <1>2, <1>4, <1>5, <1>6, <1>7, <1>8, <1>10, <1>11, <1>3 DEF Ledger!Apply
<1>13. target \in Ledger!PUBLICATION_STATES
  BY <1>8 DEF Ledger!PUBLICATION_STATES, PUBLICATION_STATES
<1>14. QED
  BY <1>12, <1>13 DEF Ledger!Next

\* A success told again tells of a key in the log.
LEMMA AnswerRefines ==
  ASSUME UNCHANGED <<run, events>>, events \subseteq Event,
         NEW e \in events, NEW hash, NEW revision,
         answers' = answers \cup {[key |-> e.key, hash |-> hash, revision |-> revision]}
  PROVE  Ledger!Next
<1>1. {a.key : a \in answers'} = {a.key : a \in answers} \cup {e.key}
  <2> DEFINE x == [key |-> e.key, hash |-> hash, revision |-> revision]
  <2>1. {a.key : a \in answers \cup {x}} = {a.key : a \in answers} \cup {x.key}
    BY KeysGrow
  <2>2. QED
    BY <2>1
<1>2. e.key \in {f.key : f \in events}
  OBVIOUS
<1>3. Ledger!Acknowledge(e.key)
  BY <1>1, <1>2 DEF Ledger!Acknowledge
<1>4. e.key \in Keys
  BY DEF Event
<1>5. QED
  BY <1>3, <1>4 DEF Ledger!Next

\* Nothing the ledger sees changes.
LEMMA LedgerStutters == UNCHANGED <<run, events, answers>> => UNCHANGED Ledger!ledgerVars
BY DEF Ledger!ledgerVars

\* The queued row is the ledger's initial state.
LEMMA InitRefines == Init => Ledger!Init
<1> SUFFICES ASSUME Init PROVE Ledger!Init
  OBVIOUS
<1>1. run = QueuedRow /\ events = {EventOf(QueuedRow)} /\ answers = {}
  BY DEF Init
<1>2. QueuedRow.key \in Keys /\ EventOf(QueuedRow).key = QueuedRow.key
  BY QueuedRowType DEF Row, EventOf
<1>3. {e.key : e \in events} = {QueuedRow.key}
  BY <1>1, <1>2
<1>4. {a.key : a \in answers} = {}
  BY <1>1
<1>5. run.state = "queued" /\ run.resume = "none"
  BY <1>1 DEF QueuedRow
<1>6. (run.state = "needs_action" /\ run.code = "unknown") = FALSE
  BY <1>5
<1>7. {e.key : e \in events} \in {{k} : k \in Keys}
  BY <1>2, <1>3
<1>8. QED
  BY <1>4, <1>5, <1>6, <1>7 DEF Ledger!Init

\* Every step of a workflow execution is a step of the ledger or none.
LEMMA StepRefines ==
  ASSUME IInv, IInv', NEW worker \in Workers, StepNext(worker)
  PROVE  Ledger!Next \/ UNCHANGED Ledger!ledgerVars
<1> DEFINE s == task[worker].step
<1>1. TypeOK /\ SnapshotsFresh /\ LogIsComplete /\ run \in Row /\ events \subseteq Event
  BY DEF IInv, TypeOK
<1>2. CASE ReadForStep(worker)
  <2>1. CASE UNCHANGED answers
    BY <1>2, <2>1, LedgerStutters DEF ReadForStep
  <2>2. CASE answers' # answers
    <3>1. IsReplay(run, s) /\ UNCHANGED <<run, events>>
          /\ answers' = answers \cup {[key |-> StepMarker(s).key, hash |-> StepMarker(s).hash,
                                       revision |-> run.revision]}
      BY <1>2, <2>2 DEF ReadForStep
    <3>2. StepMarker(s).key = run.key /\ EventOf(run).key = run.key
      BY <3>1 DEF IsReplay, Marker, StepMarker, EventOf
    <3>3. PICK e \in events : e = EventOf(run)
      BY <1>1 DEF LogIsComplete
    <3>4. answers' = answers \cup {[key |-> e.key, hash |-> StepMarker(s).hash, revision |-> run.revision]}
      BY <3>1, <3>2, <3>3
    <3>5. QED
      BY <1>1, <3>1, <3>4, AnswerRefines
  <2>3. QED
    BY <2>1, <2>2
<1>3. CASE CommitStep(worker)
  <2>1. Commits /\ task[worker].pc = "read" /\ task[worker].snapshot = run /\ run' = StepProjection(task[worker])
    BY <1>1, <1>3, StepEffect
  <2>2. s \in Steps /\ TransitionAllowed(run, s.target, s.same)
    BY <1>1, <2>1 DEF TypeOK, SnapshotsFresh, Tasks
  <2>3. /\ s.target \in PUBLICATION_STATES /\ s.same \in BOOLEAN
        /\ s.same => s.target \in (SUCCESSFUL_STATES \ {"draft_ready"}) \cup {"needs_action"}
        /\ s.same /\ s.target = "needs_action" => s.code = "reconciled"
    BY <2>2, ConstantsOK DEF PublicationAssumption, SUCCESSFUL_STATES
  <2>4. run' = projectPublicationTransition(run, s.target, s.code, StepMarker(s))
    BY <2>1 DEF StepProjection
  <2>5. answers' \in {answers, answers \cup
          {[key |-> run'.key, hash |-> run'.hash, revision |-> run'.revision]}}
    BY <1>3 DEF CommitStep
  <2>6. publicationRequiresReconciliation(run) => s.target = "needs_action" /\ s.code # "unknown"
    <3>1. run'.state = s.target
      BY <2>4 DEF projectPublicationTransition
    <3>2. SUFFICES ASSUME publicationRequiresReconciliation(run)
                   PROVE  s.target = "needs_action" /\ s.code # "unknown"
      OBVIOUS
    <3>3. run.state = "needs_action" /\ s.target \notin {"retrying", "cancelled"}
      BY <2>1, <3>1, <3>2 DEF Commits, UpdateAccepted, publicationRequiresReconciliation
    <3>4. ALLOWED_PROJECTION_TRANSITIONS("needs_action") = {"retrying", "cancelled"}
      BY DEF ALLOWED_PROJECTION_TRANSITIONS, NotHoldable
    <3>5. s.same /\ s.target = "needs_action"
      BY <2>2, <3>3, <3>4 DEF TransitionAllowed
    <3>6. QED
      BY <2>3, <3>5
  <2> HIDE DEF s
  <2>7. QED
    BY <2>1, <2>2, <2>3, <2>4, <2>5, <2>6, CommitRefines
<1>4. CASE ~ReadForStep(worker) /\ ~CommitStep(worker)
  BY <1>4, LedgerStutters DEF StepNext, BeginStep, CommitStepFails, RestartStep
<1>5. QED
  BY <1>2, <1>3, <1>4

\* Every step of a request is a step of the ledger or none.
LEMMA RequestRefines ==
  ASSUME IInv, IInv', NEW r \in Requests, RequestNext(r)
  PROVE  Ledger!Next \/ UNCHANGED Ledger!ledgerVars
<1> DEFINE q == request[r]
<1>1. TypeOK /\ SnapshotsFresh /\ LogIsComplete /\ ActionsMatchLog /\ run \in Row
      /\ events \subseteq Event
  BY DEF IInv, TypeOK
<1>2. CASE CommitAction(r)
  <2>1. CASE UNCHANGED <<run, events, answers>>
    BY <2>1, LedgerStutters
  <2>2. CASE /\ Commits /\ q.pc = "read" /\ q.snapshot = run /\ run' = ActionProjection(q)
             /\ answers' \in {answers, answers \cup
                  {[key |-> run'.key, hash |-> run'.hash, revision |-> run'.revision]}}
    <3> DEFINE target == ActionTarget(run, q.action)
               marker == [type |-> ActionType(q.action), key |-> q.key, hash |-> q.hash]
    <3>1. ~publicationRequiresReconciliation(run) /\ TransitionAllowed(run, target, FALSE)
          /\ (q.action = "resume" => run.resume # "none") /\ q.action \in Actions
      BY <1>1, <2>2 DEF SnapshotsFresh, ActionAllowed, TypeOK, InFlight
    <3>2. target \in PUBLICATION_STATES
      BY <1>1, <3>1 DEF ActionTarget, Actions, Row, PUBLICATION_STATES
    <3>3. run' = projectPublicationTransition(run, target, "none", marker)
      BY <2>2 DEF ActionProjection
    <3> HIDE DEF target, marker
    <3>4. QED
      BY <2>2, <3>1, <3>2, <3>3, CommitRefines
  <2>3. QED
    BY <1>1, <1>2, <2>1, <2>2, ActionEffect
<1>3. ASSUME UNCHANGED <<run, events>>, NEW b \in actions,
             answers' = answers \cup {[key |-> b.key, hash |-> b.hash, revision |-> b.expected + 1]}
      PROVE  Ledger!Next
  <2>1. PICK e \in events : e.key = b.key
    BY <1>1 DEF ActionsMatchLog
  <2>2. answers' = answers \cup {[key |-> e.key, hash |-> b.hash, revision |-> b.expected + 1]}
    BY <1>3, <2>1
  <2>3. QED
    BY <1>1, <1>3, <2>2, AnswerRefines
<1>4. CASE ~CommitAction(r)
  <2>1. UNCHANGED <<run, events>>
    BY <1>4 DEF RequestNext, Lookup, ReadForAction, CommitActionAborts, SettleConflict, DropRequest
  <2>2. CASE UNCHANGED answers
    BY <2>1, <2>2, LedgerStutters
  <2>3. CASE answers' # answers
    <3>1. PICK b \in actions :
            answers' = answers \cup {[key |-> b.key, hash |-> b.hash, revision |-> b.expected + 1]}
      BY <1>4, <2>3 DEF RequestNext, Lookup, ReadForAction, CommitActionAborts, SettleConflict, DropRequest
    <3>2. QED
      BY <1>3, <2>1, <3>1
  <2>4. QED
    BY <2>2, <2>3
<1>5. QED
  BY <1>2, <1>4

\* The projection implements the abstract ledger: each idempotency key takes
\* effect at most once and atomically, success is acknowledged only for keys
\* that took effect, a finished run never moves, a retrying run returns to
\* where it stopped, and a hold is left only reconciled.
THEOREM Refinement == Spec => ImplementsLedger
<1>1. IInv /\ IInv' /\ [Next]_vars => [Ledger!Next]_(Ledger!ledgerVars)
  <2> SUFFICES ASSUME IInv, IInv', [Next]_vars PROVE Ledger!Next \/ UNCHANGED Ledger!ledgerVars
    OBVIOUS
  <2>1. CASE Next
    BY <2>1, StepRefines, RequestRefines DEF Next
  <2>2. CASE UNCHANGED vars
    BY <2>2, LedgerStutters DEF vars
  <2>3. QED
    BY <2>1, <2>2
<1>2. QED
  BY <1>1, InitRefines, Invariance, PTL DEF Spec, ImplementsLedger, Ledger!Spec

-----------------------------------------------------------------------------
(* Rows and their logs.                                                    *)

\* An event is one key more in the log.
LEMMA RowGrows ==
  ASSUME NEW row \in Rows, NEW target \in Targets, NEW key \in LogKeys, NEW code \in HoldCodes
  PROVE  LET new == WithEvent(row, target, key, code) IN
         /\ new \in Rows /\ new.state = target /\ new.code = code
         /\ new.last = IF target \in ExceptionalStates \cup {"retrying"} THEN row.last ELSE target
         /\ new.log = Append(row.log, key)
<1> DEFINE new == WithEvent(row, target, key, code)
<1>1. row.log \in Seq(LogKeys) /\ row.last \in Targets
  BY DEF Rows
<1>2. Append(row.log, key) \in Seq(LogKeys)
  BY <1>1
<1>3. QED
  BY <1>1, <1>2 DEF WithEvent, Rows

LEMMA LogGrows ==
  ASSUME NEW row \in Rows, NEW new, NEW key \in LogKeys, new.log = Append(row.log, key)
  PROVE  /\ \A k : Has(new, k) <=> (Has(row, k) \/ k = key)
         /\ \A tag : Tagged(new, tag) = Tagged(row, tag) \cup {k \in {key} : k[1] = tag}
<1> DEFINE old == row.log
           log == Append(old, key)
<1>1. old \in Seq(LogKeys) /\ new.log = log
  BY DEF Rows
<1>2. /\ Len(old) \in Nat /\ DOMAIN old = 1..Len(old) /\ DOMAIN log = 1..(Len(old) + 1)
      /\ \A n \in 1..Len(old) : log[n] = old[n]
      /\ log[Len(old) + 1] = key
  BY <1>1
<1> HIDE DEF log
<1>3. ASSUME NEW k PROVE Has(new, k) <=> (Has(row, k) \/ k = key)
  <2>1. Has(new, k) <=> \E n \in DOMAIN log : log[n] = k
    BY <1>1 DEF Has
  <2>2. Has(row, k) <=> \E n \in DOMAIN old : old[n] = k
    BY DEF Has
  <2>3. QED
    BY <1>2, <2>1, <2>2
<1>4. ASSUME NEW tag PROVE Tagged(new, tag) = Tagged(row, tag) \cup {k \in {key} : k[1] = tag}
  <2>1. Tagged(new, tag) = {log[n] : n \in {m \in DOMAIN log : log[m][1] = tag}}
    BY <1>1 DEF Tagged
  <2>2. Tagged(row, tag) = {old[n] : n \in {m \in DOMAIN old : old[m][1] = tag}}
    BY DEF Tagged
  <2>3. QED
    BY <1>2, <2>1, <2>2
<1>5. QED
  BY <1>3, <1>4

LEMMA Vocabulary ==
  /\ WECHAT_RESUMABLE_STATES = {"visual_ready", "formatting", "visual_qa", "draft_syncing", "draft_verifying"}
  /\ \A x \in Moving : x \notin ExceptionalStates \cup {"retrying"}
<1>1. DOMAIN Checkpoints = 1..5
  BY DEF Checkpoints
<1>2. WECHAT_RESUMABLE_STATES = {Checkpoints[n] : n \in 1..5}
  BY <1>1 DEF WECHAT_RESUMABLE_STATES
<1>3. /\ Checkpoints[1] = "visual_ready" /\ Checkpoints[2] = "formatting" /\ Checkpoints[3] = "visual_qa"
      /\ Checkpoints[4] = "draft_syncing" /\ Checkpoints[5] = "draft_verifying"
  BY DEF Checkpoints
<1>4. 1..5 = {1, 2, 3, 4, 5}
  OBVIOUS
<1>5. WECHAT_RESUMABLE_STATES = {"visual_ready", "formatting", "visual_qa", "draft_syncing", "draft_verifying"}
  BY <1>2, <1>3, <1>4
<1>8. \A x \in Moving : x \notin ExceptionalStates \cup {"retrying"}
  BY <1>5 DEF Moving, ExceptionalStates
<1>9. QED
  BY <1>5, <1>8

\* What a state may follow, of the states this phase meets.
LEMMA Successors ==
  ASSUME NEW s \in Targets
  PROVE  /\ ALLOWED_PROJECTION_TRANSITIONS(s) \subseteq Targets
         /\ s \in {"draft_ready", "cancelled", "retrying"} => ALLOWED_PROJECTION_TRANSITIONS(s) = {}
         /\ s \in {"needs_action", "failed"} => ALLOWED_PROJECTION_TRANSITIONS(s) = {"retrying", "cancelled"}
         /\ s \in WECHAT_RESUMABLE_STATES =>
              ALLOWED_PROJECTION_TRANSITIONS(s) = PipelineSuccessors(s) \cup {"needs_action", "failed", "cancelled"}
         /\ "draft_ready" \in ALLOWED_PROJECTION_TRANSITIONS(s) => s = "draft_verifying"
         /\ "draft_verifying" \in ALLOWED_PROJECTION_TRANSITIONS(s) => s = "draft_syncing"
         /\ "draft_syncing" \in ALLOWED_PROJECTION_TRANSITIONS(s) => s = "visual_qa"
BY Vocabulary DEF Targets, Moving, ExceptionalStates, ALLOWED_PROJECTION_TRANSITIONS, PipelineSuccessors, NotHoldable

\* A write of D1 that is allowed keeps the row in order.
LEMMA D1RowKept ==
  ASSUME d1 \in Rows, D1Row(d1), NEW target \in Targets, NEW key \in LogKeys, NEW code \in HoldCodes,
         NEW same \in BOOLEAN, D1Allows(target, same), NEW new, new = WithEvent(d1, target, key, code)
  PROVE  new \in Rows /\ D1Row(new)
<1>2. /\ new \in Rows /\ new.state = target
      /\ new.last = IF target \in ExceptionalStates \cup {"retrying"} THEN d1.last ELSE target
  BY RowGrows
<1>3. d1.state = "draft_ready" => target = "draft_ready"
  BY Successors DEF D1Allows, D1Row, Targets, Moving, Rows
<1>4. d1.state = "retrying" => target \in {d1.last, "cancelled"} \cup {"retrying"}
  BY DEF D1Allows
<1>5. CASE target \in Moving
  BY <1>2, <1>5, Vocabulary DEF D1Row, Targets, Rows
<1>6. CASE target \notin Moving
  BY <1>2, <1>3, <1>6, Vocabulary DEF D1Row, Targets, Moving
<1>7. QED
  BY <1>5, <1>6

\* The writes of the App are among those.
LEMMA AppWrites ==
  ASSUME LedgersInv, App
  PROVE  \E target \in {"cancelled", "retrying", d1.last}, what \in {"cancel", "retry", "resume"} :
           /\ D1Allows(target, FALSE) /\ target \in Targets
           /\ d1' = WithEvent(d1, target, <<"app", what, Len(d1.log)>>, "none")
           /\ d1.state \notin TERMINAL_STATES \/ d1.state = "failed"
           /\ UNCHANGED <<main, kept, recording, ops, wechat, late, w>> /\ faults' \in 0..MaxFaults
<1>1. /\ d1.state \in Targets /\ d1.last \in Moving
      /\ d1.state \notin TERMINAL_STATES => d1.state \in WECHAT_RESUMABLE_STATES \cup {"needs_action", "retrying"}
  BY Vocabulary DEF LedgersInv, Typed, Rows, RowsOK, D1Row, Targets, Moving, TERMINAL_STATES, ExceptionalStates
<1>2. faults' \in 0..MaxFaults
  BY WechatDraftOK DEF App, Fault, LedgersInv, Typed
<1>3. UNCHANGED <<main, kept, recording, ops, wechat, late, w>>
  BY DEF App, external
<1>4. "cancelled" \in Targets /\ "retrying" \in Targets /\ d1.last \in Targets
  BY <1>1 DEF Targets, ExceptionalStates
<1>5. CASE d1.state \notin TERMINAL_STATES /\ d1' = WithEvent(d1, "cancelled", <<"app", "cancel", Len(d1.log)>>, "none")
  <2>1. D1Allows("cancelled", FALSE)
    BY <1>1, <1>5, Successors DEF D1Allows
  <2>2. QED
    BY <2>1, <1>2, <1>3, <1>4, <1>5
<1>6. CASE d1.state \in {"needs_action", "failed"} /\ d1' = WithEvent(d1, "retrying", <<"app", "retry", Len(d1.log)>>, "none")
  <2>1. D1Allows("retrying", FALSE)
    BY <1>1, <1>6, Successors DEF D1Allows
  <2>2. d1.state \notin TERMINAL_STATES \/ d1.state = "failed"
    BY <1>6 DEF TERMINAL_STATES
  <2>3. QED
    BY <2>1, <2>2, <1>2, <1>3, <1>4, <1>6
<1>7. CASE d1.state = "retrying" /\ d1' = WithEvent(d1, d1.last, <<"app", "resume", Len(d1.log)>>, "none")
  <2>1. D1Allows(d1.last, FALSE)
    BY <1>1, <1>7, Successors DEF D1Allows
  <2>2. d1.state \notin TERMINAL_STATES \/ d1.state = "failed"
    BY <1>7 DEF TERMINAL_STATES
  <2>3. QED
    BY <2>1, <2>2, <1>2, <1>3, <1>4, <1>7
<1>8. QED
  BY <1>5, <1>6, <1>7 DEF App

LEMMA OneOf ==
  ASSUME NEW S, S # {}
  PROVE  TheOne(S) \in S
BY DEF TheOne

\* What one more event in D1, or in the Coordinator, means for what is asked of the logs.
LEMMA D1Log ==
  ASSUME d1 \in Rows, NEW key \in LogKeys, d1'.log = Append(d1.log, key)
  PROVE  /\ \A k : Has(d1, k)' <=> (Has(d1, k) \/ k = key)
         /\ \A tag : Tagged(d1, tag)' = Tagged(d1, tag) \cup {k \in {key} : k[1] = tag}
<1>1. \A k : Has(d1', k) <=> (Has(d1, k) \/ k = key)
  BY LogGrows
<1>2. \A tag : Tagged(d1', tag) = Tagged(d1, tag) \cup {k \in {key} : k[1] = tag}
  BY LogGrows
<1>3. ASSUME NEW k PROVE Has(d1, k)' <=> Has(d1', k)
  BY DEF Has
<1>4. ASSUME NEW tag PROVE Tagged(d1, tag)' = Tagged(d1', tag)
  BY DEF Tagged
<1>5. QED
  BY <1>1, <1>2, <1>3, <1>4

LEMMA MainLog ==
  ASSUME main \in Rows, NEW key \in LogKeys, main'.log = Append(main.log, key)
  PROVE  \A k : Has(main, k)' <=> (Has(main, k) \/ k = key)
<1>1. \A k : Has(main', k) <=> (Has(main, k) \/ k = key)
  BY LogGrows
<1>2. ASSUME NEW k PROVE Has(main, k)' <=> Has(main', k)
  BY DEF Has
<1>3. QED
  BY <1>1, <1>2

LEMMA KeysAreKeys ==
  ASSUME NEW s \in Nat
  PROVE  /\ \A kind \in Kinds : Artifact(kind, s) \in LogKeys
         /\ <<"sync", "none", s>> \in LogKeys /\ <<"ready", "none", s>> \in LogKeys /\ <<"failed", "none", s>> \in LogKeys
         /\ \A code \in HoldCodes : <<"hold", code, s>> \in LogKeys /\ <<"fail", code, s>> \in LogKeys
         /\ \A x \in Moving : <<"reconciled", x, s>> \in LogKeys /\ <<"retrying", x, s>> \in LogKeys /\ <<"resumed", x, s>> \in LogKeys
         /\ \A what \in {"cancel", "retry", "resume"} : <<"app", what, s>> \in LogKeys
<1>1. Kinds \subseteq Subjects /\ HoldCodes \subseteq Subjects /\ Moving \subseteq Subjects /\ "none" \in Subjects
      /\ {"cancel", "retry", "resume"} \subseteq Subjects
  BY DEF Subjects, Targets, HoldCodes
<1>2. QED
  BY <1>1 DEF LogKeys, Tags, Artifact

\* The checkpoint of a recovery, and of an artifact.
LEMMA TargetIsCheckpoint ==
  ASSUME HoldsOK, NEW s
  PROVE  /\ Target(s) \in WECHAT_RESUMABLE_STATES
         /\ \A kind \in Kinds : artifactState(kind, s) \in WECHAT_RESUMABLE_STATES
<1>1. Target(s) \in WECHAT_RESUMABLE_STATES
  <2> DEFINE resumed == {key \in Tagged(d1, "resumed") : key[3] = s}
  <2>1. resumed # {} => TheOne(resumed) \in resumed
    BY OneOf
  <2>2. Target(s) = IF resumed = {} THEN "visual_ready" ELSE TheOne(resumed)[2]
    BY DEF Target
  <2> HIDE DEF resumed
  <2>3. resumed # {} => TheOne(resumed)[2] \in WECHAT_RESUMABLE_STATES
    BY <2>1 DEF resumed, HoldsOK, ResumedKeys
  <2>4. QED
    BY <2>2, <2>3, Vocabulary
<1>2. \A kind \in Kinds : StateOf(kind) \in WECHAT_RESUMABLE_STATES
  BY Vocabulary DEF StateOf
<1>3. QED
  BY <1>1, <1>2 DEF artifactState

LEMMA MainRowKept ==
  ASSUME LedgersInv, NEW target \in Moving \cup {"needs_action", "failed"}, NEW key \in LogKeys, NEW code \in HoldCodes
  PROVE  /\ WithEvent(main, target, key, code) \in Rows /\ WithEvent(main, target, key, code).state = target
         /\ WithEvent(main, target, key, code).code = code /\ WithEvent(main, target, key, code).log = Append(main.log, key)
<1>1. main \in Rows /\ target \in Targets
  BY DEF LedgersInv, Typed, Targets, ExceptionalStates
<1>2. QED
  BY <1>1, RowGrows

\* The holds are known by the keys of two kinds in D1.
LEMMA SameHolds ==
  ASSUME HoldKeys' = HoldKeys
  PROVE  /\ Holds' = Holds
         /\ \A code : HoldsWith(code)' = HoldsWith(code)
         /\ \A code, c : Latest(code, c)' <=> Latest(code, c)
         /\ \A code : FreshHold(code)' <=> FreshHold(code)
<1>1. Tagged(d1, "hold")' = Tagged(d1, "hold")
  BY DEF HoldKeys
<1>2. Holds' = Holds
  BY <1>1 DEF Holds
<1>3. ASSUME NEW code PROVE HoldsWith(code)' = HoldsWith(code)
  BY <1>1 DEF HoldsWith
<1>4. ASSUME NEW code, NEW c PROVE Latest(code, c)' <=> Latest(code, c)
  BY <1>3 DEF Latest
<1>5. ASSUME NEW code PROVE FreshHold(code)' <=> FreshHold(code)
  BY <1>3 DEF FreshHold
<1>6. QED
  BY <1>2, <1>3, <1>4, <1>5
LEMMA HoldsStill ==
  ASSUME HoldsOK, HoldKeys' = HoldKeys, ResumedKeys' = ResumedKeys
  PROVE  HoldsOK'
<1>1. /\ Holds' = Holds
      /\ \A code : HoldsWith(code)' = HoldsWith(code)
      /\ \A code, c : Latest(code, c)' <=> Latest(code, c)
  BY SameHolds
<1>2. QED
  BY <1>1 DEF HoldsOK

LEMMA QuietD1 ==
  ASSUME d1 \in Rows, NEW key \in LogKeys, d1'.log = Append(d1.log, key), key[1] \notin {"hold", "resumed"}
  PROVE  HoldKeys' = HoldKeys /\ ResumedKeys' = ResumedKeys
BY D1Log DEF HoldKeys, ResumedKeys
LEMMA SameD1 ==
  ASSUME d1' = d1
  PROVE  HoldKeys' = HoldKeys /\ ResumedKeys' = ResumedKeys /\ \A k : Has(d1, k)' <=> Has(d1, k)
BY DEF HoldKeys, ResumedKeys, Tagged, Has
LEMMA SameMain ==
  ASSUME main' = main
  PROVE  \A k : Has(main, k)' <=> Has(main, k)
BY DEF Has

\* The order of artifacts.
LEMMA Turns ==
  /\ \A kind \in Kinds : Turn(kind) \in 1..7 /\ TurnAt(kind) = Turn(kind)
  /\ \A x, y \in Kinds : Turn(x) = Turn(y) => x = y
<1>1. \A kind \in Kinds : Turn(kind) \in 1..7 /\ TurnAt(kind) = Turn(kind)
  BY DEF Kinds, Turn, TurnAt
<1>2. \A x, y \in Kinds : Turn(x) = Turn(y) => x = y
  BY DEF Kinds, Turn
<1>3. QED
  BY <1>1, <1>2

LEMMA SameArtifacts ==
  ASSUME ArtifactsInTurn,
         \A kind \in Kinds, s \in Nat : Projected(kind, s)' <=> Projected(kind, s),
         \A kind \in Kinds, s \in Nat : Receipted(kind, s)' <=> Receipted(kind, s)
  PROVE  ArtifactsInTurn'
BY DEF ArtifactsInTurn

\* An event in D1 other than an artifact's.
LEMMA OtherD1Event ==
  ASSUME d1 \in Rows, NEW key \in LogKeys, d1'.log = Append(d1.log, key), key[1] # "artifact"
  PROVE  \A kind \in Kinds, s \in Nat : Projected(kind, s)' <=> Projected(kind, s)
BY D1Log DEF Projected, Artifact
LEMMA OtherMainEvent ==
  ASSUME main \in Rows, NEW key \in LogKeys, main'.log = Append(main.log, key), key[1] # "artifact"
  PROVE  \A kind \in Kinds, s \in Nat : Receipted(kind, s)' <=> Receipted(kind, s)
BY MainLog DEF Receipted, Artifact
LEMMA NoD1Event ==
  ASSUME d1' = d1
  PROVE  \A kind \in Kinds, s \in Nat : Projected(kind, s)' <=> Projected(kind, s)
BY SameD1 DEF Projected
LEMMA NoMainEvent ==
  ASSUME main' = main
  PROVE  \A kind \in Kinds, s \in Nat : Receipted(kind, s)' <=> Receipted(kind, s)
BY SameMain DEF Receipted

\* An artifact is projected when those before it are receipted.
LEMMA ArtifactProjected ==
  ASSUME d1 \in Rows, ArtifactsInTurn, NEW what \in Kinds, NEW scope \in Nat, main' = main,
         d1'.log = Append(d1.log, Artifact(what, scope)),
         \A kind \in Kinds : Turn(kind) < Turn(what) => Receipted(kind, scope)
  PROVE  ArtifactsInTurn' /\ Projected(what, scope)' /\ \A kind \in Kinds, s \in Nat : Projected(kind, s) => Projected(kind, s)'
<1>1. Artifact(what, scope) \in LogKeys
  BY KeysAreKeys
<1>2. \A kind \in Kinds, s \in Nat : Projected(kind, s)' <=> (Projected(kind, s) \/ (kind = what /\ s = scope))
  BY <1>1, D1Log DEF Projected, Artifact
<1>3. \A kind \in Kinds, s \in Nat : Receipted(kind, s)' <=> Receipted(kind, s)
  BY NoMainEvent
<1>4. QED
  BY <1>2, <1>3 DEF ArtifactsInTurn

\* An artifact is receipted when it is projected.
LEMMA ArtifactReceipted ==
  ASSUME main \in Rows, ArtifactsInTurn, NEW what \in Kinds, NEW scope \in Nat, d1' = d1,
         main'.log = Append(main.log, Artifact(what, scope)), Projected(what, scope)
  PROVE  ArtifactsInTurn' /\ Receipted(what, scope)' /\ \A kind \in Kinds, s \in Nat : Receipted(kind, s) => Receipted(kind, s)'
<1>1. Artifact(what, scope) \in LogKeys
  BY KeysAreKeys
<1>2. \A kind \in Kinds, s \in Nat : Receipted(kind, s)' <=> (Receipted(kind, s) \/ (kind = what /\ s = scope))
  BY <1>1, MainLog DEF Receipted, Artifact
<1>3. \A kind \in Kinds, s \in Nat : Projected(kind, s)' <=> Projected(kind, s)
  BY NoD1Event
<1>4. QED
  BY <1>2, <1>3 DEF ArtifactsInTurn

-----------------------------------------------------------------------------
(* Where a step may leave the Workflow.                                    *)

\* The Coordinator's hold is of a cycle within the bound as long as it is the same hold.
LEMMA MainScopeKept ==
  ASSUME LedgersInv, w.run = "live", HoldKeys' = HoldKeys, main' = main \/ main'.state # "needs_action"
  PROVE  (main.state = "needs_action" /\ FreshHold(main.code) => \E c \in 0..MaxHolds : Latest(main.code, c))'
<1>1. main.state = "needs_action" /\ FreshHold(main.code) => \E c \in 0..MaxHolds : Latest(main.code, c)
  BY DEF LedgersInv, ScopesOK
<1>2. CASE main' = main
  <2>1. Tagged(d1, "hold")' = Tagged(d1, "hold")
    BY DEF HoldKeys
  <2>2. QED
    BY <1>1, <1>2, <2>1 DEF FreshHold, Latest, HoldsWith
<1>3. CASE main'.state # "needs_action"
  BY <1>3
<1>4. QED
  BY <1>2, <1>3

\* A hold is announced, a failure, the end of the instance.
LEMMA HeldOK ==
  ASSUME LedgersInv, w.run = "live", NEW code \in HoldCodes, Hold(code), HoldKeys' = HoldKeys,
         main' = main \/ main'.state # "needs_action",
         RequiresFreshEpoch(code) => main'.state # "needs_action"
  PROVE  w' \in Instances /\ ScopesOK' /\ WalkOK'
<1>1. w' \in Instances
  BY DEF LedgersInv, Typed, Instances, Hold, Stages, Subs
<1>2. w'.run = "live" /\ w'.pc = "hold" /\ w'.sub = "d1" /\ w'.code = code
  BY DEF LedgersInv, Typed, Instances, Hold
<1>3. ~ Walking' /\ ~ Resuming'
  BY <1>2 DEF Walking, Resuming, Kinds, Calls
<1>4. QED
  BY <1>1, <1>2, <1>3, MainScopeKept DEF ScopesOK, WalkOK

LEMMA FailedOK ==
  ASSUME LedgersInv, w.run = "live", Fail, HoldKeys' = HoldKeys, main' = main
  PROVE  w' \in Instances /\ ScopesOK' /\ WalkOK'
<1>1. w' \in Instances
  BY DEF LedgersInv, Typed, Instances, Fail, Goto, Stages, Subs
<1>2. w'.run = "live" /\ w'.pc = "fail"
  BY DEF LedgersInv, Typed, Instances, Fail, Goto
<1>3. ~ Walking' /\ ~ Resuming'
  BY <1>2 DEF Walking, Resuming, Kinds, Calls
<1>4. QED
  BY <1>1, <1>2, <1>3, MainScopeKept DEF ScopesOK, WalkOK

LEMMA StoppedOK ==
  ASSUME LedgersInv, NEW how \in {"done", "errored"}, Stop(how)
  PROVE  w' \in Instances /\ w'.run = how /\ ScopesOK' /\ WalkOK'
<1>1. w' \in Instances /\ w'.run = how
  BY DEF LedgersInv, Typed, Instances, Stop
<1>2. QED
  BY <1>1 DEF ScopesOK, WalkOK, Walking, Resuming

\* The walk goes on.
LEMMA WalkedOK ==
  ASSUME w'.run = "live", w'.pc \in Kinds \cup Calls \cup {"sync", "verify"} \/ (w'.pc = "ready" /\ w'.sub = "d1"),
         main'.state \in WECHAT_RESUMABLE_STATES, w'.scope <= MaxHolds
  PROVE  ScopesOK'
<1>1. main'.state # "needs_action"
  BY Vocabulary DEF Moving, ExceptionalStates
<1>2. w'.pc # "resume" /\ w'.pc # "hold"
  BY DEF Kinds, Calls
<1>3. QED
  BY <1>1, <1>2 DEF ScopesOK, Walking, Resuming

-----------------------------------------------------------------------------
(* What the writes of the two ledgers and the faults come to.              *)

LEMMA FaultCounts ==
  ASSUME faults \in 0..MaxFaults, NEW place
  PROVE  /\ Fault(place) => faults' \in 0..MaxFaults
         /\ \A o \in Outcomes : Costs(place, o) => faults' \in 0..MaxFaults
BY WechatDraftOK DEF Fault, Costs

LEMMA WroteD1 ==
  ASSUME LedgersInv, NEW target \in Targets, NEW key \in LogKeys, NEW code \in HoldCodes, NEW same \in BOOLEAN,
         NEW o \in Outcomes, WriteD1(target, key, code, same, o)
  PROVE  /\ faults' \in 0..MaxFaults /\ D1Allows(target, same)
         /\ IF o = "failed" THEN d1' = d1
            ELSE d1' = WithEvent(d1, target, key, code) /\ d1' \in Rows /\ D1Row(d1') /\ d1'.log = Append(d1.log, key)
<1>1. faults' \in 0..MaxFaults
  BY FaultCounts DEF WriteD1, LedgersInv, Typed
<1>2. D1Allows(target, same) /\ d1' = IF o = "failed" THEN d1 ELSE WithEvent(d1, target, key, code)
  BY DEF WriteD1
<1>3. d1 \in Rows /\ D1Row(d1)
  BY DEF LedgersInv, Typed, RowsOK
<1>4. o # "failed" => d1' \in Rows /\ D1Row(d1')
  BY <1>2, <1>3, D1RowKept
<1>5. o # "failed" => d1'.log = Append(d1.log, key)
  BY <1>2, <1>3, RowGrows
<1>6. QED
  BY <1>1, <1>2, <1>4, <1>5

LEMMA WroteMain ==
  ASSUME LedgersInv, NEW target \in Moving \cup {"needs_action", "failed"}, NEW key \in LogKeys, NEW code \in HoldCodes,
         NEW o \in Outcomes, WriteMain(target, key, code, o)
  PROVE  /\ faults' \in 0..MaxFaults /\ MainAllows(target)
         /\ IF o = "failed" THEN main' = main
            ELSE /\ main' = WithEvent(main, target, key, code) /\ main' \in Rows /\ main'.state = target /\ main'.code = code
                 /\ main'.log = Append(main.log, key)
<1>1. faults' \in 0..MaxFaults
  BY FaultCounts DEF WriteMain, LedgersInv, Typed
<1>2. MainAllows(target) /\ main' = IF o = "failed" THEN main ELSE WithEvent(main, target, key, code)
  BY DEF WriteMain
<1>3. /\ WithEvent(main, target, key, code) \in Rows /\ WithEvent(main, target, key, code).state = target
      /\ WithEvent(main, target, key, code).code = code /\ WithEvent(main, target, key, code).log = Append(main.log, key)
  BY MainRowKept
<1>4. QED
  BY <1>1, <1>2, <1>3

LEMMA LedgersStill ==
  ASSUME LedgersInv, d1' = d1, main' = main
  PROVE  /\ RowsOK' /\ HoldsOK' /\ ArtifactsInTurn' /\ HoldKeys' = HoldKeys /\ ResumedKeys' = ResumedKeys
         /\ \A kind \in Kinds, s \in Nat : Receipted(kind, s)' <=> Receipted(kind, s)
         /\ \A kind \in Kinds, s \in Nat : Projected(kind, s)' <=> Projected(kind, s)
<1>1. HoldKeys' = HoldKeys /\ ResumedKeys' = ResumedKeys
  BY SameD1
<1>2. HoldsOK'
  BY <1>1, HoldsStill DEF LedgersInv
<1>3. /\ \A kind \in Kinds, s \in Nat : Receipted(kind, s)' <=> Receipted(kind, s)
      /\ \A kind \in Kinds, s \in Nat : Projected(kind, s)' <=> Projected(kind, s)
  BY NoD1Event, NoMainEvent
<1>4. ArtifactsInTurn'
  BY <1>3, SameArtifacts DEF LedgersInv
<1>5. RowsOK'
  BY DEF LedgersInv, RowsOK, D1Row
<1>6. QED
  BY <1>1, <1>2, <1>3, <1>4, <1>5

\* The stages after an artifact.
LEMMA FollowingArtifact ==
  ASSUME NEW pc \in Kinds
  PROVE  /\ Following(pc) \in (Kinds \cup Calls \cup {"sync", "verify"})
         /\ TurnAt(Following(pc)) <= Turn(pc) + 1
         /\ FirstSub(Following(pc)) \in {"keep", "ask", "d1"}
<1>1. CASE pc = "template"
  BY <1>1 DEF Kinds, Calls, Following, TurnAt, Turn, FirstSub
<1>2. CASE pc = "renderqa"
  <2>1. Following(pc) \in {"sync", "upload"}
    BY <1>2 DEF Following
  <2>2. QED
    BY <1>2, <2>1 DEF Kinds, Calls, TurnAt, Turn, FirstSub
<1>31. CASE pc = "image"
  BY <1>31 DEF Kinds, Calls, Following, TurnAt, Turn, FirstSub
<1>32. CASE pc = "package"
  BY <1>32 DEF Kinds, Calls, Following, TurnAt, Turn, FirstSub
<1>33. CASE pc = "preqa"
  BY <1>33 DEF Kinds, Calls, Following, TurnAt, Turn, FirstSub
<1>4. CASE pc = "receipt"
  <2>1. Following(pc) \in {"readback", "read"}
    BY <1>4 DEF Following
  <2>2. QED
    BY <1>4, <2>1 DEF Kinds, Calls, TurnAt, Turn, FirstSub
<1>5. CASE pc = "readback"
  BY <1>5 DEF Kinds, Calls, Following, TurnAt, Turn, FirstSub
<1>6. QED
  BY <1>1, <1>2, <1>31, <1>32, <1>33, <1>4, <1>5 DEF Kinds

\* The next stage is reached with the artifact receipted.
LEMMA PassedOK ==
  ASSUME LedgersInv, w.run = "live", w.pc \in Kinds, NEW scope, scope = w.scope, main'.state \in WECHAT_RESUMABLE_STATES,
         \A kind \in Kinds, s \in Nat : Receipted(kind, s) => Receipted(kind, s)',
         NEW what, what = w.pc, Receipted(what, scope)',
         w'.run = "live", w'.pc = Following(w.pc), w'.sub = FirstSub(Following(w.pc)), w'.scope = scope
  PROVE  ScopesOK' /\ WalkOK'
<1>1. Walking
  BY DEF Walking
<1>2. scope \in Nat /\ scope <= MaxHolds
  BY <1>1 DEF LedgersInv, ScopesOK, Typed, Instances
<1>3. \A kind \in Kinds : Turn(kind) < Turn(what) => Receipted(kind, scope)
  BY <1>1, Turns DEF LedgersInv, WalkOK
<1>4. /\ w'.pc \in Kinds \cup Calls \cup {"sync", "verify"} /\ TurnAt(w'.pc) <= Turn(what) + 1
      /\ w'.sub \in {"keep", "ask", "d1"}
  BY FollowingArtifact
<1>5. TurnAt(w'.pc) \in Int
  BY <1>4, Turns DEF Kinds, Calls, TurnAt
<1>6. ASSUME NEW kind \in Kinds, Turn(kind) < TurnAt(w'.pc) PROVE Receipted(kind, scope)'
  <2>1. Turn(kind) < Turn(what) \/ Turn(kind) = Turn(what)
    BY <1>4, <1>5, <1>6, Turns
  <2>2. QED
    BY <1>2, <1>3, <2>1, Turns
<1>7. ASSUME NEW kind \in Kinds, Turn(kind) < TurnAt(w'.pc) PROVE Receipted(kind, w.scope)'
  BY <1>6, <1>7 DEF Receipted, Has
<1>8. ScopesOK'
  BY <1>2, <1>4, WalkedOK
<1>9. WalkOK'
  BY <1>4, <1>7 DEF WalkOK
<1>10. QED
  BY <1>8, <1>9

-----------------------------------------------------------------------------
(* Every step keeps the ledgers in order.                                  *)

\* What a scope can be begun with.
LEMMA PassingScopes ==
  ASSUME Typed
  PROVE  /\ Passing # {} => TheOne(Passing) \in 0..MaxHolds
         /\ uniquePassingWechatReadback # {} => TheOne(uniquePassingWechatReadback) \in 0..MaxHolds /\ Passing # {}
         /\ Cardinality(uniquePassingWechatReadback) = 1 => uniquePassingWechatReadback # {}
<1>1. Passing \subseteq 0..MaxHolds /\ uniquePassingWechatReadback \subseteq Passing
  BY DEF Passing, uniquePassingWechatReadback
<1>2. Cardinality({}) # 1
  BY FS_EmptySet
<1>3. QED
  BY <1>1, <1>2, OneOf

\* The phase begins anew, or at its end when the draft was read back.
LEMMA BegunOK ==
  ASSUME LedgersInv, w.run = "live", NEW state, NEW scope \in 0..MaxHolds, NEW cycle \in Nat, StartInner(state, scope, cycle),
         main'.state \in WECHAT_RESUMABLE_STATES
  PROVE  w' \in Instances /\ ScopesOK' /\ WalkOK'
<1>1. w \in Instances
  BY DEF LedgersInv, Typed
<1>2. /\ w' \in Instances /\ w'.run = "live" /\ w'.scope \in 0..MaxHolds
      /\ (w'.pc = "verify" /\ w'.sub = "d1") \/ (w'.pc = "template" /\ w'.sub = "keep")
  <2>1. CASE state = "draft_verifying" /\ Cardinality(uniquePassingWechatReadback) = 1
    <3>1. TheOne(uniquePassingWechatReadback) \in 0..MaxHolds
      BY <2>1, PassingScopes DEF LedgersInv
    <3>2. w' = [w EXCEPT !.pc = "verify", !.sub = "d1", !.scope = TheOne(uniquePassingWechatReadback)]
      BY <2>1 DEF StartInner
    <3>3. PICK first : first = TheOne(uniquePassingWechatReadback)
      OBVIOUS
    <3>4. first \in Nat /\ first \in 0..MaxHolds /\ w' = [w EXCEPT !.pc = "verify", !.sub = "d1", !.scope = first]
      BY <3>1, <3>2, <3>3, WechatDraftOK
    <3>5. "verify" \in Stages /\ "d1" \in Subs
      BY DEF Stages, Subs
    <3>6. QED
      BY <1>1, <3>4, <3>5 DEF Instances
  <2>2. CASE ~ (state = "draft_verifying" /\ Cardinality(uniquePassingWechatReadback) = 1)
    <3>1. w' = [w EXCEPT !.pc = "template", !.sub = "keep", !.scope = scope, !.cycle = cycle,
                         !.draft = "none", !.mutation = "add", !.settle = <<>>]
      BY <2>2 DEF StartInner
    <3>2. "template" \in Stages /\ "keep" \in Subs /\ "none" \in Contents /\ scope \in Nat
      BY WechatDraftOK DEF Stages, Subs, Kinds, Contents
    <3>3. QED
      BY <1>1, <3>1, <3>2 DEF Instances
  <2>3. QED
    BY <2>1, <2>2
<1>3. w'.pc \in Kinds \cup Calls \cup {"sync", "verify"} /\ w'.scope <= MaxHolds
  BY <1>2, WechatDraftOK DEF Kinds, Calls
<1>4. ScopesOK'
  BY <1>2, <1>3, WalkedOK
<1>5. TurnAt(w'.pc) = 1
  BY <1>2 DEF TurnAt, Turn, Kinds
<1>6. WalkOK'
  BY <1>2, <1>5, Turns DEF WalkOK, Kinds
<1>7. QED
  BY <1>2, <1>4, <1>6

LEMMA EnterKeeps ==
  ASSUME LedgersInv, Enter
  PROVE  LedgersInv'
<1>1. /\ d1' = d1 /\ main' = main /\ UNCHANGED <<kept, ops, wechat, recording, late>> /\ w.run = "live"
  BY DEF Enter, At, external
<1>2. RowsOK' /\ HoldsOK' /\ ArtifactsInTurn' /\ HoldKeys' = HoldKeys
  BY <1>1, LedgersStill
<1>3. main.state \in Moving \cup {"needs_action", "failed"} /\ main.code \in HoldCodes
  BY DEF LedgersInv, RowsOK, Typed, Rows
<1>4. faults' \in 0..MaxFaults
  BY FaultCounts DEF Enter, LedgersInv, Typed
<1>5. w' \in Instances /\ ScopesOK' /\ WalkOK'
  <2>1. CASE \E how \in {"done", "errored"} : Stop(how)
    BY <2>1, StoppedOK
  <2>2. CASE Hold(NoAccount) /\ main.state \in WECHAT_RESUMABLE_STATES
    <3>1. main'.state # "needs_action" /\ NoAccount \in HoldCodes
      BY <1>1, <2>2, Vocabulary DEF HoldCodes
    <3>2. QED
      BY <1>1, <1>2, <2>2, <3>1, HeldOK
  <2>3. CASE StartInner(main.state, 0, 0) /\ main.state \in WECHAT_RESUMABLE_STATES
    BY <1>1, <2>3, BegunOK, WechatDraftOK
  <2>4. CASE /\ uniquePassingWechatReadback # {}
             /\ w' = [w EXCEPT !.pc = "ready", !.sub = "main", !.scope = TheOne(Passing)]
    <3>1. TheOne(Passing) \in Nat
      BY <2>4, PassingScopes, WechatDraftOK DEF LedgersInv
    <3>2. w' \in Instances /\ w'.run = "live" /\ w'.pc = "ready" /\ w'.sub = "main"
      BY <1>1, <2>4, <3>1 DEF LedgersInv, Typed, Instances, Stages, Subs
    <3>3. ~ Walking' /\ ~ Resuming'
      BY <3>2 DEF Walking, Resuming, Kinds, Calls
    <3>4. QED
      BY <1>1, <1>2, <3>2, <3>3, MainScopeKept DEF ScopesOK, WalkOK
  <2>5. CASE main.state = "needs_action" /\ w' = [w EXCEPT !.pc = "resume", !.sub = "receipts", !.code = main.code]
    <3>1. w' \in Instances /\ w'.run = "live" /\ w'.pc = "resume" /\ w'.sub = "receipts" /\ w'.code = main.code
      BY <1>1, <1>3, <2>5 DEF LedgersInv, Typed, Instances, Stages, Subs
    <3>2. ~ Walking'
      BY <3>1 DEF Walking, Kinds, Calls
    <3>3. (main.state = "needs_action" /\ FreshHold(main.code) => \E c \in 0..MaxHolds : Latest(main.code, c))'
      BY <1>1, <1>2, MainScopeKept
    <3>4. (FreshHold(w.code) => \E c \in 0..MaxHolds : Latest(w.code, c))'
      BY <1>1, <2>5, <3>1, <3>3 DEF FreshHold, Latest, HoldsWith
    <3>5. QED
      BY <1>1, <2>5, <3>1, <3>2, <3>3, <3>4 DEF ScopesOK, WalkOK
  <2>6. QED
    BY <2>1, <2>2, <2>3, <2>4, <2>5 DEF Enter
<1>6. QED
  BY <1>1, <1>2, <1>4, <1>5 DEF LedgersInv, Typed, OpsTyped, Kept

\* The Workflow stays at a stage, or goes to another of no later turn.
LEMMA StayedOK ==
  ASSUME LedgersInv, w.run = "live", w.pc \in Kinds \cup Calls \cup {"sync"}, NEW scope, scope = w.scope,
         main'.state \in WECHAT_RESUMABLE_STATES,
         \A kind \in Kinds, s \in Nat : Receipted(kind, s) => Receipted(kind, s)',
         w'.run = "live", w'.pc \in Kinds \cup Calls \cup {"sync"}, w'.scope = scope, TurnAt(w'.pc) <= TurnAt(w.pc),
         w'.sub = "co" /\ w'.pc \in Kinds => Projected(w.pc, scope)' /\ w'.pc = w.pc,
         w'.sub = "settle" /\ w'.pc \in Kinds => Receipted(w.pc, scope)' /\ w'.pc = w.pc
  PROVE  ScopesOK' /\ WalkOK'
<1>1. Walking
  BY DEF Walking
<1>2. scope \in Nat /\ scope <= MaxHolds
  BY <1>1 DEF LedgersInv, ScopesOK, Typed, Instances
<1>3. TurnAt(w.pc) \in Int /\ TurnAt(w'.pc) \in Int
  BY Turns DEF TurnAt, Calls
<1>4. ASSUME NEW kind \in Kinds, Turn(kind) < TurnAt(w'.pc) PROVE Receipted(kind, w.scope)'
  <2>1. Turn(kind) < TurnAt(w.pc)
    BY <1>3, <1>4, Turns
  <2>2. Receipted(kind, scope)'
    BY <1>1, <1>2, <2>1 DEF LedgersInv, WalkOK
  <2>3. QED
    BY <2>2 DEF Receipted, Has
<1>5. (w.pc \in Kinds /\ w.sub = "co" => Projected(w.pc, w.scope))'
  BY DEF Projected, Has
<1>6. (w.pc \in Kinds /\ w.sub = "settle" => Receipted(w.pc, w.scope))'
  BY DEF Receipted, Has
<1>7. ScopesOK'
  BY <1>2, WalkedOK
<1>8. WalkOK'
  BY <1>4, <1>5, <1>6 DEF WalkOK
<1>9. QED
  BY <1>7, <1>8

LEMMA KeepKeeps ==
  ASSUME LedgersInv, Keep
  PROVE  LedgersInv'
<1>1. /\ d1' = d1 /\ main' = main /\ UNCHANGED <<ops, wechat, recording, late>> /\ w.run = "live" /\ w.pc \in Kinds /\ Walking
  BY DEF Keep, At, external, Walking
<1>2. /\ RowsOK' /\ HoldsOK' /\ ArtifactsInTurn' /\ HoldKeys' = HoldKeys
      /\ \A kind \in Kinds, s \in Nat : Receipted(kind, s) => Receipted(kind, s)'
  BY <1>1, LedgersStill
<1>3. /\ w.scope \in 0..MaxHolds /\ main.state \in WECHAT_RESUMABLE_STATES /\ w \in Instances
  BY <1>1, WechatDraftOK DEF LedgersInv, ScopesOK, Typed, Instances
<1>4. faults' \in 0..MaxFaults
  BY FaultCounts DEF Keep, LedgersInv, Typed
<1>5. Kept' \subseteq Kinds \X (0..MaxHolds)
  <2>1. Kept' \subseteq Kept \cup {<<w.pc, w.scope>>}
    BY DEF Keep, Kept
  <2>2. QED
    BY <1>1, <1>3, <2>1 DEF LedgersInv, Typed
<1>6. w' \in Instances /\ ScopesOK' /\ WalkOK'
  <2>1. CASE Hold(Unknown)
    <3>1. Unknown \in HoldCodes /\ ~ RequiresFreshEpoch(Unknown)
      BY DEF HoldCodes, RequiresFreshEpoch, Unknown, Mismatch, Unread, NoAccount
    <3>2. QED
      BY <1>1, <1>2, <2>1, <3>1, HeldOK
  <2>2. CASE Then("event")
    <3>1. w' = [w EXCEPT !.sub = "event"] /\ w' \in Instances
      BY <1>1, <1>3, <2>2 DEF Then, Goto, Instances, Subs
    <3>2. PICK scope : scope = w.scope
      OBVIOUS
    <3>3. w'.run = "live" /\ w'.pc = w.pc /\ w'.scope = scope /\ w'.sub = "event" /\ main'.state \in WECHAT_RESUMABLE_STATES
      BY <1>1, <1>3, <3>1, <3>2 DEF Instances
    <3>4. TurnAt(w'.pc) <= TurnAt(w.pc)
      BY <1>1, <3>3, Turns
    <3>5. QED
      BY <1>1, <1>2, <3>1, <3>2, <3>3, <3>4, StayedOK
  <2>3. QED
    BY <2>1, <2>2 DEF Keep
<1>7. QED
  BY <1>1, <1>2, <1>4, <1>5, <1>6 DEF LedgersInv, Typed, OpsTyped

\* What is done once an artifact is in both ledgers.
LEMMA CommittedOK ==
  ASSUME LedgersInv, w.run = "live", w.pc \in Kinds, Committed, HoldKeys' = HoldKeys, main'.state \in WECHAT_RESUMABLE_STATES,
         \A kind \in Kinds, s \in Nat : Receipted(kind, s) => Receipted(kind, s)',
         NEW what, what = w.pc, NEW scope, scope = w.scope, Receipted(what, scope)'
  PROVE  w' \in Instances /\ ScopesOK' /\ WalkOK'
<1>1. w \in Instances
  BY DEF LedgersInv, Typed
<1>2. main'.state # "needs_action"
  BY Vocabulary DEF Moving, ExceptionalStates
<1>3. CASE Hold(Mismatch)
  <2>1. Mismatch \in HoldCodes
    BY DEF HoldCodes
  <2>2. QED
    BY <1>2, <1>3, <2>1, HeldOK
<1>4. CASE Then("settle")
  <2>1. w' = [w EXCEPT !.sub = "settle"] /\ w' \in Instances
    BY <1>1, <1>4 DEF Then, Goto, Instances, Subs
  <2>2. w'.run = "live" /\ w'.pc = w.pc /\ w'.scope = scope /\ w'.sub = "settle"
    BY <1>1, <2>1 DEF Instances
  <2>3. TurnAt(w'.pc) <= TurnAt(w.pc)
    BY <2>2, Turns
  <2>4. QED
    BY <2>1, <2>2, <2>3, StayedOK
<1>5. CASE Begin(Following(w.pc))
  <2>1. /\ Following(w.pc) \in Kinds \cup Calls \cup {"sync", "verify"}
        /\ FirstSub(Following(w.pc)) \in {"keep", "ask", "d1"}
    BY FollowingArtifact
  <2>2. PICK next : next = Following(w.pc)
    OBVIOUS
  <2>3. PICK sub : sub = FirstSub(Following(w.pc))
    OBVIOUS
  <2>4. w' = [w EXCEPT !.pc = next, !.sub = sub] /\ next \in Stages /\ sub \in Subs
    BY <1>5, <2>1, <2>2, <2>3 DEF Begin, Goto, Stages, Subs
  <2>5. w' \in Instances /\ w'.run = "live" /\ w'.pc = next /\ w'.sub = sub /\ w'.scope = scope
    BY <1>1, <2>4 DEF Instances
  <2>6. QED
    BY <2>2, <2>3, <2>5, PassedOK
<1>6. QED
  BY <1>3, <1>4, <1>5 DEF Committed, Continue

\* Doubts of the Workflow's own begin no scope.
LEMMA DoubtHeld ==
  ASSUME LedgersInv, w.run = "live", NEW code \in {Unknown, Unreconciled, Unresolved}, Hold(code), HoldKeys' = HoldKeys,
         main' = main \/ main'.state # "needs_action"
  PROVE  w' \in Instances /\ ScopesOK' /\ WalkOK'
<1>1. code \in HoldCodes /\ ~ RequiresFreshEpoch(code)
  BY DEF HoldCodes, RequiresFreshEpoch, Unknown, Unreconciled, Unresolved, Mismatch, Unread, NoAccount
<1>2. QED
  BY <1>1, HeldOK

\* A receipt for an artifact that D1 has.
LEMMA ReceiptWritten ==
  ASSUME LedgersInv, w.run = "live", NEW what \in Kinds, NEW scope \in Nat, NEW o \in Outcomes, d1' = d1, Projected(what, scope),
         NEW state \in WECHAT_RESUMABLE_STATES, WriteMain(state, Artifact(what, scope), "none", o)
  PROVE  /\ RowsOK' /\ HoldsOK' /\ ArtifactsInTurn' /\ HoldKeys' = HoldKeys /\ main' \in Rows /\ faults' \in 0..MaxFaults
         /\ main' = main \/ main'.state \in WECHAT_RESUMABLE_STATES
         /\ \A kind \in Kinds, s \in Nat : Receipted(kind, s) => Receipted(kind, s)'
         /\ o # "failed" => Receipted(what, scope)' /\ main'.state = state
<1>1. Artifact(what, scope) \in LogKeys /\ "none" \in HoldCodes /\ state \in Moving
  BY KeysAreKeys DEF HoldCodes, Moving
<1>2. /\ faults' \in 0..MaxFaults
      /\ IF o = "failed" THEN main' = main
         ELSE main' \in Rows /\ main'.state = state /\ main'.log = Append(main.log, Artifact(what, scope))
  BY <1>1, WroteMain
<1>3. main \in Rows /\ ArtifactsInTurn
  BY DEF LedgersInv, Typed
<1>4. HoldKeys' = HoldKeys /\ ResumedKeys' = ResumedKeys
  BY SameD1
<1>5. HoldsOK'
  BY <1>4, HoldsStill DEF LedgersInv
<1>6. RowsOK'
  BY <1>1, <1>2 DEF LedgersInv, RowsOK, D1Row
<1>7. CASE o = "failed"
  BY <1>2, <1>3, <1>4, <1>5, <1>6, <1>7, LedgersStill
<1>8. CASE o # "failed"
  <2>1. ArtifactsInTurn' /\ Receipted(what, scope)' /\ \A kind \in Kinds, s \in Nat : Receipted(kind, s) => Receipted(kind, s)'
    BY <1>2, <1>3, <1>8, ArtifactReceipted
  <2>2. QED
    BY <1>2, <1>4, <1>5, <1>6, <1>8, <2>1
<1>9. QED
  BY <1>7, <1>8

\* The Coordinator's write of the artifact at hand.
LEMMA ReceiptStepKeeps ==
  ASSUME LedgersInv, w.run = "live", w.pc \in Kinds, UNCHANGED <<d1, kept, recording, ops, wechat, late>>,
         NEW what, what = w.pc, NEW scope, scope = w.scope, Projected(what, scope), NEW code \in {Unreconciled, "co"},
         TryMain(artifactState(what, scope), Artifact(what, scope), "none", Committed,
                 IF code = "co" THEN Then("co") ELSE Hold(code))
  PROVE  LedgersInv'
<1>1. Walking /\ what \in Kinds /\ w \in Instances
  BY DEF Walking, LedgersInv, Typed
<1>2. scope \in 0..MaxHolds /\ scope \in Nat /\ main.state \in WECHAT_RESUMABLE_STATES
  BY <1>1, WechatDraftOK DEF LedgersInv, ScopesOK, Instances
<1>3. artifactState(what, scope) \in WECHAT_RESUMABLE_STATES
  BY <1>1, TargetIsCheckpoint DEF LedgersInv
<1>4. /\ RowsOK' /\ HoldsOK' /\ ArtifactsInTurn' /\ HoldKeys' = HoldKeys /\ main' \in Rows /\ faults' \in 0..MaxFaults
      /\ main'.state \in WECHAT_RESUMABLE_STATES
      /\ \A kind \in Kinds, s \in Nat : Receipted(kind, s) => Receipted(kind, s)'
      /\ (Committed /\ Receipted(what, scope)') \/ (IF code = "co" THEN Then("co") ELSE Hold(code))
  <2>1. CASE \E o \in Outcomes : /\ WriteMain(artifactState(what, scope), Artifact(what, scope), "none", o)
                                 /\ IF o = "failed" THEN (IF code = "co" THEN Then("co") ELSE Hold(code)) ELSE Committed
    <3>1. PICK o \in Outcomes : /\ WriteMain(artifactState(what, scope), Artifact(what, scope), "none", o)
                                /\ IF o = "failed" THEN (IF code = "co" THEN Then("co") ELSE Hold(code)) ELSE Committed
      BY <2>1
    <3>2. PICK state \in WECHAT_RESUMABLE_STATES : state = artifactState(what, scope)
      BY <1>3
    <3>3. /\ RowsOK' /\ HoldsOK' /\ ArtifactsInTurn' /\ HoldKeys' = HoldKeys /\ main' \in Rows /\ faults' \in 0..MaxFaults
          /\ main' = main \/ main'.state \in WECHAT_RESUMABLE_STATES
          /\ \A kind \in Kinds, s \in Nat : Receipted(kind, s) => Receipted(kind, s)'
          /\ o # "failed" => Receipted(what, scope)' /\ main'.state = state
      BY <1>1, <1>2, <3>1, <3>2, ReceiptWritten
    <3>4. QED
      BY <1>2, <3>1, <3>3
  <2>2. CASE UNCHANGED <<main, faults>> /\ (IF code = "co" THEN Then("co") ELSE Hold(code))
    BY <1>2, <2>2, LedgersStill DEF LedgersInv, Typed
  <2>3. QED
    BY <2>1, <2>2 DEF TryMain
<1>5. w' \in Instances /\ ScopesOK' /\ WalkOK'
  <2>1. main'.state # "needs_action"
    BY <1>4, Vocabulary DEF Moving, ExceptionalStates
  <2>2. CASE Committed /\ Receipted(what, scope)'
    BY <1>4, <2>2, CommittedOK
  <2>3. CASE code # "co" /\ Hold(code)
    BY <1>4, <2>1, <2>3, DoubtHeld
  <2>4. CASE Then("co")
    <3>1. w' = [w EXCEPT !.sub = "co"] /\ w' \in Instances
      BY <1>1, <2>4 DEF Then, Goto, Instances, Subs
    <3>2. w'.run = "live" /\ w'.pc = w.pc /\ w'.scope = scope /\ w'.sub = "co"
      BY <1>1, <3>1 DEF Instances
    <3>3. TurnAt(w'.pc) <= TurnAt(w.pc)
      BY <3>2, Turns
    <3>4. Projected(what, scope)'
      BY <1>1, <1>2, NoD1Event
    <3>5. QED
      BY <1>4, <3>1, <3>2, <3>3, <3>4, StayedOK
  <2>5. QED
    BY <1>4, <2>2, <2>3, <2>4
<1>6. QED
  BY <1>4, <1>5 DEF LedgersInv, Typed, OpsTyped, Kept

LEMMA ReceiptKeeps ==
  ASSUME LedgersInv, Receipt
  PROVE  LedgersInv'
<1>1. PICK what : what = w.pc
  OBVIOUS
<1>2. PICK scope : scope = w.scope
  OBVIOUS
<1>3. /\ w.run = "live" /\ what \in Kinds /\ w.sub = "co" /\ UNCHANGED <<d1, kept, recording, ops, wechat, late>>
      /\ TryMain(artifactState(what, scope), Artifact(what, scope), "none", Committed, Hold(Unreconciled))
  BY <1>1, <1>2 DEF Receipt, At, external
<1>4. Projected(what, scope)
  BY <1>1, <1>2, <1>3 DEF LedgersInv, WalkOK, Walking
<1>5. Unreconciled # "co"
  BY DEF Unreconciled
<1>6. QED
  BY <1>1, <1>2, <1>3, <1>4, <1>5, ReceiptStepKeeps

\* D1's event for the artifact at hand.
LEMMA ProjectionStepKeeps ==
  ASSUME LedgersInv, w.run = "live", w.pc \in Kinds, UNCHANGED <<main, kept, recording, ops, wechat, late>>,
         NEW what, what = w.pc, NEW scope, scope = w.scope,
         TryD1(artifactState(what, scope), Artifact(what, scope), "none", TRUE, Then("co"), Hold(Unknown))
  PROVE  LedgersInv'
<1>1. Walking /\ what \in Kinds /\ w \in Instances /\ d1 \in Rows /\ ArtifactsInTurn
  BY DEF Walking, LedgersInv, Typed
<1>2. scope \in Nat /\ main.state \in WECHAT_RESUMABLE_STATES
  BY <1>1 DEF LedgersInv, ScopesOK, Instances
<1>3. artifactState(what, scope) \in WECHAT_RESUMABLE_STATES
  BY <1>1, TargetIsCheckpoint DEF LedgersInv
<1>4. /\ artifactState(what, scope) \in Targets /\ Artifact(what, scope) \in LogKeys /\ "none" \in HoldCodes
  BY <1>1, <1>2, <1>3, KeysAreKeys DEF HoldCodes, Targets, Moving
<1>5. /\ faults' \in 0..MaxFaults
      /\ \/ d1' = d1 /\ Hold(Unknown)
         \/ d1' \in Rows /\ D1Row(d1') /\ d1'.log = Append(d1.log, Artifact(what, scope)) /\ (Then("co") \/ Hold(Unknown))
  <2>1. CASE \E o \in Outcomes : /\ WriteD1(artifactState(what, scope), Artifact(what, scope), "none", TRUE, o)
                                 /\ IF o = "done" THEN Then("co") ELSE Hold(Unknown)
    <3>1. PICK o \in Outcomes : /\ WriteD1(artifactState(what, scope), Artifact(what, scope), "none", TRUE, o)
                                /\ IF o = "done" THEN Then("co") ELSE Hold(Unknown)
      BY <2>1
    <3>2. /\ faults' \in 0..MaxFaults
          /\ IF o = "failed" THEN d1' = d1 ELSE d1' \in Rows /\ D1Row(d1') /\ d1'.log = Append(d1.log, Artifact(what, scope))
      BY <1>4, <3>1, WroteD1
    <3>3. QED
      BY <3>1, <3>2
  <2>2. CASE UNCHANGED <<d1, faults>> /\ Hold(Unknown)
    BY <2>2 DEF LedgersInv, Typed
  <2>3. QED
    BY <2>1, <2>2 DEF TryD1
<1>6. CASE d1' = d1 /\ Hold(Unknown)
  <2>1. RowsOK' /\ HoldsOK' /\ ArtifactsInTurn' /\ HoldKeys' = HoldKeys
    BY <1>6, LedgersStill
  <2>2. w' \in Instances /\ ScopesOK' /\ WalkOK'
    BY <1>6, <2>1, DoubtHeld
  <2>3. QED
    BY <1>5, <1>6, <2>1, <2>2 DEF LedgersInv, Typed, OpsTyped, Kept
<1>7. CASE d1' \in Rows /\ D1Row(d1') /\ d1'.log = Append(d1.log, Artifact(what, scope)) /\ (Then("co") \/ Hold(Unknown))
  <2>1. Artifact(what, scope)[1] \notin {"hold", "resumed"}
    BY DEF Artifact
  <2>2. HoldKeys' = HoldKeys /\ ResumedKeys' = ResumedKeys
    BY <1>1, <1>4, <1>7, <2>1, QuietD1
  <2>3. HoldsOK' /\ RowsOK'
    BY <1>7, <2>2, HoldsStill DEF LedgersInv, RowsOK
  <2>4. \A kind \in Kinds : Turn(kind) < Turn(what) => Receipted(kind, scope)
    BY <1>1, Turns DEF LedgersInv, WalkOK
  <2>5. ArtifactsInTurn' /\ Projected(what, scope)'
    BY <1>1, <1>2, <1>7, <2>4, ArtifactProjected
  <2>6. \A kind \in Kinds, s \in Nat : Receipted(kind, s) => Receipted(kind, s)'
    BY NoMainEvent
  <2>7. CASE Then("co")
    <3>1. w' = [w EXCEPT !.sub = "co"] /\ w' \in Instances
      BY <1>1, <2>7 DEF Then, Goto, Instances, Subs
    <3>2. w'.run = "live" /\ w'.pc = w.pc /\ w'.scope = scope /\ w'.sub = "co"
      BY <1>1, <3>1 DEF Instances
    <3>3. TurnAt(w'.pc) <= TurnAt(w.pc)
      BY <3>2, Turns
    <3>4. main'.state \in WECHAT_RESUMABLE_STATES
      BY <1>2
    <3>5. ScopesOK' /\ WalkOK'
      BY <2>5, <2>6, <3>1, <3>2, <3>3, <3>4, StayedOK
    <3>6. QED
      BY <1>5, <1>7, <2>3, <2>5, <3>1, <3>5 DEF LedgersInv, Typed, OpsTyped, Kept
  <2>8. CASE Hold(Unknown)
    <3>1. w' \in Instances /\ ScopesOK' /\ WalkOK'
      BY <2>2, <2>8, DoubtHeld
    <3>2. QED
      BY <1>5, <1>7, <2>3, <2>5, <3>1 DEF LedgersInv, Typed, OpsTyped, Kept
  <2>9. QED
    BY <1>7, <2>7, <2>8
<1>8. QED
  BY <1>5, <1>6, <1>7

\* Steps that leave the ledgers alone, and what else has a type.
LEMMA LedgersUntouched ==
  ASSUME LedgersInv, UNCHANGED <<d1, main, recording>>, Kept' \subseteq Kinds \X (0..MaxHolds), OpsTyped', faults' \in 0..MaxFaults,
         wechat' \in [drafts : Nat, content : Contents, mapped : BOOLEAN], late' \in Nat,
         w' \in Instances /\ ScopesOK' /\ WalkOK'
  PROVE  LedgersInv'
<1>1. RowsOK' /\ HoldsOK' /\ ArtifactsInTurn'
  BY LedgersStill
<1>2. QED
  BY <1>1 DEF LedgersInv, Typed

LEMMA CommitKeeps ==
  ASSUME LedgersInv, Commit
  PROVE  LedgersInv'
<1>1. PICK what : what = w.pc
  OBVIOUS
<1>2. PICK scope : scope = w.scope
  OBVIOUS
<1>3. /\ w.run = "live" /\ what \in Kinds /\ w.sub = "event" /\ UNCHANGED <<kept, recording, ops, wechat, late>>
      /\ scope \in Nat
  BY <1>1, <1>2 DEF Commit, At, external, LedgersInv, Typed, Instances
<1>4. CASE Receipted(what, scope)
  <2>1. UNCHANGED <<d1, main, faults>> /\ (Committed \/ Hold(Unreconciled))
    BY <1>1, <1>2, <1>4 DEF Commit, Receipted
  <2>2. /\ RowsOK' /\ HoldsOK' /\ ArtifactsInTurn' /\ HoldKeys' = HoldKeys
        /\ \A kind \in Kinds, s \in Nat : Receipted(kind, s)' <=> Receipted(kind, s)
    BY <2>1, LedgersStill
  <2>3. main'.state \in WECHAT_RESUMABLE_STATES
    BY <1>1, <1>3, <2>1 DEF LedgersInv, ScopesOK, Walking
  <2>4. w' \in Instances /\ ScopesOK' /\ WalkOK'
    <3>1. CASE Committed
      BY <1>1, <1>2, <1>3, <1>4, <2>2, <2>3, <3>1, CommittedOK
    <3>2. CASE Hold(Unreconciled)
      BY <1>3, <2>1, <2>2, <3>2, DoubtHeld
    <3>3. QED
      BY <2>1, <3>1, <3>2
  <2>5. QED
    BY <1>3, <2>1, <2>4, LedgersUntouched DEF LedgersInv, Typed, OpsTyped, Kept
<1>5. CASE ~ Receipted(what, scope) /\ Projected(what, scope)
  <2>1. /\ UNCHANGED d1
        /\ TryMain(artifactState(what, scope), Artifact(what, scope), "none", Committed,
                   IF "co" = "co" THEN Then("co") ELSE Hold("co"))
    BY <1>1, <1>2, <1>5 DEF Commit, Receipted, Projected
  <2>2. QED
    BY <1>1, <1>2, <1>3, <1>5, <2>1, ReceiptStepKeeps
<1>6. CASE ~ Receipted(what, scope) /\ ~ Projected(what, scope)
  <2>1. /\ UNCHANGED main
        /\ TryD1(artifactState(what, scope), Artifact(what, scope), "none", TRUE, Then("co"), Hold(Unknown))
    BY <1>1, <1>2, <1>6 DEF Commit, Receipted, Projected
  <2>2. QED
    BY <1>1, <1>2, <1>3, <2>1, ProjectionStepKeeps
<1>7. QED
  BY <1>4, <1>5, <1>6

-----------------------------------------------------------------------------
(* Operations.                                                             *)

LEMMA OperationKept ==
  ASSUME OpsTyped, NEW k \in OpKeys, NEW op \in OpRecords, Len(op.tries) = Len(op.there), Len(op.tries) \in 1..3, SetOp(k, op)
  PROVE  OpsTyped' /\ DOMAIN ops' = DOMAIN ops \cup {k}
BY DEF OpsTyped, SetOp

\* A result, or a claim, takes the place of the one there was.
LEMMA OperationTried ==
  ASSUME NEW op \in OpRecords, Len(op.tries) = Len(op.there), Len(op.tries) \in 1..3, NEW result \in TryStates
  PROVE  LET new == [op EXCEPT !.tries[Len(op.tries)] = result] IN
         new \in OpRecords /\ Len(new.tries) = Len(op.tries) /\ new.there = op.there /\ new.value = op.value
<1> DEFINE tries == [op.tries EXCEPT ![Len(op.tries)] = result]
<1>1. op.tries \in Seq(TryStates)
  BY DEF OpRecords
<1>2. tries \in Seq(TryStates) /\ Len(tries) = Len(op.tries)
  BY <1>1
<1>3. [op EXCEPT !.tries[Len(op.tries)] = result] = [op EXCEPT !.tries = tries]
  OBVIOUS
<1> HIDE DEF tries
<1>4. QED
  BY <1>2, <1>3 DEF OpRecords
LEMMA OperationClaimed ==
  ASSUME NEW op \in OpRecords, NEW n \in Nat, NEW claim \in Claims
  PROVE  LET new == [op EXCEPT !.there[n] = claim] IN
         new \in OpRecords /\ Len(new.there) = Len(op.there) /\ new.tries = op.tries /\ new.value = op.value
<1> DEFINE there == [op.there EXCEPT ![n] = claim]
<1>1. op.there \in Seq(Claims)
  BY DEF OpRecords
<1>2. there \in Seq(Claims) /\ Len(there) = Len(op.there)
  <2>1. Len(op.there) \in Nat /\ op.there \in [1..Len(op.there) -> Claims]
    BY <1>1
  <2>2. there \in [1..Len(op.there) -> Claims]
    BY <2>1
  <2>3. QED
    BY <2>1, <2>2
<1>3. [op EXCEPT !.there[n] = claim] = [op EXCEPT !.there = there]
  OBVIOUS
<1> HIDE DEF there
<1>4. QED
  BY <1>2, <1>3 DEF OpRecords

\* A step of the walk ends in a hold.
LEMMA WalkHeld ==
  ASSUME LedgersInv, Walking, main' = main, HoldKeys' = HoldKeys, NEW code \in HoldCodes, Hold(code)
  PROVE  w' \in Instances /\ ScopesOK' /\ WalkOK'
<1>1. main'.state # "needs_action"
  BY Vocabulary DEF LedgersInv, ScopesOK, Moving, ExceptionalStates
<1>2. QED
  BY <1>1, HeldOK DEF Walking
LEMMA CodesNamed ==
  {Unknown, Unreconciled, Unresolved, Mismatch, Unread, NoAccount, Reconciled, "none"} = HoldCodes
BY DEF HoldCodes

LEMMA SettleKeeps ==
  ASSUME LedgersInv, CallsMade, Settle
  PROVE  LedgersInv'
<1>1. PICK what : what = w.pc
  OBVIOUS
<1>2. PICK scope : scope = w.scope
  OBVIOUS
<1>3. PICK k : k = w.settle
  OBVIOUS
<1>4. PICK o \in Outcomes :
        /\ Costs("settle", o)
        /\ SetOp(k, [Op(k) EXCEPT !.tries = IF o = "failed" THEN @ ELSE [@ EXCEPT ![Len(@)] = "ok"]])
        /\ IF o # "done" THEN Hold(Unknown)
           ELSE IF w.pc = "readback" /\ w.draft # "package" THEN Hold(Mismatch)
           ELSE w' = [w EXCEPT !.pc = Following(w.pc), !.sub = FirstSub(Following(w.pc)), !.settle = <<>>]
  BY <1>3 DEF Settle
<1>5. /\ w.run = "live" /\ what \in Kinds /\ w.sub = "settle" /\ UNCHANGED <<d1, main, kept, wechat, recording, late>>
      /\ Walking /\ w \in Instances /\ k \in DOMAIN ops /\ Receipted(what, scope)
  BY <1>1, <1>2, <1>3 DEF Settle, At, Walking, CallsMade, LedgersInv, Typed, WalkOK
<1>6. faults' \in 0..MaxFaults
  BY <1>4, FaultCounts DEF LedgersInv, Typed
<1>7. OpsTyped'
  <2>1. k \in OpKeys /\ Op(k) \in OpRecords /\ Len(Op(k).tries) = Len(Op(k).there) /\ Len(Op(k).tries) \in 1..3
    BY <1>5 DEF LedgersInv, Typed, OpsTyped, Op
  <2>2. PICK op \in OpRecords : op = Op(k)
    BY <2>1
  <2>3. CASE o = "failed"
    <3>1. SetOp(k, op)
      BY <1>4, <2>2, <2>3 DEF OpRecords
    <3>2. QED
      BY <2>1, <2>2, <3>1, OperationKept DEF LedgersInv, Typed
  <2>4. CASE o # "failed"
    <3>1. SetOp(k, [op EXCEPT !.tries[Len(op.tries)] = "ok"])
      BY <1>4, <2>2, <2>4
    <3> DEFINE new == [op EXCEPT !.tries[Len(op.tries)] = "ok"]
    <3>2. new \in OpRecords /\ Len(new.tries) = Len(op.tries) /\ new.there = op.there
      BY <2>1, <2>2, OperationTried DEF TryStates
    <3> HIDE DEF new
    <3>3. SetOp(k, new)
      BY <3>1 DEF new
    <3>4. Len(new.tries) = Len(new.there) /\ Len(new.tries) \in 1..3
      BY <2>1, <2>2, <3>2
    <3>5. QED
      BY <2>1, <3>2, <3>3, <3>4, OperationKept DEF LedgersInv, Typed
  <2>5. QED
    BY <2>3, <2>4
<1>8. w' \in Instances /\ ScopesOK' /\ WalkOK'
  <2>1. /\ HoldKeys' = HoldKeys /\ main'.state \in WECHAT_RESUMABLE_STATES
        /\ \A kind \in Kinds, s \in Nat : Receipted(kind, s) => Receipted(kind, s)'
    BY <1>5, LedgersStill DEF LedgersInv, ScopesOK
  <2>2. CASE \E code \in HoldCodes : Hold(code)
    BY <1>5, <2>1, <2>2, WalkHeld
  <2>3. CASE w' = [w EXCEPT !.pc = Following(w.pc), !.sub = FirstSub(Following(w.pc)), !.settle = <<>>]
    <3>1. /\ Following(w.pc) \in Kinds \cup Calls \cup {"sync", "verify"}
          /\ FirstSub(Following(w.pc)) \in {"keep", "ask", "d1"}
      BY <1>1, <1>5, FollowingArtifact
    <3>2. PICK next : next = Following(w.pc)
      OBVIOUS
    <3>3. PICK sub : sub = FirstSub(Following(w.pc))
      OBVIOUS
    <3>4. w' = [w EXCEPT !.pc = next, !.sub = sub, !.settle = <<>>] /\ next \in Stages /\ sub \in Subs
      BY <2>3, <3>1, <3>2, <3>3 DEF Stages, Subs
    <3>5. w' \in Instances /\ w'.run = "live" /\ w'.pc = next /\ w'.sub = sub /\ w'.scope = scope
      BY <1>2, <1>5, <3>4 DEF Instances
    <3>6. Receipted(what, scope)'
      BY <1>5, SameMain DEF Receipted
    <3>7. QED
      BY <1>1, <1>2, <1>5, <2>1, <3>2, <3>3, <3>5, <3>6, PassedOK
  <2>4. QED
    BY <1>4, <2>2, <2>3, CodesNamed
<1>9. Kept' \subseteq Kinds \X (0..MaxHolds) /\ wechat' \in [drafts : Nat, content : Contents, mapped : BOOLEAN] /\ late' \in Nat
  BY <1>5 DEF LedgersInv, Typed, Kept
<1>10. QED
  BY <1>5, <1>6, <1>7, <1>8, <1>9, LedgersUntouched

-----------------------------------------------------------------------------
(* The checkpoint before the uploads.                                      *)

LEMMA QuietD1Write ==
  ASSUME LedgersInv, NEW target \in Targets, NEW key \in LogKeys, key[1] \notin {"artifact", "hold", "resumed"},
         NEW code \in HoldCodes, NEW same \in BOOLEAN, main' = main,
         (\E o \in Outcomes : WriteD1(target, key, code, same, o)) \/ UNCHANGED <<d1, faults>>
  PROVE  /\ d1' \in Rows /\ faults' \in 0..MaxFaults /\ RowsOK' /\ HoldsOK' /\ ArtifactsInTurn' /\ HoldKeys' = HoldKeys
         /\ \A kind \in Kinds, s \in Nat : Receipted(kind, s) => Receipted(kind, s)'
<1>1. d1 \in Rows /\ D1Row(d1) /\ ArtifactsInTurn /\ HoldsOK /\ faults \in 0..MaxFaults
  BY DEF LedgersInv, Typed, RowsOK
<1>2. \A kind \in Kinds, s \in Nat : Receipted(kind, s) => Receipted(kind, s)'
  BY NoMainEvent
<1>3. CASE d1' = d1 /\ faults' \in 0..MaxFaults
  BY <1>1, <1>2, <1>3, LedgersStill
<1>4. CASE faults' \in 0..MaxFaults /\ d1' \in Rows /\ D1Row(d1') /\ d1'.log = Append(d1.log, key)
  <2>1. HoldKeys' = HoldKeys /\ ResumedKeys' = ResumedKeys
    BY <1>1, <1>4, QuietD1
  <2>2. HoldsOK'
    BY <1>1, <2>1, HoldsStill
  <2>3. ArtifactsInTurn'
    BY <1>1, <1>4, SameArtifacts, OtherD1Event, NoMainEvent
  <2>4. RowsOK'
    BY <1>4 DEF LedgersInv, RowsOK
  <2>5. QED
    BY <1>2, <1>4, <2>1, <2>2, <2>3, <2>4
<1>5. QED
  BY <1>1, <1>3, <1>4, WroteD1

LEMMA QuietMainWrite ==
  ASSUME LedgersInv, NEW target \in Moving \cup {"needs_action", "failed"}, NEW key \in LogKeys, key[1] # "artifact",
         NEW code \in HoldCodes, d1' = d1,
         (\E o \in Outcomes : WriteMain(target, key, code, o)) \/ UNCHANGED <<main, faults>>
  PROVE  /\ main' \in Rows /\ faults' \in 0..MaxFaults /\ RowsOK' /\ HoldsOK' /\ ArtifactsInTurn' /\ HoldKeys' = HoldKeys
         /\ main' = main \/ main'.state = target
         /\ \A kind \in Kinds, s \in Nat : Receipted(kind, s) => Receipted(kind, s)'
<1>1. main \in Rows /\ ArtifactsInTurn /\ HoldsOK /\ faults \in 0..MaxFaults
  BY DEF LedgersInv, Typed, RowsOK
<1>2. HoldKeys' = HoldKeys /\ ResumedKeys' = ResumedKeys
  BY SameD1
<1>3. HoldsOK'
  BY <1>1, <1>2, HoldsStill
<1>4. CASE main' = main /\ faults' \in 0..MaxFaults
  BY <1>1, <1>4, LedgersStill
<1>5. CASE faults' \in 0..MaxFaults /\ main' \in Rows /\ main'.state = target /\ main'.log = Append(main.log, key)
  <2>1. \A kind \in Kinds, s \in Nat : Receipted(kind, s)' <=> Receipted(kind, s)
    BY <1>1, <1>5, OtherMainEvent
  <2>2. ArtifactsInTurn'
    BY <1>1, <2>1, SameArtifacts, NoD1Event
  <2>3. RowsOK'
    BY <1>5 DEF LedgersInv, RowsOK, D1Row
  <2>4. QED
    BY <1>2, <1>3, <1>5, <2>1, <2>2, <2>3
<1>6. QED
  BY <1>1, <1>4, <1>5, WroteMain

LEMMA SyncD1Keeps ==
  ASSUME LedgersInv, SyncD1
  PROVE  LedgersInv'
<1>1. PICK scope : scope = w.scope
  OBVIOUS
<1>2. /\ w.run = "live" /\ w.pc = "sync" /\ w.sub = "d1" /\ UNCHANGED <<main, kept, recording, ops, wechat, late>>
      /\ Walking /\ w \in Instances /\ scope \in Nat /\ main.state \in WECHAT_RESUMABLE_STATES
  BY <1>1 DEF SyncD1, At, external, Walking, LedgersInv, Typed, Instances, ScopesOK
<1>3. /\ (\E o \in Outcomes : WriteD1("draft_syncing", <<"sync", "none", scope>>, "none", TRUE, o)) \/ UNCHANGED <<d1, faults>>
      /\ Then("main") \/ \E code \in {Unknown, Unreconciled, Unresolved} : Hold(code)
  BY <1>1 DEF SyncD1, TryD1
<1>4. /\ d1' \in Rows /\ faults' \in 0..MaxFaults /\ RowsOK' /\ HoldsOK' /\ ArtifactsInTurn' /\ HoldKeys' = HoldKeys
      /\ \A kind \in Kinds, s \in Nat : Receipted(kind, s) => Receipted(kind, s)'
  <2>1. <<"sync", "none", scope>> \in LogKeys /\ "none" \in HoldCodes /\ "draft_syncing" \in Targets
    BY <1>2, KeysAreKeys, Vocabulary DEF HoldCodes, Targets, Moving
  <2>2. <<"sync", "none", scope>>[1] \notin {"artifact", "hold", "resumed"}
    OBVIOUS
  <2>3. QED
    BY <1>2, <1>3, <2>1, <2>2, QuietD1Write
<1>5. w' \in Instances /\ ScopesOK' /\ WalkOK'
  <2>1. CASE \E code \in {Unknown, Unreconciled, Unresolved} : Hold(code)
    BY <1>2, <1>4, <2>1, DoubtHeld
  <2>2. CASE Then("main")
    <3>1. w' = [w EXCEPT !.sub = "main"] /\ w' \in Instances
      BY <1>2, <2>2 DEF Then, Goto, Instances, Subs
    <3>2. w'.run = "live" /\ w'.pc = "sync" /\ w'.scope = scope /\ w'.sub = "main" /\ TurnAt(w'.pc) <= TurnAt(w.pc)
      BY <1>1, <1>2, <3>1 DEF Instances, TurnAt, Kinds
    <3>3. QED
      BY <1>1, <1>2, <1>4, <3>1, <3>2, StayedOK
  <2>3. QED
    BY <1>3, <2>1, <2>2
<1>6. QED
  BY <1>2, <1>4, <1>5 DEF LedgersInv, Typed, OpsTyped, Kept

LEMMA SyncMainKeeps ==
  ASSUME LedgersInv, SyncMain
  PROVE  LedgersInv'
<1>1. PICK scope : scope = w.scope
  OBVIOUS
<1>2. /\ w.run = "live" /\ w.pc = "sync" /\ UNCHANGED <<d1, kept, recording, ops, wechat, late>>
      /\ Walking /\ w \in Instances /\ scope \in Nat /\ main.state \in WECHAT_RESUMABLE_STATES
  BY <1>1 DEF SyncMain, At, external, Walking, LedgersInv, Typed, Instances, ScopesOK
<1>3. /\ (\E o \in Outcomes : WriteMain("draft_syncing", <<"sync", "none", scope>>, "none", o)) \/ UNCHANGED <<main, faults>>
      /\ Then("again") \/ Begin("upload") \/ \E code \in {Unknown, Unreconciled, Unresolved} : Hold(code)
  BY <1>1 DEF SyncMain, TryMain
<1>4. /\ main' \in Rows /\ faults' \in 0..MaxFaults /\ RowsOK' /\ HoldsOK' /\ ArtifactsInTurn' /\ HoldKeys' = HoldKeys
      /\ main'.state \in WECHAT_RESUMABLE_STATES
      /\ \A kind \in Kinds, s \in Nat : Receipted(kind, s) => Receipted(kind, s)'
  <2>1. <<"sync", "none", scope>> \in LogKeys /\ "none" \in HoldCodes /\ "draft_syncing" \in Moving \cup {"needs_action", "failed"}
        /\ "draft_syncing" \in WECHAT_RESUMABLE_STATES
    BY <1>2, KeysAreKeys, Vocabulary DEF HoldCodes, Targets, Moving
  <2>2. <<"sync", "none", scope>>[1] # "artifact"
    OBVIOUS
  <2>3. QED
    BY <1>2, <1>3, <2>1, <2>2, QuietMainWrite
<1>5. w' \in Instances /\ ScopesOK' /\ WalkOK'
  <2>1. CASE \E code \in {Unknown, Unreconciled, Unresolved} : Hold(code)
    <3>1. main'.state # "needs_action"
      BY <1>4, Vocabulary DEF Moving, ExceptionalStates
    <3>2. QED
      BY <1>2, <1>4, <2>1, <3>1, DoubtHeld
  <2>2. CASE Then("again")
    <3>1. w' = [w EXCEPT !.sub = "again"] /\ w' \in Instances
      BY <1>2, <2>2 DEF Then, Goto, Instances, Subs
    <3>2. w'.run = "live" /\ w'.pc = "sync" /\ w'.scope = scope /\ w'.sub = "again" /\ TurnAt(w'.pc) <= TurnAt(w.pc)
      BY <1>1, <1>2, <3>1 DEF Instances, TurnAt, Kinds
    <3>3. QED
      BY <1>1, <1>2, <1>4, <3>1, <3>2, StayedOK
  <2>3. CASE Begin("upload")
    <3>1. w' = [w EXCEPT !.pc = "upload", !.sub = "ask"] /\ w' \in Instances
      BY <1>2, <2>3 DEF Begin, FirstSub, Goto, Instances, Subs, Stages, Calls
    <3>2. w'.run = "live" /\ w'.pc = "upload" /\ w'.scope = scope /\ w'.sub = "ask" /\ TurnAt(w'.pc) <= TurnAt(w.pc)
      BY <1>1, <1>2, <3>1 DEF Instances, TurnAt, Kinds
    <3>3. "upload" \in Calls
      BY DEF Calls
    <3>4. QED
      BY <1>1, <1>2, <1>4, <3>1, <3>2, <3>3, StayedOK
  <2>4. QED
    BY <1>3, <2>1, <2>2, <2>3
<1>6. QED
  BY <1>2, <1>4, <1>5 DEF LedgersInv, Typed, OpsTyped, Kept

-----------------------------------------------------------------------------
(* Calls.                                                                  *)

LEMMA OperationsHave ==
  ASSUME OpsTyped, NEW k
  PROVE  /\ Op(k) \in OpRecords /\ Len(Op(k).tries) = Len(Op(k).there) /\ Len(Op(k).tries) \in 0..3
         /\ k \in DOMAIN ops => Len(Op(k).tries) \in 1..3 /\ k \in OpKeys /\ Op(k) = ops[k]
<1>1. CASE k \in DOMAIN ops
  BY <1>1 DEF OpsTyped, Op
<1>2. CASE k \notin DOMAIN ops
  BY <1>2 DEF Op, NoOp, OpRecords, Contents
<1>3. QED
  BY <1>1, <1>2

LEMMA CallIsOperation ==
  ASSUME LedgersInv, CallsMade, Walking, w.pc \in Calls
  PROVE  OpOf(w.pc) \in OpKeys
<1>1. w.scope \in Nat /\ w.cycle \in Nat /\ Len(main.log) \in Nat
  BY DEF LedgersInv, Typed, Instances, Rows
<1>2. w.pc = "write" => w.mutation \in {"add", "update"}
  BY DEF CallsMade
<1>3. QED
  BY <1>1, <1>2 DEF OpOf, OpKeys, OpNames, Calls

\* A call's turn is that of the artifact it is for.
LEMMA CallTurns ==
  /\ TurnAt("upload") = 3 /\ TurnAt("map") = 6 /\ TurnAt("find") = 6 /\ TurnAt("write") = 6 /\ TurnAt("findNow") = 6
  /\ TurnAt("read") = 7 /\ TurnAt("image") = 3 /\ TurnAt("receipt") = 6 /\ TurnAt("readback") = 7
  /\ \A pc \in Calls : TurnAt(pc) \in 1..7
<1>1. /\ TurnAt("upload") = 3 /\ TurnAt("map") = 6 /\ TurnAt("find") = 6 /\ TurnAt("write") = 6 /\ TurnAt("findNow") = 6
      /\ TurnAt("read") = 7
  BY DEF TurnAt, Kinds
<1>2. TurnAt("image") = 3 /\ TurnAt("receipt") = 6 /\ TurnAt("readback") = 7
  BY DEF TurnAt, Turn, Kinds
<1>3. QED
  BY <1>1, <1>2 DEF Calls

\* The Workflow goes on at a stage of the same turn.
LEMMA CallStays ==
  ASSUME LedgersInv, Walking, w.pc \in Calls, UNCHANGED <<d1, main>>, NEW scope, scope = w.scope,
         w'.run = "live", w'.pc \in Kinds \cup Calls, w'.scope = scope, w'.sub \notin {"co", "settle"},
         TurnAt(w'.pc) = TurnAt(w.pc)
  PROVE  ScopesOK' /\ WalkOK'
<1>1. \A kind \in Kinds, s \in Nat : Receipted(kind, s) => Receipted(kind, s)'
  BY NoMainEvent
<1>2. main'.state \in WECHAT_RESUMABLE_STATES
  BY DEF LedgersInv, ScopesOK
<1>3. TurnAt(w'.pc) <= TurnAt(w.pc)
  <2>1. PICK turn \in 1..7 : turn = TurnAt(w.pc)
    BY CallTurns
  <2>2. turn <= turn
    BY <2>1
  <2>3. QED
    BY <2>1, <2>2, Zenon
<1>4. QED
  BY <1>1, <1>2, <1>3, StayedOK DEF Walking

\* The steps of a call end in one of these.
LEMMA CallEnds ==
  ASSUME LedgersInv, CallsMade, Walking, w.pc \in Calls, UNCHANGED <<d1, main>>, NEW k, k = OpOf(w.pc),
         \/ Fail \/ NotKnown(k) \/ \E code \in HoldCodes : Hold(code)
         \/ \E sub \in {"ask", "wait"} : Then(sub)
         \/ \E sub \in {"send", "query"}, n \in Nat : w' = [w EXCEPT !.sub = sub, !.try = n]
  PROVE  w' \in Instances /\ ScopesOK' /\ WalkOK'
<1>1. w \in Instances /\ k \in OpKeys /\ w.run = "live"
  BY CallIsOperation DEF LedgersInv, Typed, Walking
<1>2. PICK scope : scope = w.scope
  OBVIOUS
<1>3. HoldKeys' = HoldKeys
  BY SameD1
<1>4. CASE Fail
  BY <1>1, <1>3, <1>4, FailedOK
<1>5. CASE \E code \in HoldCodes : Hold(code)
  BY <1>3, <1>5, WalkHeld
<1>6. CASE \E sub \in {"ask", "wait"} : Then(sub)
  <2>1. PICK sub \in {"ask", "wait"} : w' = [w EXCEPT !.sub = sub]
    BY <1>1, <1>6 DEF Then, Goto, Instances
  <2>2. w' \in Instances /\ w'.run = "live" /\ w'.pc = w.pc /\ w'.scope = scope /\ w'.sub \notin {"co", "settle"}
    BY <1>1, <1>2, <2>1 DEF Instances, Subs
  <2>3. TurnAt(w'.pc) = TurnAt(w.pc)
    BY <2>2
  <2>4. QED
    BY <1>2, <2>2, <2>3, CallStays
<1>7. CASE \E sub \in {"send", "query"}, n \in Nat : w' = [w EXCEPT !.sub = sub, !.try = n]
  <2>1. w' \in Instances /\ w'.run = "live" /\ w'.pc = w.pc /\ w'.scope = scope /\ w'.sub \notin {"co", "settle"}
    BY <1>1, <1>2, <1>7 DEF Instances, Subs
  <2>2. TurnAt(w'.pc) = TurnAt(w.pc)
    BY <2>1
  <2>3. QED
    BY <1>2, <2>1, <2>2, CallStays
<1>8. CASE k[1] = "add" /\ w' = [w EXCEPT !.pc = "findNow", !.sub = "ask", !.settle = k]
  <2>1. w.pc = "write"
    BY <1>8 DEF OpOf, Calls
  <2>2. w' \in Instances /\ w'.run = "live" /\ w'.pc = "findNow" /\ w'.scope = scope /\ w'.sub \notin {"co", "settle"}
    BY <1>1, <1>2, <1>8 DEF Instances, Subs, Stages, Calls
  <2>3. "findNow" \in Calls /\ TurnAt(w'.pc) = TurnAt(w.pc)
    BY <2>1, <2>2, CallTurns DEF Calls
  <2>4. QED
    BY <1>2, <2>2, <2>3, CallStays
<1>9. QED
  BY <1>4, <1>5, <1>6, <1>7, <1>8, CodesNamed DEF NotKnown

LEMMA AskKeeps ==
  ASSUME LedgersInv, CallsMade, Ask
  PROVE  LedgersInv'
<1>1. PICK k : k = OpOf(w.pc)
  OBVIOUS
<1>2. PICK op \in OpRecords : op = Op(k) /\ Len(op.tries) = Len(op.there) /\ Len(op.tries) \in 0..3
  BY OperationsHave DEF LedgersInv, Typed
<1>3. /\ UNCHANGED <<d1, main, kept, wechat, recording, late>> /\ w.run = "live" /\ w.pc \in Calls /\ Walking
  BY DEF Ask, At, Walking
<1>4. \/ /\ LastOf(op.tries) \in {"open", "ok"} /\ UNCHANGED <<ops, faults>>
         /\ w' = [w EXCEPT !.sub = "query", !.try = IF LastOf(op.tries) = "ok" THEN 1 ELSE Len(op.tries)]
      \/ Fail /\ UNCHANGED <<ops, faults>>
      \/ /\ LastOf(op.tries) = "none" \/ (LastOf(op.tries) = "retryable" /\ Len(op.tries) < 3)
         /\ \E o \in Outcomes :
              /\ Costs("call", o)
              /\ IF o = "failed" THEN UNCHANGED ops
                 ELSE SetOp(k, [op EXCEPT !.tries = Append(@, "open"), !.there = Append(@, "none")])
              /\ IF o = "done" THEN w' = [w EXCEPT !.sub = "send", !.try = Len(op.tries) + 1] ELSE Hold(Unknown)
  BY <1>1, <1>2 DEF Ask
<1>5. op.tries \in Seq(TryStates) /\ op.there \in Seq(Claims)
  BY DEF OpRecords
<1>6. LastOf(op.tries) = "none" => Len(op.tries) = 0
  BY <1>2, <1>5 DEF LastOf, TryStates
<1>7. faults' \in 0..MaxFaults
  BY <1>4, FaultCounts DEF LedgersInv, Typed
<1>8. OpsTyped'
  <2>1. CASE UNCHANGED ops
    BY <2>1 DEF LedgersInv, Typed, OpsTyped
  <2>2. CASE /\ LastOf(op.tries) = "none" \/ (LastOf(op.tries) = "retryable" /\ Len(op.tries) < 3)
             /\ SetOp(k, [op EXCEPT !.tries = Append(@, "open"), !.there = Append(@, "none")])
    <3> DEFINE new == [op EXCEPT !.tries = Append(@, "open"), !.there = Append(@, "none")]
    <3>1. Len(op.tries) < 3
      BY <1>6, <2>2
    <3>2. Append(op.tries, "open") \in Seq(TryStates) /\ Append(op.there, "none") \in Seq(Claims)
      BY <1>5 DEF TryStates, Claims
    <3>3. new \in OpRecords /\ new.tries = Append(op.tries, "open") /\ new.there = Append(op.there, "none")
      BY <3>2 DEF OpRecords
    <3>4. SetOp(k, new)
      BY <2>2
    <3> HIDE DEF new
    <3>5. Len(new.tries) = Len(new.there) /\ Len(new.tries) \in 1..3
      BY <1>2, <1>5, <3>1, <3>3
    <3>6. k \in OpKeys
      BY <1>1, <1>3, CallIsOperation
    <3>7. QED
      BY <3>3, <3>4, <3>5, <3>6, OperationKept DEF LedgersInv, Typed
  <2>3. QED
    BY <1>4, <2>1, <2>2
<1>9. w' \in Instances /\ ScopesOK' /\ WalkOK'
  <2>1. (IF LastOf(op.tries) = "ok" THEN 1 ELSE Len(op.tries)) \in Nat /\ Len(op.tries) + 1 \in Nat /\ Unknown \in HoldCodes
    BY <1>2 DEF HoldCodes
  <2>2. \/ Fail \/ \E code \in HoldCodes : Hold(code)
        \/ \E sub \in {"send", "query"}, n \in Nat : w' = [w EXCEPT !.sub = sub, !.try = n]
    BY <1>4, <2>1
  <2>3. QED
    BY <1>1, <1>3, <2>2, CallEnds
<1>10. Kept' \subseteq Kinds \X (0..MaxHolds) /\ wechat' \in [drafts : Nat, content : Contents, mapped : BOOLEAN] /\ late' \in Nat
  BY <1>3 DEF LedgersInv, Typed, Kept
<1>11. QED
  BY <1>3, <1>7, <1>8, <1>9, <1>10, LedgersUntouched

\* A claim is changed for an operation that there is.
LEMMA ClaimKeeps ==
  ASSUME OpsTyped, NEW k \in DOMAIN ops, NEW n \in Nat, NEW claim \in Claims, Claim(k, n, claim)
  PROVE  OpsTyped'
<1>1. PICK op \in OpRecords : op = Op(k) /\ Len(op.tries) = Len(op.there) /\ Len(op.tries) \in 1..3 /\ k \in OpKeys
  BY OperationsHave
<1> DEFINE new == [op EXCEPT !.there[n] = claim]
<1>2. new \in OpRecords /\ Len(new.there) = Len(op.there) /\ new.tries = op.tries
  BY OperationClaimed
<1>3. SetOp(k, new)
  BY <1>1 DEF Claim
<1> HIDE DEF new
<1>4. QED
  BY <1>1, <1>2, <1>3, OperationKept

LEMMA SendKeeps ==
  ASSUME LedgersInv, CallsMade, Send
  PROVE  LedgersInv'
<1>1. PICK k : k = OpOf(w.pc)
  OBVIOUS
<1>2. /\ UNCHANGED <<d1, main, kept, wechat, recording>> /\ w.run = "live" /\ w.pc \in Calls /\ Walking
      /\ k \in DOMAIN ops /\ w.try \in Nat
  BY <1>1 DEF Send, At, Walking, CallsMade, LedgersInv, Typed, Instances
<1>3. faults' \in 0..MaxFaults
  BY FaultCounts DEF Send, LedgersInv, Typed
<1>4. /\ late' \in {late, late + 1}
      /\ ops' = ops \/ Claim(k, w.try, "running")
      /\ NotKnown(k) \/ Then("wait")
  BY <1>1 DEF Send
<1>5. OpsTyped'
  BY <1>2, <1>4, ClaimKeeps DEF LedgersInv, Typed, Claims, OpsTyped
<1>6. w' \in Instances /\ ScopesOK' /\ WalkOK'
  BY <1>1, <1>2, <1>4, CallEnds
<1>7. Kept' \subseteq Kinds \X (0..MaxHolds) /\ wechat' \in [drafts : Nat, content : Contents, mapped : BOOLEAN] /\ late' \in Nat
  BY <1>2, <1>4 DEF LedgersInv, Typed, Kept
<1>8. QED
  BY <1>2, <1>3, <1>5, <1>6, <1>7, LedgersUntouched

\* An attempt's result takes its place, and every other outcome is a hold.
LEMMA AnsweredEnds ==
  ASSUME LedgersInv, CallsMade, Walking, w.pc \in Calls, w.sub = "wait", UNCHANGED <<d1, main>>, NEW k, k = OpOf(w.pc), Answered(k)
  PROVE  w' \in Instances /\ ScopesOK' /\ WalkOK'
<1>1. w \in Instances /\ k \in OpKeys /\ w.run = "live" /\ w.scope \in Nat
  BY CallIsOperation DEF LedgersInv, Typed, Walking, Instances
<1>2. PICK scope : scope = w.scope
  OBVIOUS
<1>3. PICK value \in Contents : value = Op(k).value
  BY OperationsHave DEF LedgersInv, Typed, OpRecords
<1>4. Kinds \subseteq Stages /\ Calls \subseteq Stages /\ "keep" \in Subs /\ "ask" \in Subs /\ Contents = {"none", "package", "other"}
  BY DEF Stages, Subs, Contents
<1>5. /\ {"image", "receipt", "readback"} \subseteq Kinds /\ {"find", "write"} \subseteq Calls
  BY DEF Kinds, Calls
<1>6. /\ w' \in Instances /\ w'.run = "live" /\ w'.scope = scope /\ w'.sub \in {"keep", "ask"}
      /\ \/ w.pc = "upload" /\ w'.pc = "image"
         \/ w.pc = "read" /\ w'.pc = "readback"
         \/ w.pc \in {"write", "findNow", "find", "map"} /\ w'.pc \in {"receipt", "find", "write"}
  <2>1. CASE w.pc = "upload"
    <3>1. w' = [w EXCEPT !.pc = "image", !.sub = "keep", !.settle = k]
      BY <1>1, <2>1 DEF Answered, Following
    <3>2. QED
      BY <1>1, <1>2, <1>4, <1>5, <2>1, <3>1 DEF Instances
  <2>2. CASE w.pc = "write"
    <3>1. w' = [w EXCEPT !.pc = "receipt", !.sub = "keep", !.settle = k]
      BY <1>1, <2>2 DEF Answered, Following
    <3>2. QED
      BY <1>1, <1>2, <1>4, <1>5, <2>2, <3>1 DEF Instances
  <2>3. CASE w.pc = "read"
    <3>1. w' = [w EXCEPT !.pc = "readback", !.sub = "keep", !.settle = k, !.draft = value]
      BY <1>3, <2>3 DEF Answered
    <3>2. QED
      BY <1>1, <1>2, <1>3, <1>4, <1>5, <2>3, <3>1 DEF Instances
  <2>4. CASE w.pc = "findNow"
    <3>1. w' = [w EXCEPT !.pc = "receipt", !.sub = "keep"]
      BY <2>4 DEF Answered
    <3>2. QED
      BY <1>1, <1>2, <1>4, <1>5, <2>4, <3>1 DEF Instances
  <2>5. CASE w.pc = "find"
    <3>1. TheOne(OpenWrites) \in OpKeys
      <4>1. OpenWrites # {}
        BY <2>5 DEF CallsMade
      <4>2. OpenWrites \subseteq OpKeys
        BY DEF OpenWrites, Open, LedgersInv, Typed, OpsTyped
      <4>3. QED
        BY <4>1, <4>2, OneOf
    <3>2. PICK open \in OpKeys : open = TheOne(OpenWrites)
      BY <3>1
    <3>3. w' = [w EXCEPT !.pc = "receipt", !.sub = "keep", !.mutation = "found", !.draft = value, !.settle = open]
      BY <1>3, <2>5, <3>2 DEF Answered
    <3>4. QED
      BY <1>1, <1>2, <1>3, <1>4, <1>5, <2>5, <3>3 DEF Instances
  <2>6. CASE w.pc = "map"
    <3>1. \/ w' = [w EXCEPT !.pc = "receipt", !.sub = "keep", !.mutation = "noop", !.draft = value]
          \/ Begin("find")
          \/ w' = [w EXCEPT !.pc = "write", !.sub = "ask", !.mutation = IF value = "none" THEN "add" ELSE "update"]
      BY <1>3, <2>6 DEF Answered
    <3>2. CASE w' = [w EXCEPT !.pc = "receipt", !.sub = "keep", !.mutation = "noop", !.draft = value]
      BY <1>1, <1>2, <1>3, <1>4, <1>5, <2>6, <3>2 DEF Instances
    <3>3. CASE w' = [w EXCEPT !.pc = "find", !.sub = "ask"]
      BY <1>1, <1>2, <1>4, <1>5, <2>6, <3>3 DEF Instances
    <3>4. CASE w' = [w EXCEPT !.pc = "write", !.sub = "ask", !.mutation = IF value = "none" THEN "add" ELSE "update"]
      BY <1>1, <1>2, <1>4, <1>5, <2>6, <3>4 DEF Instances
    <3>5. QED
      BY <3>1, <3>2, <3>3, <3>4, <1>5 DEF Begin, Goto, FirstSub
  <2>7. QED
    BY <2>1, <2>2, <2>3, <2>4, <2>5, <2>6 DEF Calls
<1>7. w'.pc \in Kinds \cup Calls /\ TurnAt(w'.pc) = TurnAt(w.pc) /\ w'.sub \notin {"co", "settle"}
  BY <1>5, <1>6, CallTurns
<1>8. QED
  BY <1>2, <1>6, <1>7, CallStays

LEMMA AnswerCallKeeps ==
  ASSUME LedgersInv, CallsMade, AnswerCall
  PROVE  LedgersInv'
<1>1. PICK k : k = OpOf(w.pc)
  OBVIOUS
<1>2. PICK op \in OpRecords : op = Op(k) /\ Len(op.tries) = Len(op.there) /\ Len(op.tries) \in 0..3
  BY OperationsHave DEF LedgersInv, Typed
<1>3. /\ UNCHANGED <<d1, main, kept, wechat, recording, late>> /\ w.run = "live" /\ w.pc \in Calls /\ w.sub = "wait" /\ Walking
      /\ k \in DOMAIN ops
  BY <1>1 DEF AnswerCall, At, Walking, CallsMade
<1>4. /\ \/ ops' = ops
         \/ \E result \in {"ok", "retryable", "failed"} : SetOp(k, [op EXCEPT !.tries[Len(op.tries)] = result])
      /\ faults' \in 0..MaxFaults
      /\ \/ Fail \/ NotKnown(k) \/ Then("ask") \/ Answered(k)
         \/ \E code \in {Unknown, Unread, Unresolved, NoAccount} : Hold(code)
  <2>1. /\ \A result \in {"ok", "retryable", "failed"} : \A o \in Outcomes : Costs("settle", o) => faults' \in 0..MaxFaults
        /\ Fault("call") => faults' \in 0..MaxFaults
        /\ UNCHANGED faults => faults' \in 0..MaxFaults
    BY FaultCounts DEF LedgersInv, Typed
  <2>2. CASE (Fault("call") \/ UNCHANGED faults) /\ NotKnown(k) /\ UNCHANGED ops
    BY <2>1, <2>2
  <2>3. CASE Answered(k) /\ UNCHANGED <<ops, faults>>
    BY <2>1, <2>3
  <2>4. CASE Record(k, "ok", Answered(k))
    BY <1>2, <2>1, <2>4 DEF Record
  <2>5. CASE Record(k, "retryable", IF Len(Op(k).tries) < 3 THEN Then("ask") ELSE Fail)
    BY <1>2, <2>1, <2>5 DEF Record
  <2>6. CASE Record(k, "failed", Rejected)
    <3>1. Rejected => Fail \/ \E code \in {Unknown, Unread, Unresolved, NoAccount} : Hold(code)
      BY DEF Rejected
    <3>2. QED
      BY <1>2, <2>1, <2>6, <3>1 DEF Record
  <2>7. CASE Record(k, "failed", Hold(NoAccount))
    BY <1>2, <2>1, <2>7 DEF Record
  <2>8. QED
    BY <1>1, <2>2, <2>3, <2>4, <2>5, <2>6, <2>7 DEF AnswerCall
<1>5. OpsTyped'
  <2>1. CASE ops' = ops
    BY <2>1 DEF LedgersInv, Typed, OpsTyped
  <2>2. CASE \E result \in {"ok", "retryable", "failed"} : SetOp(k, [op EXCEPT !.tries[Len(op.tries)] = result])
    <3>1. PICK result \in {"ok", "retryable", "failed"} : SetOp(k, [op EXCEPT !.tries[Len(op.tries)] = result])
      BY <2>2
    <3>2. Len(op.tries) \in 1..3 /\ k \in OpKeys /\ result \in TryStates
      BY <1>2, <1>3, <3>1, OperationsHave DEF LedgersInv, Typed, TryStates
    <3> DEFINE new == [op EXCEPT !.tries[Len(op.tries)] = result]
    <3>3. new \in OpRecords /\ Len(new.tries) = Len(op.tries) /\ new.there = op.there
      BY <1>2, <3>2, OperationTried
    <3>4. SetOp(k, new)
      BY <3>1
    <3> HIDE DEF new
    <3>5. Len(new.tries) = Len(new.there) /\ Len(new.tries) \in 1..3
      BY <1>2, <3>2, <3>3
    <3>6. QED
      BY <3>2, <3>3, <3>4, <3>5, OperationKept DEF LedgersInv, Typed
  <2>3. QED
    BY <1>4, <2>1, <2>2
<1>6. w' \in Instances /\ ScopesOK' /\ WalkOK'
  <2>1. CASE Answered(k)
    BY <1>1, <1>3, <2>1, AnsweredEnds
  <2>2. CASE \/ Fail \/ NotKnown(k) \/ Then("ask") \/ \E code \in {Unknown, Unread, Unresolved, NoAccount} : Hold(code)
    BY <1>1, <1>3, <2>2, CallEnds, CodesNamed
  <2>3. QED
    BY <1>4, <2>1, <2>2
<1>7. Kept' \subseteq Kinds \X (0..MaxHolds) /\ wechat' \in [drafts : Nat, content : Contents, mapped : BOOLEAN] /\ late' \in Nat
  BY <1>3 DEF LedgersInv, Typed, Kept
<1>8. QED
  BY <1>3, <1>4, <1>5, <1>6, <1>7, LedgersUntouched

\* The Workflow waits.
LEMMA WalkStill ==
  ASSUME LedgersInv, main' = main, w' = w, HoldKeys' = HoldKeys,
         \A kind \in Kinds, s \in Nat : Projected(kind, s) => Projected(kind, s)'
  PROVE  w' \in Instances /\ ScopesOK' /\ WalkOK'
<1>1. w \in Instances
  BY DEF LedgersInv, Typed
<1>2. \A kind \in Kinds, s \in Nat : Receipted(kind, s) => Receipted(kind, s)'
  BY NoMainEvent
<1>3. /\ \A code : HoldsWith(code)' = HoldsWith(code)
      /\ \A code, c : Latest(code, c)' <=> Latest(code, c)
      /\ \A code : FreshHold(code)' <=> FreshHold(code)
  BY SameHolds
<1>4. (Walking' <=> Walking) /\ (Resuming' <=> Resuming)
  BY DEF Walking, Resuming
<1>5. PICK code : code = w.code
  OBVIOUS
<1>6. /\ HoldsWith(w.code)' = HoldsWith(code) /\ (FreshHold(w.code)' <=> FreshHold(code))
      /\ \A c : Latest(w.code, c)' <=> Latest(code, c)
  <2>1. HoldsWith(w.code)' = HoldsWith(code)' /\ (FreshHold(w.code)' <=> FreshHold(code)')
    BY <1>5 DEF HoldsWith, FreshHold
  <2>2. ASSUME NEW c PROVE Latest(w.code, c)' <=> Latest(code, c)'
    BY <1>5 DEF HoldsWith, Latest
  <2>3. QED
    BY <1>3, <2>1, <2>2
<1>7. (main.state = "needs_action" /\ FreshHold(main.code) => \E c \in 0..MaxHolds : Latest(main.code, c))' \/ w.run # "live"
  BY MainScopeKept
<1>8. ScopesOK'
  BY <1>4, <1>5, <1>6, <1>7 DEF LedgersInv, ScopesOK
<1>9. PICK scope : scope = w.scope
  OBVIOUS
<1>10. WalkOK'
  <2>1. SUFFICES ASSUME Walking PROVE WalkOK'
    BY <1>4 DEF WalkOK
  <2>2. scope \in Nat /\ \A kind \in Kinds : Turn(kind) < TurnAt(w.pc) => Receipted(kind, scope)
    BY <1>1, <1>9, <2>1 DEF LedgersInv, WalkOK, Instances
  <2>3. \A kind \in Kinds : Turn(kind) < TurnAt(w'.pc) => Receipted(kind, w.scope)'
    BY <1>2, <1>9, <2>2 DEF Receipted, Has
  <2>4. (w.pc \in Kinds /\ w.sub = "co" => Projected(w.pc, w.scope))'
    BY <1>9, <2>1, <2>2 DEF LedgersInv, WalkOK, Projected, Has
  <2>5. (w.pc \in Kinds /\ w.sub = "settle" => Receipted(w.pc, w.scope))'
    BY <1>2, <1>9, <2>1, <2>2 DEF LedgersInv, WalkOK, Receipted, Has
  <2>6. QED
    BY <2>3, <2>4, <2>5 DEF WalkOK
<1>11. QED
  BY <1>1, <1>8, <1>10

LEMMA ProviderKeeps ==
  ASSUME LedgersInv, Provider
  PROVE  LedgersInv'
<1>1. PICK k \in DOMAIN ops : \E n \in DOMAIN ops[k].there :
        /\ ops[k].there[n] = "running"
        /\ \/ /\ UNCHANGED faults
              /\ IF k[1] \in {"find", "findNow"} /\ ~ (wechat.drafts = 1 /\ wechat.content = "package")
                 THEN Claim(k, n, "rejected") /\ UNCHANGED wechat
                 ELSE SetOp(k, [ops[k] EXCEPT !.there[n] = "ok", !.value = Found(k)]) /\ wechat' = Wrote(k)
           \/ Fault("service") /\ UNCHANGED wechat /\ \E r \in {"again", "rejected"} : Claim(k, n, r)
           \/ Fault("service") /\ Claim(k, n, "stuck")
              /\ wechat' \in {wechat, IF Writes(k) THEN [Wrote(k) EXCEPT !.mapped = wechat.mapped] ELSE wechat}
           \/ Fault("account") /\ UNCHANGED wechat /\ Claim(k, n, "denied")
  BY DEF Provider
<1>2. UNCHANGED <<d1, main, kept, recording, w, late>>
  BY DEF Provider
<1>3. PICK n \in DOMAIN ops[k].there :
        /\ faults' \in 0..MaxFaults
        /\ wechat' \in {wechat, Wrote(k), [Wrote(k) EXCEPT !.mapped = wechat.mapped]}
        /\ (\E claim \in Claims : Claim(k, n, claim)) \/ SetOp(k, [ops[k] EXCEPT !.there[n] = "ok", !.value = Found(k)])
  BY <1>1, FaultCounts DEF Claims, LedgersInv, Typed
<1>4. /\ k \in OpKeys /\ ops[k] \in OpRecords /\ n \in Nat /\ Op(k) = ops[k]
      /\ Len(ops[k].tries) = Len(ops[k].there) /\ Len(ops[k].tries) \in 1..3
  <2>1. k \in OpKeys /\ ops[k] \in OpRecords /\ Len(ops[k].tries) = Len(ops[k].there) /\ Len(ops[k].tries) \in 1..3
    BY DEF LedgersInv, Typed, OpsTyped
  <2>2. n \in Nat
    BY <2>1 DEF OpRecords
  <2>3. QED
    BY <2>1, <2>2 DEF Op
<1>5. OpsTyped'
  <2>1. CASE \E claim \in Claims : Claim(k, n, claim)
    BY <1>4, <2>1, ClaimKeeps DEF LedgersInv, Typed
  <2>2. CASE SetOp(k, [ops[k] EXCEPT !.there[n] = "ok", !.value = Found(k)])
    <3> DEFINE claimed == [ops[k] EXCEPT !.there[n] = "ok"]
               new == [claimed EXCEPT !.value = Found(k)]
    <3>1. claimed \in OpRecords /\ Len(claimed.there) = Len(ops[k].there) /\ claimed.tries = ops[k].tries
      BY <1>4, OperationClaimed DEF Claims
    <3>2. Found(k) \in Contents
      BY DEF Found, LedgersInv, Typed, Contents
    <3>3. SetOp(k, new)
      BY <2>2
    <3> HIDE DEF claimed
    <3>4. new \in OpRecords /\ new.tries = claimed.tries /\ new.there = claimed.there
      BY <3>1, <3>2 DEF OpRecords
    <3> HIDE DEF new
    <3>5. QED
      BY <1>4, <3>1, <3>3, <3>4, OperationKept DEF LedgersInv, Typed
  <2>3. QED
    BY <1>3, <2>1, <2>2
<1>6. wechat' \in [drafts : Nat, content : Contents, mapped : BOOLEAN]
  <2>1. wechat \in [drafts : Nat, content : Contents, mapped : BOOLEAN] /\ "package" \in Contents
    BY DEF LedgersInv, Typed, Contents
  <2>2. Wrote(k) \in [drafts : Nat, content : Contents, mapped : BOOLEAN]
    <3>1. wechat.drafts + 1 \in Nat
      BY <2>1
    <3>2. \/ Wrote(k) = [drafts |-> wechat.drafts + 1, content |-> "package", mapped |-> TRUE]
          \/ Wrote(k) = [wechat EXCEPT !.content = "package"]
          \/ Wrote(k) = [wechat EXCEPT !.mapped = TRUE]
          \/ Wrote(k) = wechat
      BY DEF Wrote
    <3>3. CASE Wrote(k) = [drafts |-> wechat.drafts + 1, content |-> "package", mapped |-> TRUE]
      BY <2>1, <3>1, <3>3
    <3>4. CASE Wrote(k) = [wechat EXCEPT !.content = "package"]
      BY <2>1, <3>4
    <3>5. CASE Wrote(k) = [wechat EXCEPT !.mapped = TRUE]
      BY <2>1, <3>5
    <3>6. QED
      BY <2>1, <3>2, <3>3, <3>4, <3>5
  <2>3. QED
    BY <1>3, <2>1, <2>2
<1>7. w' \in Instances /\ ScopesOK' /\ WalkOK'
  <2>1. HoldKeys' = HoldKeys /\ \A kind \in Kinds, s \in Nat : Projected(kind, s) => Projected(kind, s)'
    BY <1>2, SameD1, NoD1Event
  <2>2. QED
    BY <1>2, <2>1, WalkStill
<1>8. Kept' \subseteq Kinds \X (0..MaxHolds) /\ late' \in Nat
  BY <1>2 DEF LedgersInv, Typed, Kept
<1>9. QED
  BY <1>2, <1>3, <1>5, <1>6, <1>7, <1>8, LedgersUntouched

-----------------------------------------------------------------------------
(* The end of the phase, holds and failures.                               *)

LEMMA VerifyKeeps ==
  ASSUME LedgersInv, Verify
  PROVE  LedgersInv'
<1>1. /\ UNCHANGED <<d1, main, kept, recording, ops, wechat, late>> /\ w.run = "live" /\ w.pc = "verify" /\ Walking
      /\ w \in Instances /\ faults' \in 0..MaxFaults
  BY FaultCounts DEF Verify, At, external, Walking, LedgersInv, Typed
<1>2. w' \in Instances /\ ScopesOK' /\ WalkOK'
  <2>1. HoldKeys' = HoldKeys
    BY <1>1, SameD1
  <2>2. CASE \E code \in {Unknown, Unreconciled, Unresolved} : Hold(code)
    BY <1>1, <2>1, <2>2, DoubtHeld
  <2>3. CASE Begin("ready")
    <3>1. w' = [w EXCEPT !.pc = "ready", !.sub = "d1"]
      BY <2>3 DEF Begin, Goto, FirstSub, Calls, Kinds
    <3>2. PICK scope : scope = w.scope
      OBVIOUS
    <3>3. /\ w' \in Instances /\ w'.run = "live" /\ w'.pc = "ready" /\ w'.sub = "d1" /\ w'.scope = scope
          /\ main'.state \in WECHAT_RESUMABLE_STATES /\ scope <= MaxHolds
      BY <1>1, <3>1, <3>2 DEF Instances, Stages, Subs, LedgersInv, ScopesOK
    <3>4. ScopesOK'
      BY <3>3, WalkedOK
    <3>5. TurnAt(w'.pc) = 1
      BY <3>3 DEF TurnAt, Kinds
    <3>6. WalkOK'
      BY <3>3, <3>5, Turns DEF WalkOK, Kinds
    <3>7. QED
      BY <3>3, <3>4, <3>6
  <2>4. QED
    BY <2>2, <2>3 DEF Verify
<1>3. /\ OpsTyped' /\ Kept' \subseteq Kinds \X (0..MaxHolds) /\ wechat' \in [drafts : Nat, content : Contents, mapped : BOOLEAN]
      /\ late' \in Nat
  BY <1>1 DEF LedgersInv, Typed, Kept, OpsTyped
<1>4. QED
  BY <1>1, <1>2, <1>3, LedgersUntouched

\* The Workflow waits at the Coordinator's write of an end.
LEMMA EndOK ==
  ASSUME LedgersInv, w.run = "live", w.pc \in {"ready", "hold", "fail"}, main' = main, Then("main"),
         (main.state = "needs_action" /\ FreshHold(main.code) => \E c \in 0..MaxHolds : Latest(main.code, c))'
  PROVE  w' \in Instances /\ ScopesOK' /\ WalkOK'
<1>1. w' = [w EXCEPT !.sub = "main"] /\ w \in Instances
  BY DEF Then, Goto, LedgersInv, Typed, Instances
<1>2. w' \in Instances /\ w'.run = "live" /\ w'.pc \in {"ready", "hold", "fail"} /\ w'.sub = "main"
  BY <1>1 DEF Instances, Subs
<1>3. ~ Walking' /\ ~ Resuming'
  BY <1>2 DEF Walking, Resuming, Kinds, Calls
<1>4. QED
  BY <1>2, <1>3 DEF ScopesOK, WalkOK

LEMMA ReadyD1Keeps ==
  ASSUME LedgersInv, ReadyD1
  PROVE  LedgersInv'
<1>1. PICK scope : scope = w.scope
  OBVIOUS
<1>2. /\ w.run = "live" /\ w.pc = "ready" /\ w.sub = "d1" /\ UNCHANGED <<main, kept, ops, wechat, late>>
      /\ scope \in Nat /\ recording' \in BOOLEAN
  BY <1>1 DEF ReadyD1, At, external, LedgersInv, Typed, Instances
<1>3. /\ (\E o \in Outcomes : WriteD1("draft_ready", <<"ready", "none", scope>>, "none", FALSE, o)) \/ UNCHANGED <<d1, faults>>
      /\ Then("main") \/ Hold(Unknown)
  BY <1>1 DEF ReadyD1, TryD1
<1>4. d1' \in Rows /\ faults' \in 0..MaxFaults /\ RowsOK' /\ HoldsOK' /\ ArtifactsInTurn' /\ HoldKeys' = HoldKeys
  <2>1. <<"ready", "none", scope>> \in LogKeys /\ "none" \in HoldCodes /\ "draft_ready" \in Targets
    BY <1>2, KeysAreKeys DEF HoldCodes, Targets, Moving
  <2>2. <<"ready", "none", scope>>[1] \notin {"artifact", "hold", "resumed"}
    OBVIOUS
  <2>3. QED
    BY <1>2, <1>3, <2>1, <2>2, QuietD1Write
<1>5. w' \in Instances /\ ScopesOK' /\ WalkOK'
  <2>1. CASE Hold(Unknown)
    BY <1>2, <1>4, <2>1, DoubtHeld
  <2>2. CASE Then("main")
    BY <1>2, <1>4, <2>2, EndOK, MainScopeKept
  <2>3. QED
    BY <1>3, <2>1, <2>2
<1>6. QED
  BY <1>2, <1>4, <1>5 DEF LedgersInv, Typed, OpsTyped, Kept

LEMMA FailD1Keeps ==
  ASSUME LedgersInv, FailD1
  PROVE  LedgersInv'
<1>1. PICK code : code = w.code
  OBVIOUS
<1>2. /\ w.run = "live" /\ w.pc = "fail" /\ UNCHANGED <<main, kept, ops, wechat, late, recording>> /\ code \in HoldCodes
  BY <1>1 DEF FailD1, StopD1, At, external, LedgersInv, Typed, Instances
<1>3. /\ (\E o \in Outcomes : WriteD1("failed", <<"failed", "none", 0>>, code, FALSE, o)) \/ UNCHANGED <<d1, faults>>
      /\ Then("main") \/ Stop("errored")
  BY <1>1 DEF FailD1, StopD1, TryD1
<1>4. d1' \in Rows /\ faults' \in 0..MaxFaults /\ RowsOK' /\ HoldsOK' /\ ArtifactsInTurn' /\ HoldKeys' = HoldKeys
  <2>1. <<"failed", "none", 0>> \in LogKeys /\ "failed" \in Targets
    BY <1>2, KeysAreKeys DEF Targets, ExceptionalStates
  <2>2. <<"failed", "none", 0>>[1] \notin {"artifact", "hold", "resumed"}
    OBVIOUS
  <2>3. QED
    BY <1>2, <1>3, <2>1, <2>2, QuietD1Write
<1>5. w' \in Instances /\ ScopesOK' /\ WalkOK'
  <2>1. CASE Stop("errored")
    BY <2>1, StoppedOK
  <2>2. CASE Then("main")
    BY <1>2, <1>4, <2>2, EndOK, MainScopeKept
  <2>3. QED
    BY <1>3, <2>1, <2>2
<1>6. QED
  BY <1>2, <1>4, <1>5 DEF LedgersInv, Typed, OpsTyped, Kept

\* The Coordinator's write of an end is the Workflow's last.
LEMMA EndKeeps ==
  ASSUME LedgersInv, w.run = "live", UNCHANGED <<d1, kept, recording, ops, wechat, late>>, NEW how \in {"done", "errored"}, Stop(how),
         NEW target \in Moving \cup {"needs_action", "failed"}, NEW key \in LogKeys, key[1] # "artifact", NEW code \in HoldCodes,
         (\E o \in Outcomes : WriteMain(target, key, code, o)) \/ UNCHANGED <<main, faults>>
  PROVE  LedgersInv'
<1>1. main' \in Rows /\ faults' \in 0..MaxFaults /\ RowsOK' /\ HoldsOK' /\ ArtifactsInTurn'
  BY QuietMainWrite
<1>2. w' \in Instances /\ ScopesOK' /\ WalkOK'
  BY StoppedOK
<1>3. QED
  BY <1>1, <1>2 DEF LedgersInv, Typed, OpsTyped, Kept

LEMMA HoldsCounted ==
  ASSUME HoldsOK
  PROVE  Holds \in Nat
BY FS_CardinalityType DEF HoldsOK, HoldKeys, Holds

LEMMA ReadyMainKeeps ==
  ASSUME LedgersInv, ReadyMain
  PROVE  LedgersInv'
<1>1. PICK scope : scope = w.scope
  OBVIOUS
<1>2. /\ w.run = "live" /\ UNCHANGED <<d1, kept, ops, wechat, late, recording>> /\ scope \in Nat
      /\ \E how \in {"done", "errored"} : Stop(how)
      /\ \E o \in Outcomes : WriteMain("draft_ready", <<"ready", "none", scope>>, "none", o)
  BY <1>1 DEF ReadyMain, At, external, LedgersInv, Typed, Instances
<1>3. <<"ready", "none", scope>> \in LogKeys /\ "none" \in HoldCodes /\ "draft_ready" \in Moving
  BY <1>2, KeysAreKeys DEF HoldCodes, Moving
<1>4. <<"ready", "none", scope>>[1] # "artifact"
  OBVIOUS
<1>5. QED
  BY <1>2, <1>3, <1>4, EndKeeps
LEMMA HoldMainKeeps ==
  ASSUME LedgersInv, HoldMain
  PROVE  LedgersInv'
<1>1. PICK code : code = w.code
  OBVIOUS
<1>2. /\ w.run = "live" /\ UNCHANGED <<d1, kept, ops, wechat, late, recording>> /\ code \in HoldCodes
      /\ \E how \in {"done", "errored"} : Stop(how)
      /\ (\E o \in Outcomes : WriteMain("needs_action", <<"hold", code, Holds>>, code, o)) \/ UNCHANGED <<main, faults>>
  BY <1>1 DEF HoldMain, StopMain, At, external, LedgersInv, Typed, Instances
<1>3. <<"hold", code, Holds>> \in LogKeys
  BY <1>2, KeysAreKeys, HoldsCounted DEF LedgersInv
<1>4. <<"hold", code, Holds>>[1] # "artifact"
  OBVIOUS
<1>5. QED
  BY <1>2, <1>3, <1>4, EndKeeps
LEMMA FailMainKeeps ==
  ASSUME LedgersInv, FailMain
  PROVE  LedgersInv'
<1>1. PICK code : code = w.code
  OBVIOUS
<1>2. /\ w.run = "live" /\ UNCHANGED <<d1, kept, ops, wechat, late, recording>> /\ code \in HoldCodes
      /\ \E how \in {"done", "errored"} : Stop(how)
      /\ (\E o \in Outcomes : WriteMain("failed", <<"fail", code, Holds>>, code, o)) \/ UNCHANGED <<main, faults>>
  BY <1>1 DEF FailMain, StopMain, At, external, LedgersInv, Typed, Instances
<1>3. <<"fail", code, Holds>> \in LogKeys
  BY <1>2, KeysAreKeys, HoldsCounted DEF LedgersInv
<1>4. <<"fail", code, Holds>>[1] # "artifact"
  OBVIOUS
<1>5. QED
  BY <1>2, <1>3, <1>4, EndKeeps

\* A new hold is the last of its code, and leaves those of other codes alone.
LEMMA HoldNumbered ==
  ASSUME LedgersInv, NEW code \in HoldCodes, NEW c, c = Holds + 1, d1'.log = Append(d1.log, <<"hold", code, c>>)
  PROVE  /\ HoldsOK' /\ Latest(code, c)' /\ Holds' = c /\ c \in Nat /\ ResumedKeys' = ResumedKeys
         /\ \A other \in HoldCodes \ {code} : HoldsWith(other)' = HoldsWith(other)
<1> DEFINE key == <<"hold", code, c>>
<1>1. Holds \in Nat /\ d1 \in Rows /\ IsFiniteSet(HoldKeys) /\ c \in Nat /\ HoldsOK
  BY HoldsCounted DEF LedgersInv, Typed, HoldsOK
<1>2. key \in LogKeys
  BY <1>1, KeysAreKeys
<1>3. key[1] = "hold" /\ key[2] = code /\ key[3] = c
  OBVIOUS
<1>31. d1'.log = Append(d1.log, key)
  OBVIOUS
<1> HIDE DEF key
<1>4. HoldKeys' = HoldKeys \cup {key} /\ ResumedKeys' = ResumedKeys
  <2>1. \A tag : Tagged(d1, tag)' = Tagged(d1, tag) \cup {k \in {key} : k[1] = tag}
    BY <1>1, <1>2, <1>31, D1Log
  <2>2. QED
    BY <1>3, <2>1 DEF HoldKeys, ResumedKeys
<1>5. key \notin HoldKeys
  BY <1>1, <1>3 DEF HoldsOK
<1>6. Holds' = c /\ IsFiniteSet(HoldKeys')
  <2>1. Cardinality(HoldKeys \cup {key}) = Cardinality(HoldKeys) + 1 /\ IsFiniteSet(HoldKeys \cup {key})
    BY <1>1, <1>5, FS_AddElement
  <2>2. Holds' = Cardinality(HoldKeys') /\ Holds = Cardinality(HoldKeys)
    BY DEF Holds, HoldKeys
  <2>3. QED
    BY <1>4, <2>1, <2>2
<1>7. \A k \in HoldKeys' : k[3] \in 1..c
  BY <1>1, <1>3, <1>4 DEF HoldsOK
<1>8. \A other \in HoldCodes : HoldsWith(other)' = HoldsWith(other) \cup {k \in {key} : other = code}
  <2>1. \A other : HoldsWith(other) = {k \in HoldKeys : k[2] = other} /\ HoldsWith(other)' = {k \in HoldKeys' : k[2] = other}
    BY DEF HoldsWith, HoldKeys
  <2>2. QED
    BY <1>3, <1>4, <2>1
<1>9. \A other \in HoldCodes \ {code} : HoldsWith(other)' = HoldsWith(other)
  BY <1>8
<1>10. Latest(code, c)'
  <2>1. key \in HoldsWith(code)' /\ \A k \in HoldsWith(code)' : k \in HoldKeys'
    BY <1>8 DEF HoldsWith, HoldKeys
  <2>2. \A k \in HoldsWith(code)' : k[3] <= c
    BY <1>1, <1>7, <2>1
  <2>3. \E k \in HoldsWith(code)' : k[3] = c
    BY <1>3, <2>1
  <2>4. QED
    BY <2>2, <2>3 DEF Latest
<1>11. HoldsOK'
  <2>1. \A k \in HoldKeys' : k[3] \in 1..Holds'
    BY <1>6, <1>7
  <2>2. ASSUME NEW other \in HoldCodes, HoldsWith(other)' # {} PROVE \E x \in 1..c : Latest(other, x)'
    <3>1. CASE other = code
      BY <1>1, <1>10, <3>1
    <3>2. CASE other # code
      <4>1. HoldsWith(other)' = HoldsWith(other)
        BY <1>9, <3>2
      <4>2. PICK x \in 1..Holds : Latest(other, x)
        BY <1>1, <2>2, <4>1 DEF HoldsOK
      <4>3. x \in 1..c /\ Latest(other, x)'
        BY <1>1, <4>1, <4>2 DEF Latest
      <4>4. QED
        BY <4>3
    <3>3. QED
      BY <3>1, <3>2
  <2>3. \A k \in ResumedKeys' : k[2] \in WECHAT_RESUMABLE_STATES /\ k[3] \in 1..c
    BY <1>1, <1>4 DEF HoldsOK
  <2>4. QED
    BY <1>6, <2>1, <2>2, <2>3 DEF HoldsOK
<1>12. QED
  BY <1>1, <1>4, <1>6, <1>9, <1>10, <1>11

LEMMA HoldD1Keeps ==
  ASSUME LedgersInv, HoldD1
  PROVE  LedgersInv'
<1>1. PICK code : code = w.code
  OBVIOUS
<1>2. PICK c : c = Holds + 1
  OBVIOUS
<1>3. /\ w.run = "live" /\ w.pc = "hold" /\ w.sub = "d1" /\ UNCHANGED <<main, kept, ops, wechat, late, recording>> /\ code \in HoldCodes
  BY <1>1 DEF HoldD1, StopD1, At, external, LedgersInv, Typed, Instances
<1>4. \/ \E o \in Outcomes : WriteD1("needs_action", <<"hold", code, c>>, code, FALSE, o) /\ (Then("main") \/ Stop("errored"))
      \/ UNCHANGED <<d1, faults>> /\ Stop("errored")
  BY <1>1, <1>2 DEF HoldD1, StopD1, TryD1
<1>5. c \in Nat /\ <<"hold", code, c>> \in LogKeys /\ "needs_action" \in Targets /\ d1 \in Rows /\ ArtifactsInTurn
  <2>1. c \in Nat
    BY <1>2, HoldsCounted DEF LedgersInv
  <2>2. QED
    BY <1>3, <2>1, KeysAreKeys DEF LedgersInv, Targets, ExceptionalStates, Typed
<1>6. /\ faults' \in 0..MaxFaults /\ (Then("main") \/ Stop("errored"))
      /\ \/ d1' = d1
         \/ d1' \in Rows /\ D1Row(d1') /\ d1'.log = Append(d1.log, <<"hold", code, c>>)
  <2>1. CASE UNCHANGED <<d1, faults>> /\ Stop("errored")
    BY <2>1 DEF LedgersInv, Typed
  <2>2. CASE \E o \in Outcomes : WriteD1("needs_action", <<"hold", code, c>>, code, FALSE, o) /\ (Then("main") \/ Stop("errored"))
    <3>1. PICK o \in Outcomes : WriteD1("needs_action", <<"hold", code, c>>, code, FALSE, o) /\ (Then("main") \/ Stop("errored"))
      BY <2>2
    <3>2. /\ faults' \in 0..MaxFaults
          /\ IF o = "failed" THEN d1' = d1
             ELSE d1' \in Rows /\ D1Row(d1') /\ d1'.log = Append(d1.log, <<"hold", code, c>>)
      BY <1>3, <1>5, <3>1, WroteD1
    <3>3. QED
      BY <3>1, <3>2
  <2>3. QED
    BY <1>4, <2>1, <2>2
<1>7. d1' \in Rows /\ RowsOK' /\ HoldsOK' /\ ArtifactsInTurn'
      /\ (main.state = "needs_action" /\ FreshHold(main.code) => \E x \in 0..MaxHolds : Latest(main.code, x))'
  <2>1. CASE d1' = d1
    <3>1. RowsOK' /\ HoldsOK' /\ ArtifactsInTurn' /\ HoldKeys' = HoldKeys
      BY <1>3, <2>1, LedgersStill
    <3>2. QED
      BY <1>3, <1>5, <2>1, <3>1, MainScopeKept
  <2>2. CASE d1' \in Rows /\ D1Row(d1') /\ d1'.log = Append(d1.log, <<"hold", code, c>>)
    <3>1. /\ HoldsOK' /\ \A other \in HoldCodes \ {code} : HoldsWith(other)' = HoldsWith(other)
      BY <1>2, <1>3, <2>2, HoldNumbered
    <3>2. <<"hold", code, c>>[1] # "artifact"
      OBVIOUS
    <3>3. ArtifactsInTurn'
      BY <1>3, <1>5, <2>2, <3>2, SameArtifacts, OtherD1Event, NoMainEvent
    <3>4. RowsOK'
      BY <1>3, <2>2 DEF LedgersInv, RowsOK
    <3>5. PICK held : held = main.code
      OBVIOUS
    <3>6. held \in HoldCodes
      BY <3>5 DEF LedgersInv, Typed, Rows
    <3>7. ASSUME main.state = "needs_action", FreshHold(held)' PROVE \E x \in 0..MaxHolds : Latest(held, x)'
      <4>1. held # code
        BY <1>1, <1>3, <3>7 DEF LedgersInv, ScopesOK, FreshHold
      <4>2. HoldsWith(held)' = HoldsWith(held)
        BY <3>1, <3>6, <4>1
      <4>3. FreshHold(held)
        BY <3>7, <4>2 DEF FreshHold
      <4>4. PICK x \in 0..MaxHolds : Latest(held, x)
        BY <1>3, <3>5, <3>7, <4>3 DEF LedgersInv, ScopesOK
      <4>5. Latest(held, x)'
        BY <4>2, <4>4 DEF Latest
      <4>6. QED
        BY <4>5
    <3>8. (main.state = "needs_action" /\ FreshHold(main.code) => \E x \in 0..MaxHolds : Latest(main.code, x))'
      BY <1>3, <3>5, <3>7 DEF FreshHold, Latest, HoldsWith
    <3>9. QED
      BY <2>2, <3>1, <3>3, <3>4, <3>8
  <2>3. QED
    BY <1>6, <2>1, <2>2
<1>8. w' \in Instances /\ ScopesOK' /\ WalkOK'
  <2>1. CASE Stop("errored")
    BY <2>1, StoppedOK
  <2>2. CASE Then("main")
    BY <1>3, <1>7, <2>2, EndOK
  <2>3. QED
    BY <1>6, <2>1, <2>2
<1>9. QED
  BY <1>3, <1>6, <1>7, <1>8 DEF LedgersInv, Typed, OpsTyped, Kept

-----------------------------------------------------------------------------
(* Recovery.                                                               *)

\* The recovery goes on.
LEMMA ResumingOK ==
  ASSUME LedgersInv, Resuming, NEW sub \in {"receipts", "reconciled", "retrying", "resumed", "main"}, Then(sub), HoldKeys' = HoldKeys,
         main' = main \/ main'.state \in WECHAT_RESUMABLE_STATES,
         sub \in {"retrying", "resumed", "main"} => HoldsWith(w.code) # {}
  PROVE  w' \in Instances /\ ScopesOK' /\ WalkOK'
<1>1. w' = [w EXCEPT !.sub = sub] /\ w \in Instances /\ w.run = "live" /\ w.pc = "resume"
  BY DEF Then, Goto, LedgersInv, Typed, Instances, Resuming
<1>2. PICK code : code = w.code
  OBVIOUS
<1>3. w' \in Instances /\ w'.run = "live" /\ w'.pc = "resume" /\ w'.sub = sub /\ w'.code = code
  BY <1>1, <1>2 DEF Instances, Subs
<1>4. ~ Walking'
  BY <1>3 DEF Walking, Kinds, Calls
<1>5. main'.state \in WECHAT_RESUMABLE_STATES \cup {"needs_action"}
  BY DEF LedgersInv, ScopesOK
<1>6. (main.state = "needs_action" /\ FreshHold(main.code) => \E c \in 0..MaxHolds : Latest(main.code, c))'
  <2>1. main' = main \/ main'.state # "needs_action"
    BY Vocabulary DEF Moving, ExceptionalStates
  <2>2. QED
    BY <1>1, <2>1, MainScopeKept
<1>7. HoldsWith(w.code)' = HoldsWith(code)
  <2>1. HoldsWith(w.code)' = HoldsWith(code)'
    BY <1>3 DEF HoldsWith
  <2>2. QED
    BY <2>1, SameHolds
<1>8. (FreshHold(w.code) => \E c \in 0..MaxHolds : Latest(w.code, c))'
  <2>1. FreshHold(code) => \E c \in 0..MaxHolds : Latest(code, c)
    BY <1>2 DEF LedgersInv, ScopesOK
  <2>2. FreshHold(w.code)' => FreshHold(code)
    BY <1>3, <1>7 DEF FreshHold
  <2>3. \A c : Latest(code, c) => Latest(w.code, c)'
    BY <1>7 DEF Latest
  <2>4. QED
    BY <2>1, <2>2, <2>3
<1>9. (Resuming /\ w.sub # "receipts" /\ w.sub # "reconciled" => HoldsWith(w.code) # {})'
  BY <1>2, <1>3, <1>7
<1>10. QED
  BY <1>3, <1>4, <1>5, <1>6, <1>8, <1>9 DEF ScopesOK, WalkOK

LEMMA ResumeReceiptsKeeps ==
  ASSUME LedgersInv, ResumeReceipts
  PROVE  LedgersInv'
<1>1. /\ UNCHANGED <<d1, kept, recording, ops, wechat, late>> /\ w.run = "live" /\ Resuming
  BY DEF ResumeReceipts, At, external, Resuming
<1>2. \/ UNCHANGED <<main, faults>> /\ (Then("reconciled") \/ Hold(Unreconciled))
      \/ \E a \in Kept : Projected(a[1], a[2]) /\ \E o \in Outcomes :
            /\ WriteMain(artifactState(a[1], a[2]), Artifact(a[1], a[2]), "none", o)
            /\ Then("receipts") \/ Hold(Unreconciled)
  BY DEF ResumeReceipts, Pending, TryMain
<1>3. /\ RowsOK' /\ HoldsOK' /\ ArtifactsInTurn' /\ HoldKeys' = HoldKeys /\ main' \in Rows /\ faults' \in 0..MaxFaults
      /\ main' = main \/ main'.state \in WECHAT_RESUMABLE_STATES
      /\ Then("reconciled") \/ Then("receipts") \/ Hold(Unreconciled)
  <2>1. CASE UNCHANGED <<main, faults>> /\ (Then("reconciled") \/ Hold(Unreconciled))
    BY <1>1, <2>1, LedgersStill DEF LedgersInv, Typed
  <2>2. CASE \E a \in Kept : Projected(a[1], a[2]) /\ \E o \in Outcomes :
            /\ WriteMain(artifactState(a[1], a[2]), Artifact(a[1], a[2]), "none", o)
            /\ Then("receipts") \/ Hold(Unreconciled)
    <3>1. PICK a \in Kept, o \in Outcomes :
            /\ Projected(a[1], a[2])
            /\ WriteMain(artifactState(a[1], a[2]), Artifact(a[1], a[2]), "none", o)
            /\ Then("receipts") \/ Hold(Unreconciled)
      BY <2>2
    <3>2. PICK what \in Kinds, scope \in Nat : what = a[1] /\ scope = a[2]
      BY WechatDraftOK DEF LedgersInv, Typed
    <3>3. artifactState(what, scope) \in WECHAT_RESUMABLE_STATES
      BY TargetIsCheckpoint DEF LedgersInv
    <3>4. PICK state \in WECHAT_RESUMABLE_STATES : state = artifactState(what, scope)
      BY <3>3
    <3>5. WriteMain(state, Artifact(what, scope), "none", o) /\ Projected(what, scope)
      BY <3>1, <3>2, <3>4
    <3>6. QED
      BY <1>1, <3>1, <3>5, ReceiptWritten
  <2>3. QED
    BY <1>2, <2>1, <2>2
<1>4. w' \in Instances /\ ScopesOK' /\ WalkOK'
  <2>1. CASE Then("reconciled") \/ Then("receipts")
    BY <1>1, <1>3, <2>1, ResumingOK
  <2>2. CASE Hold(Unreconciled)
    <3>1. main' = main \/ main'.state # "needs_action"
      BY <1>3, Vocabulary DEF Moving, ExceptionalStates
    <3>2. QED
      BY <1>1, <1>3, <2>2, <3>1, DoubtHeld
  <2>3. QED
    BY <1>3, <2>1, <2>2
<1>5. QED
  BY <1>1, <1>3, <1>4 DEF LedgersInv, Typed, OpsTyped, Kept

\* The cycle of a recovery is that of the last hold of its code.
LEMMA CycleIsLatest ==
  ASSUME LedgersInv, NEW code \in HoldCodes, HoldsWith(code) # {}
  PROVE  cycleOf(code) \in 1..Holds /\ Latest(code, cycleOf(code)) /\ \A c : Latest(code, c) => c = cycleOf(code)
<1>1. PICK c \in 1..Holds : Latest(code, c)
  BY DEF LedgersInv, HoldsOK
<1>2. \A key \in HoldsWith(code) : key[3] \in 1..Holds
  BY DEF LedgersInv, HoldsOK, HoldsWith, HoldKeys
<1>3. Holds \in Nat
  BY HoldsCounted DEF LedgersInv
<1> DEFINE last == CHOOSE key \in HoldsWith(code) : \A other \in HoldsWith(code) : other[3] <= key[3]
<1>4. \E key \in HoldsWith(code) : \A other \in HoldsWith(code) : other[3] <= key[3]
  BY <1>1 DEF Latest
<1>5. last \in HoldsWith(code) /\ \A other \in HoldsWith(code) : other[3] <= last[3]
  BY <1>4
<1>6. cycleOf(code) = last[3]
  BY DEF cycleOf
<1> HIDE DEF last
<1>7. Latest(code, last[3]) /\ last[3] \in 1..Holds
  BY <1>2, <1>5 DEF Latest
<1>8. ASSUME NEW x, Latest(code, x) PROVE x = last[3]
  BY <1>2, <1>5, <1>8 DEF Latest
<1>9. QED
  BY <1>6, <1>7, <1>8

\* What a step of the recovery writes in D1.
LEMMA ResumeStepKeeps ==
  ASSUME LedgersInv, Resuming, NEW sub \in {"reconciled", "retrying", "resumed"}, NEW next \in {"retrying", "resumed", "main"},
         UNCHANGED <<main, kept, recording, ops, wechat, late>>,
         NEW target \in Targets, NEW code \in HoldCodes, NEW cycle, cycle = cycleOf(w.code), NEW last, last = d1.last,
         NEW same \in BOOLEAN,
         sub = "resumed" => last \in WECHAT_RESUMABLE_STATES,
         \/ UNCHANGED <<d1, faults>> /\ Hold(Unreconciled)
         \/ HoldsWith(w.code) # {} /\ Then(next) /\ UNCHANGED <<d1, faults>>
         \/ /\ HoldsWith(w.code) # {} /\ (Then(next) \/ Hold(Unknown))
            /\ \E o \in Outcomes : WriteD1(target, <<sub, last, cycle>>, code, same, o)
  PROVE  LedgersInv'
<1>1. /\ w.run = "live" /\ w.code \in HoldCodes /\ d1 \in Rows /\ last \in Moving /\ ArtifactsInTurn /\ Holds \in Nat
      /\ HoldsOK /\ D1Row(d1)
  BY HoldsCounted DEF LedgersInv, Typed, Instances, RowsOK, D1Row, Resuming
<1>2. /\ faults' \in 0..MaxFaults /\ d1' \in Rows /\ RowsOK' /\ HoldsOK' /\ ArtifactsInTurn' /\ HoldKeys' = HoldKeys
  <2>1. CASE d1' = d1 /\ faults' = faults
    BY <2>1, LedgersStill DEF LedgersInv, Typed
  <2>2. CASE HoldsWith(w.code) # {} /\ \E o \in Outcomes : WriteD1(target, <<sub, last, cycle>>, code, same, o)
    <3> DEFINE key == <<sub, last, cycle>>
    <3>1. cycle \in 1..Holds /\ cycle \in Nat
      BY <1>1, <2>2, CycleIsLatest
    <3>2. key \in LogKeys /\ key[1] = sub /\ key[2] = last /\ key[3] = cycle
      BY <1>1, <3>1, KeysAreKeys
    <3>3. PICK o \in Outcomes : WriteD1(target, key, code, same, o)
      BY <2>2
    <3> HIDE DEF key
    <3>4. /\ faults' \in 0..MaxFaults
          /\ IF o = "failed" THEN d1' = d1 ELSE d1' \in Rows /\ D1Row(d1') /\ d1'.log = Append(d1.log, key)
      BY <3>2, <3>3, WroteD1
    <3>5. CASE o = "failed"
      BY <1>1, <3>4, <3>5, LedgersStill
    <3>6. CASE o # "failed"
      <4>1. \A tag : Tagged(d1, tag)' = Tagged(d1, tag) \cup {k \in {key} : k[1] = tag}
        BY <1>1, <3>2, <3>4, <3>6, D1Log
      <4>2. HoldKeys' = HoldKeys /\ ResumedKeys' \subseteq ResumedKeys \cup {k \in {key} : k[1] = "resumed"}
        BY <3>2, <4>1 DEF HoldKeys, ResumedKeys
      <4>3. /\ Holds' = Holds
            /\ \A x : HoldsWith(x)' = HoldsWith(x)
            /\ \A x, c : Latest(x, c)' <=> Latest(x, c)
        BY <4>2, SameHolds
      <4>4. HoldsOK'
        BY <1>1, <3>1, <3>2, <4>2, <4>3 DEF HoldsOK
      <4>5. ArtifactsInTurn'
        BY <1>1, <3>2, <3>4, <3>6, SameArtifacts, OtherD1Event, NoMainEvent
      <4>6. RowsOK'
        BY <3>4, <3>6 DEF LedgersInv, RowsOK
      <4>7. QED
        BY <3>4, <3>6, <4>2, <4>4, <4>5, <4>6
    <3>7. QED
      BY <3>5, <3>6
  <2>3. QED
    BY <2>1, <2>2
<1>3. w' \in Instances /\ ScopesOK' /\ WalkOK'
  <2>1. CASE HoldsWith(w.code) # {} /\ Then(next)
    BY <1>2, <2>1, ResumingOK
  <2>2. CASE Hold(Unreconciled) \/ Hold(Unknown)
    BY <1>1, <1>2, <2>2, DoubtHeld
  <2>3. QED
    BY <2>1, <2>2
<1>4. QED
  BY <1>2, <1>3 DEF LedgersInv, Typed, OpsTyped, Kept

LEMMA ResumeStepsKeep ==
  ASSUME LedgersInv, ResumeReconciled \/ ResumeRetrying \/ ResumeResumed
  PROVE  LedgersInv'
<1>1. PICK last : last = d1.last
  OBVIOUS
<1>2. PICK cycle : cycle = cycleOf(w.code)
  OBVIOUS
<1>3. w.run = "live" /\ w.pc = "resume" /\ Resuming /\ UNCHANGED <<main, kept, recording, ops, wechat, late>>
  BY DEF ResumeReconciled, ResumeRetrying, ResumeResumed, ResumeStep, At, external, Resuming
<1>4. /\ "needs_action" \in Targets /\ "retrying" \in Targets /\ Reconciled \in HoldCodes /\ "none" \in HoldCodes
      /\ last \in Moving /\ last \in Targets
  BY <1>1 DEF Targets, ExceptionalStates, HoldCodes, LedgersInv, RowsOK, D1Row
<1>5. CASE ResumeReconciled
  <2>1. PICK same \in BOOLEAN : same = ("needs_action" = d1.state)
    OBVIOUS
  <2>2. \/ UNCHANGED <<d1, faults>> /\ Hold(Unreconciled)
        \/ HoldsWith(w.code) # {} /\ Then("retrying") /\ UNCHANGED <<d1, faults>>
        \/ /\ HoldsWith(w.code) # {} /\ (Then("retrying") \/ Hold(Unknown))
           /\ \E o \in Outcomes : WriteD1("needs_action", <<"reconciled", last, cycle>>, Reconciled, same, o)
    BY <1>1, <1>2, <1>5, <2>1 DEF ResumeReconciled, ResumeStep
  <2>3. QED
    BY <1>1, <1>2, <1>3, <1>4, <2>2, ResumeStepKeeps
<1>6. CASE ResumeRetrying
  <2>1. PICK same \in BOOLEAN : same = ("retrying" = d1.state)
    OBVIOUS
  <2>2. \/ UNCHANGED <<d1, faults>> /\ Hold(Unreconciled)
        \/ HoldsWith(w.code) # {} /\ Then("resumed") /\ UNCHANGED <<d1, faults>>
        \/ /\ HoldsWith(w.code) # {} /\ (Then("resumed") \/ Hold(Unknown))
           /\ \E o \in Outcomes : WriteD1("retrying", <<"retrying", last, cycle>>, "none", same, o)
    BY <1>1, <1>2, <1>6, <2>1 DEF ResumeRetrying, ResumeStep
  <2>3. QED
    BY <1>1, <1>2, <1>3, <1>4, <2>2, ResumeStepKeeps
<1>7. CASE ResumeResumed
  <2>1. PICK same \in BOOLEAN : same = (last = d1.state)
    OBVIOUS
  <2>2. \/ UNCHANGED <<d1, faults>> /\ Hold(Unreconciled)
        \/ HoldsWith(w.code) # {} /\ Then("main") /\ UNCHANGED <<d1, faults>>
        \/ /\ HoldsWith(w.code) # {} /\ (Then("main") \/ Hold(Unknown)) /\ d1.state = "retrying"
           /\ \E o \in Outcomes : WriteD1(last, <<"resumed", last, cycle>>, "none", same, o)
    BY <1>1, <1>2, <1>7, <2>1 DEF ResumeResumed, ResumeStep
  <2>3. CASE d1.state = "retrying"
    <3>1. last \in WECHAT_RESUMABLE_STATES
      BY <1>1, <1>4, <2>3 DEF LedgersInv, RowsOK, D1Row, Moving
    <3>2. QED
      BY <1>1, <1>2, <1>3, <1>4, <2>2, <3>1, ResumeStepKeeps
  <2>4. CASE d1.state # "retrying" /\ UNCHANGED <<d1, faults>> /\ (Hold(Unreconciled) \/ (HoldsWith(w.code) # {} /\ Then("main")))
    <3>1. HoldKeys' = HoldKeys
      BY <2>4, SameD1
    <3>2. w' \in Instances /\ ScopesOK' /\ WalkOK'
      BY <1>3, <2>4, <3>1, ResumingOK, DoubtHeld
    <3>3. QED
      BY <1>3, <2>4, <3>2, LedgersUntouched DEF LedgersInv, Typed, OpsTyped, Kept
  <2>5. QED
    BY <2>2, <2>3, <2>4
<1>8. QED
  BY <1>5, <1>6, <1>7

LEMMA ResumeMainKeeps ==
  ASSUME LedgersInv, ResumeMain
  PROVE  LedgersInv'
<1>1. PICK last : last = d1.last
  OBVIOUS
<1>2. PICK cycle : cycle = cycleOf(w.code)
  OBVIOUS
<1>3. PICK scope : scope = IF RequiresFreshEpoch(w.code) THEN cycle ELSE 0
  OBVIOUS
<1>4. /\ w.run = "live" /\ w.pc = "resume" /\ w.sub = "main" /\ Resuming /\ UNCHANGED <<d1, kept, recording, ops, wechat, late>>
      /\ w.code \in HoldCodes /\ last \in Moving
  BY <1>1 DEF ResumeMain, At, external, Resuming, LedgersInv, Typed, Instances, RowsOK, D1Row
<1>5. /\ HoldsWith(w.code) # {} /\ cycle \in Nat /\ scope \in 0..MaxHolds
  <2>1. HoldsWith(w.code) # {}
    BY <1>4 DEF LedgersInv, ScopesOK
  <2>2. cycle \in 1..Holds /\ Latest(w.code, cycle) /\ \A c : Latest(w.code, c) => c = cycle
    BY <1>2, <1>4, <2>1, CycleIsLatest
  <2>3. RequiresFreshEpoch(w.code) => cycle \in 0..MaxHolds
    BY <1>4, <2>1, <2>2 DEF LedgersInv, ScopesOK, FreshHold
  <2>4. QED
    BY <1>3, <2>1, <2>2, <2>3, WechatDraftOK
<1>6. main.state \in WECHAT_RESUMABLE_STATES \cup {"needs_action"}
  BY <1>4 DEF LedgersInv, ScopesOK
<1>7. \/ Hold(Unreconciled) /\ UNCHANGED <<main, faults>>
      \/ main.state = last /\ StartInner(last, scope, cycle) /\ UNCHANGED <<main, faults>>
      \/ main.state = "needs_action" /\ \E o \in Outcomes :
           /\ WriteMain(last, <<"resumed", last, cycle>>, "none", o)
           /\ IF o = "failed" THEN Hold(Unknown) ELSE StartInner(last, scope, cycle)
      \/ Hold(Unknown) /\ UNCHANGED <<main, faults>>
  BY <1>1, <1>2, <1>3 DEF ResumeMain, TryMain
<1>8. HoldKeys' = HoldKeys
  BY <1>4, SameD1
<1>9. CASE UNCHANGED <<main, faults>> /\ (Hold(Unreconciled) \/ Hold(Unknown))
  <2>1. w' \in Instances /\ ScopesOK' /\ WalkOK'
    BY <1>4, <1>8, <1>9, DoubtHeld
  <2>2. QED
    BY <1>4, <1>9, <2>1, LedgersUntouched DEF LedgersInv, Typed, OpsTyped, Kept
<1>10. CASE main.state = last /\ StartInner(last, scope, cycle) /\ UNCHANGED <<main, faults>>
  <2>1. main.state \in WECHAT_RESUMABLE_STATES
    BY <1>4, <1>6, <1>10, Vocabulary DEF Moving, ExceptionalStates
  <2>2. w' \in Instances /\ ScopesOK' /\ WalkOK'
    BY <1>4, <1>5, <1>10, <2>1, BegunOK
  <2>3. QED
    BY <1>4, <1>10, <2>2, LedgersUntouched DEF LedgersInv, Typed, OpsTyped, Kept
<1>11. ASSUME main.state = "needs_action",
              NEW o \in Outcomes, WriteMain(last, <<"resumed", last, cycle>>, "none", o),
              IF o = "failed" THEN Hold(Unknown) ELSE StartInner(last, scope, cycle)
       PROVE  LedgersInv'
  <2>1. <<"resumed", last, cycle>> \in LogKeys /\ <<"resumed", last, cycle>>[1] # "artifact" /\ "none" \in HoldCodes
    BY <1>4, <1>5, KeysAreKeys DEF HoldCodes
  <2>2. /\ main' \in Rows /\ faults' \in 0..MaxFaults /\ RowsOK' /\ HoldsOK' /\ ArtifactsInTurn'
    BY <1>4, <1>11, <2>1, QuietMainWrite
  <2>3. MainAllows(last) /\ IF o = "failed" THEN main' = main ELSE main'.state = last
    BY <1>4, <1>11, <2>1, WroteMain
  <2>4. last \in WECHAT_RESUMABLE_STATES
    BY <1>4, <1>11, <2>3, Vocabulary DEF MainAllows, Moving, ExceptionalStates
  <2>5. w' \in Instances /\ ScopesOK' /\ WalkOK'
    <3>1. CASE o = "failed"
      BY <1>4, <1>8, <1>11, <2>3, <3>1, DoubtHeld
    <3>2. CASE o # "failed"
      BY <1>4, <1>5, <1>11, <2>3, <2>4, <3>2, BegunOK
    <3>3. QED
      BY <3>1, <3>2
  <2>6. QED
    BY <1>4, <2>2, <2>5 DEF LedgersInv, Typed, OpsTyped, Kept
<1>12. QED
  BY <1>7, <1>9, <1>10, <1>11

-----------------------------------------------------------------------------
(* The engine, the operator, the App, the author, and the beginning.       *)

LEMMA InstanceBegun ==
  ASSUME LedgersInv, UNCHANGED <<d1, main>>, w' = Instance,
         main.state = "needs_action" /\ FreshHold(main.code) => \E c \in 0..MaxHolds : Latest(main.code, c)
  PROVE  w' \in Instances /\ ScopesOK' /\ WalkOK'
<1>1. w' \in Instances /\ w'.run = "live" /\ w'.pc = "enter"
  BY DEF Instance, Instances, Stages, Subs, HoldCodes, Contents
<1>2. ~ Walking' /\ ~ Resuming'
  BY <1>1 DEF Walking, Resuming, Kinds, Calls
<1>3. HoldKeys' = HoldKeys
  BY SameD1
<1>4. (main.state = "needs_action" /\ FreshHold(main.code) => \E c \in 0..MaxHolds : Latest(main.code, c))'
  <2>1. Tagged(d1, "hold")' = Tagged(d1, "hold")
    BY <1>3 DEF HoldKeys
  <2>2. QED
    BY <2>1 DEF FreshHold, Latest, HoldsWith
<1>5. QED
  BY <1>1, <1>2, <1>4 DEF ScopesOK, WalkOK

LEMMA RestartsKeep ==
  ASSUME LedgersInv, EngineRestart \/ Restart
  PROVE  LedgersInv'
<1>1. UNCHANGED <<d1, main, kept, recording, ops, wechat, late>> /\ w' = Instance
  BY DEF EngineRestart, Restart, external
<1>2. faults' \in 0..MaxFaults
  BY FaultCounts DEF EngineRestart, Restart, LedgersInv, Typed
<1>3. main.state = "needs_action" /\ FreshHold(main.code) => \E c \in 0..MaxHolds : Latest(main.code, c)
  <2>1. CASE w.run = "live"
    BY <2>1 DEF LedgersInv, ScopesOK
  <2>2. CASE Holds < MaxHolds
    <3>1. main.code \in HoldCodes /\ Holds \in Nat
      BY HoldsCounted DEF LedgersInv, Typed, Rows
    <3>2. FreshHold(main.code) => \E c \in 1..Holds : Latest(main.code, c)
      BY <3>1 DEF FreshHold, LedgersInv, HoldsOK
    <3>3. QED
      BY <2>2, <3>1, <3>2, WechatDraftOK
  <2>3. QED
    BY <2>1, <2>2 DEF EngineRestart, Restart
<1>4. w' \in Instances /\ ScopesOK' /\ WalkOK'
  BY <1>1, <1>3, InstanceBegun
<1>5. QED
  BY <1>1, <1>2, <1>4, LedgersUntouched DEF LedgersInv, Typed, OpsTyped, Kept

LEMMA AppKeeps ==
  ASSUME LedgersInv, App
  PROVE  LedgersInv'
<1>1. PICK target \in Targets, what \in {"cancel", "retry", "resume"} :
        /\ D1Allows(target, FALSE)
        /\ d1' = WithEvent(d1, target, <<"app", what, Len(d1.log)>>, "none")
        /\ UNCHANGED <<main, kept, recording, ops, wechat, late, w>> /\ faults' \in 0..MaxFaults
  BY AppWrites
<1>2. PICK n \in Nat : n = Len(d1.log)
  BY DEF LedgersInv, Typed, Rows
<1> DEFINE key == <<"app", what, n>>
<1>3. key \in LogKeys /\ key[1] = "app" /\ "none" \in HoldCodes
  BY KeysAreKeys DEF HoldCodes
<1>4. d1' = WithEvent(d1, target, key, "none")
  BY <1>1, <1>2
<1> HIDE DEF key
<1>5. d1 \in Rows /\ D1Row(d1) /\ ArtifactsInTurn /\ HoldsOK
  BY DEF LedgersInv, Typed, RowsOK
<1>6. d1' \in Rows /\ D1Row(d1') /\ d1'.log = Append(d1.log, key)
  <2>1. FALSE \in BOOLEAN
    OBVIOUS
  <2>2. d1' \in Rows /\ D1Row(d1')
    BY <1>1, <1>3, <1>4, <1>5, <2>1, D1RowKept
  <2>3. d1'.log = Append(d1.log, key)
    BY <1>3, <1>4, <1>5, RowGrows
  <2>4. QED
    BY <2>2, <2>3
<1>7. HoldKeys' = HoldKeys /\ ResumedKeys' = ResumedKeys
  BY <1>3, <1>5, <1>6, QuietD1
<1>8. HoldsOK' /\ RowsOK'
  BY <1>1, <1>5, <1>6, <1>7, HoldsStill DEF LedgersInv, RowsOK
<1>9. \A kind \in Kinds, s \in Nat : Projected(kind, s)' <=> Projected(kind, s)
  BY <1>3, <1>5, <1>6, OtherD1Event
<1>10. ArtifactsInTurn'
  BY <1>1, <1>5, <1>9, SameArtifacts, NoMainEvent
<1>11. w' \in Instances /\ ScopesOK' /\ WalkOK'
  BY <1>1, <1>7, <1>9, WalkStill
<1>12. QED
  BY <1>1, <1>6, <1>8, <1>10, <1>11 DEF LedgersInv, Typed, OpsTyped, Kept

LEMMA EditDraftKeeps ==
  ASSUME LedgersInv, EditDraft
  PROVE  LedgersInv'
<1>1. /\ UNCHANGED <<d1, main, kept, ops, recording, w, late>> /\ faults' \in 0..MaxFaults
      /\ wechat' = [wechat EXCEPT !.content = "other"]
  BY FaultCounts DEF EditDraft, LedgersInv, Typed
<1>2. wechat' \in [drafts : Nat, content : Contents, mapped : BOOLEAN]
  BY <1>1 DEF LedgersInv, Typed, Contents
<1>3. w' \in Instances /\ ScopesOK' /\ WalkOK'
  BY <1>1, SameD1, NoD1Event, WalkStill
<1>4. QED
  BY <1>1, <1>2, <1>3, LedgersUntouched DEF LedgersInv, Typed, OpsTyped, Kept

LEMMA NothingHappens ==
  ASSUME LedgersInv, UNCHANGED draftVars
  PROVE  LedgersInv'
<1>1. UNCHANGED <<d1, main, kept, ops, wechat, recording, w, late, faults>>
  BY DEF draftVars
<1>2. w' \in Instances /\ ScopesOK' /\ WalkOK'
  BY <1>1, SameD1, NoD1Event, WalkStill
<1>3. QED
  BY <1>1, <1>2, LedgersUntouched DEF LedgersInv, Typed, OpsTyped, Kept

LEMMA LedgersBegin ==
  ASSUME DraftInit
  PROVE  LedgersInv
<1>1. d1 = Fresh /\ main = Fresh /\ w = Instance /\ kept = [a \in {} |-> "made"] /\ ops = [k \in {} |-> NoOp]
  BY DEF DraftInit
<1>2. Fresh \in Rows /\ Fresh.state = "visual_ready" /\ Fresh.last = "visual_ready" /\ Fresh.log = <<>>
  <2>1. "visual_ready" \in Targets /\ "none" \in HoldCodes /\ <<>> \in Seq(LogKeys)
    BY Vocabulary DEF Targets, Moving, HoldCodes
  <2>2. QED
    BY <2>1 DEF Fresh, Rows
<1>3. (\A k : ~ Has(d1, k)) /\ (\A k : ~ Has(main, k)) /\ \A tag : Tagged(d1, tag) = {}
  BY <1>1, <1>2 DEF Has, Tagged
<1>4. Instance \in Instances /\ Instance.run = "live" /\ Instance.pc = "enter"
  BY DEF Instance, Instances, Stages, Subs, HoldCodes, Contents
<1>5. Typed
  <2>1. Kept = {} /\ OpsTyped
    BY <1>1 DEF Kept, OpsTyped
  <2>2. /\ wechat \in [drafts : Nat, content : Contents, mapped : BOOLEAN] /\ recording \in BOOLEAN /\ late \in Nat
        /\ faults \in 0..MaxFaults
    <3>1. wechat = [drafts |-> 0, content |-> "none", mapped |-> FALSE] /\ recording = FALSE /\ late = 0 /\ faults = 0
      BY DEF DraftInit
    <3>2. wechat \in [drafts : Nat, content : Contents, mapped : BOOLEAN] /\ recording \in BOOLEAN
      BY <3>1 DEF Contents
    <3>3. late \in Nat /\ faults \in 0..MaxFaults
      BY <3>1, WechatDraftOK
    <3>4. QED
      BY <3>2, <3>3
  <2>3. QED
    BY <1>1, <1>2, <1>4, <2>1, <2>2 DEF Typed
<1>6. RowsOK
  BY <1>1, <1>2, Vocabulary DEF RowsOK, D1Row, Moving
<1>7. HoldsOK
  <2>1. HoldKeys = {} /\ ResumedKeys = {} /\ \A code : HoldsWith(code) = {}
    BY <1>3 DEF HoldKeys, ResumedKeys, HoldsWith
  <2>2. QED
    BY <2>1, FS_EmptySet DEF HoldsOK
<1>8. ScopesOK /\ WalkOK
  <2>1. ~ Walking /\ ~ Resuming
    BY <1>1, <1>4 DEF Walking, Resuming, Kinds, Calls
  <2>2. \A code : ~ FreshHold(code)
    BY <1>3 DEF FreshHold, HoldsWith
  <2>3. QED
    BY <1>1, <1>4, <2>1, <2>2 DEF ScopesOK, WalkOK
<1>9. ArtifactsInTurn
  BY <1>3 DEF ArtifactsInTurn, Projected, Receipted
<1>10. QED
  BY <1>5, <1>6, <1>7, <1>8, <1>9 DEF LedgersInv

LEMMA LedgersKept ==
  ASSUME LedgersInv, CallsMade, [DraftNext]_draftVars
  PROVE  LedgersInv'
<1>1. CASE Step
  BY <1>1, EnterKeeps, KeepKeeps, CommitKeeps, ReceiptKeeps, SettleKeeps, SyncD1Keeps, SyncMainKeeps, AskKeeps, SendKeeps,
     AnswerCallKeeps, VerifyKeeps, ReadyD1Keeps, ReadyMainKeeps, HoldD1Keeps, HoldMainKeeps, FailD1Keeps, FailMainKeeps,
     ResumeReceiptsKeeps, ResumeStepsKeep, ResumeMainKeeps DEF Step
<1>2. CASE DraftNext /\ ~ Step
  BY <1>2, ProviderKeeps, RestartsKeep, AppKeeps, EditDraftKeeps DEF DraftNext
<1>3. CASE UNCHANGED draftVars
  BY <1>3, NothingHappens
<1>4. QED
  BY <1>1, <1>2, <1>3

-----------------------------------------------------------------------------
(* Calls that were asked have their operation.                             *)

LEMMA CallsAside ==
  ASSUME CallsMade, DOMAIN ops \subseteq DOMAIN ops', NEW settle, settle = w.settle, Aside(w', settle)
  PROVE  CallsMade'
<1>1. w'.settle = <<>> \/ w'.settle \in DOMAIN ops'
  BY DEF CallsMade, Aside
<1>2. w'.run = "live" /\ w'.pc \in Kinds => w'.sub # "settle"
  BY DEF Aside
<1>3. w'.run = "live" /\ w'.pc \in Calls => w'.sub = "ask" /\ w'.pc # "find" /\ w'.pc # "write"
  BY DEF Aside
<1>4. "find" \in Calls /\ "write" \in Calls
  BY DEF Calls
<1>5. QED
  BY <1>1, <1>2, <1>3, <1>4 DEF CallsMade, Walking

LEMMA AsideForms ==
  ASSUME w \in Instances, NEW settle, settle = w.settle,
         \/ Fail \/ w' = Instance \/ (\E code : Hold(code)) \/ (\E how \in {"done", "errored"} : Stop(how))
         \/ \E state, scope, cycle : StartInner(state, scope, cycle)
         \/ \E pc \in Stages \ {"find", "write"} : Begin(pc)
         \/ w.pc \notin Calls /\ \E sub \in Subs \ {"settle"} : Then(sub)
  PROVE  Aside(w', settle)
<1>1. CASE Fail
  BY <1>1 DEF Fail, Goto, Instances, Aside, Kinds, Calls
<1>2. CASE w' = Instance
  BY <1>2 DEF Instance, Aside, Kinds, Calls
<1>3. CASE \E code : Hold(code)
  BY <1>3 DEF Hold, Instances, Aside, Kinds, Calls
<1>4. CASE \E how \in {"done", "errored"} : Stop(how)
  BY <1>4 DEF Stop, Instances, Aside
<1>5. CASE \E state, scope, cycle : StartInner(state, scope, cycle)
  BY <1>5 DEF StartInner, Instances, Aside, Kinds, Calls
<1>6. CASE \E pc \in Stages \ {"find", "write"} : Begin(pc)
  <2>1. PICK pc \in Stages \ {"find", "write"} : Begin(pc)
    BY <1>6
  <2>2. PICK sub : sub = FirstSub(pc)
    OBVIOUS
  <2>3. w' = [w EXCEPT !.pc = pc, !.sub = sub]
    BY <2>1, <2>2 DEF Begin, Goto
  <2>4. sub # "settle" /\ (pc \in Calls => sub = "ask")
    BY <2>2 DEF FirstSub
  <2>5. QED
    BY <2>1, <2>3, <2>4 DEF Instances, Aside
<1>7. CASE w.pc \notin Calls /\ \E sub \in Subs \ {"settle"} : Then(sub)
  BY <1>7 DEF Then, Goto, Instances, Aside
<1>8. QED
  BY <1>1, <1>2, <1>3, <1>4, <1>5, <1>6, <1>7

LEMMA FollowingAsks ==
  ASSUME NEW pc \in Kinds
  PROVE  Following(pc) \in Stages \ {"find", "write"}
<1>1. CASE pc = "template"
  BY <1>1 DEF Kinds, Calls, Following, Stages
<1>2. CASE pc = "renderqa"
  BY <1>2 DEF Kinds, Calls, Following, Stages
<1>3. CASE pc = "image"
  BY <1>3 DEF Kinds, Calls, Following, Stages
<1>4. CASE pc = "package"
  BY <1>4 DEF Kinds, Calls, Following, Stages
<1>5. CASE pc = "preqa"
  BY <1>5 DEF Kinds, Calls, Following, Stages
<1>6. CASE pc = "receipt"
  BY <1>6 DEF Kinds, Calls, Following, Stages
<1>7. CASE pc = "readback"
  BY <1>7 DEF Kinds, Calls, Following, Stages
<1>8. QED
  BY <1>1, <1>2, <1>3, <1>4, <1>5, <1>6, <1>7 DEF Kinds

LEMMA CommittedCalls ==
  ASSUME w \in Instances, CallsMade, w.pc \in Kinds, ops' = ops, Committed
  PROVE  CallsMade'
<1>1. PICK settle : settle = w.settle
  OBVIOUS
<1>2. CASE w.settle # <<>> /\ Then("settle")
  <2>1. w' = [w EXCEPT !.sub = "settle"]
    BY <1>2 DEF Then, Goto, Instances
  <2>2. w'.settle = settle /\ w'.pc = w.pc /\ w'.pc \notin Calls
    BY <1>1, <2>1 DEF Instances, Kinds, Calls
  <2>3. QED
    BY <1>1, <1>2, <2>2 DEF CallsMade, Walking, Calls
<1>3. CASE (\E code : Hold(code)) \/ Begin(Following(w.pc))
  <2>1. Aside(w', settle)
    BY <1>1, <1>3, FollowingAsks, AsideForms
  <2>2. QED
    BY <1>1, <2>1, CallsAside
<1>4. QED
  BY <1>2, <1>3 DEF Committed, Continue

\* A call that goes on, asked or not.
LEMMA CallGoesOn ==
  ASSUME w \in Instances, CallsMade, w.run = "live", w.pc \in Calls, main' = main, NEW k, k = OpOf(w.pc),
         DOMAIN ops \subseteq DOMAIN ops', w.pc = "find" => OpenWrites' # {},
         NEW sub, NEW n, w' = [w EXCEPT !.sub = sub, !.try = n], sub \in {"send", "query", "wait"} => k \in DOMAIN ops'
  PROVE  CallsMade'
<1>1. PICK settle : settle = w.settle
  OBVIOUS
<1>2. PICK pc \in Calls : pc = w.pc
  OBVIOUS
<1>3. /\ w'.settle = settle /\ w'.pc = pc /\ w'.sub = sub /\ w'.run = "live" /\ pc \notin Kinds
      /\ w'.scope = w.scope /\ w'.cycle = w.cycle /\ w'.mutation = w.mutation
  BY <1>1, <1>2 DEF Instances, Kinds, Calls
<1>4. OpOf(w.pc)' = k
  BY <1>2, <1>3 DEF OpOf
<1>5. (w.pc = "write" => w.mutation \in {"add", "update"})'
  BY <1>2, <1>3 DEF CallsMade, Walking
<1>6. QED
  BY <1>1, <1>2, <1>3, <1>4, <1>5 DEF CallsMade, Walking

\* An operation's change leaves the open writes among the others.
LEMMA OtherWritesOpen ==
  ASSUME NEW k, k[1] \notin {"add", "update"}, NEW op, ops' = ops \/ SetOp(k, op), OpenWrites # {}
  PROVE  OpenWrites' # {}
<1>1. PICK o \in OpenWrites : TRUE
  OBVIOUS
<1>2. o \in DOMAIN ops /\ o[1] \in {"add", "update"} /\ LastOf(ops[o].tries) = "open"
  BY <1>1 DEF OpenWrites, Open
<1>3. o \in DOMAIN ops' /\ ops'[o] = ops[o]
  BY <1>2 DEF SetOp
<1>4. o \in OpenWrites'
  BY <1>2, <1>3 DEF OpenWrites, Open
<1>5. QED
  BY <1>4

LEMMA StagesCalls ==
  ASSUME LedgersInv, CallsMade,
         Enter \/ Keep \/ SyncD1 \/ SyncMain \/ Verify \/ ReadyD1 \/ ReadyMain \/ HoldD1 \/ HoldMain \/ FailD1 \/ FailMain
  PROVE  CallsMade'
<1>1. PICK settle : settle = w.settle
  OBVIOUS
<1>2. w \in Instances
  BY DEF LedgersInv, Typed
<1>3. ops' = ops
  BY DEF Enter, Keep, SyncD1, SyncMain, Verify, ReadyD1, ReadyMain, HoldD1, HoldMain, FailD1, FailMain, StopD1, StopMain, external
<1>4. "event" \in Subs \ {"settle"} /\ "main" \in Subs \ {"settle"} /\ "again" \in Subs \ {"settle"}
      /\ "upload" \in Stages \ {"find", "write"} /\ "ready" \in Stages \ {"find", "write"}
  BY DEF Subs, Stages, Calls
<1>5. CASE Enter
  <2>1. \/ (\E code : Hold(code)) \/ (\E how \in {"done", "errored"} : Stop(how))
        \/ \E state, scope, cycle : StartInner(state, scope, cycle)
        \/ w' = [w EXCEPT !.pc = "ready", !.sub = "main", !.scope = TheOne(Passing)]
        \/ w' = [w EXCEPT !.pc = "resume", !.sub = "receipts", !.code = main.code]
    BY <1>5 DEF Enter
  <2>2. Aside(w', settle)
    <3>1. CASE w' = [w EXCEPT !.pc = "ready", !.sub = "main", !.scope = TheOne(Passing)]
      BY <1>1, <1>2, <3>1 DEF Instances, Aside, Kinds, Calls
    <3>2. CASE w' = [w EXCEPT !.pc = "resume", !.sub = "receipts", !.code = main.code]
      BY <1>1, <1>2, <3>2 DEF Instances, Aside, Kinds, Calls
    <3>3. QED
      BY <1>1, <1>2, <2>1, <3>1, <3>2, AsideForms
  <2>3. QED
    BY <1>1, <1>3, <2>2, CallsAside
<1>6. CASE Keep
  <2>1. w.pc \notin Calls /\ ((\E code : Hold(code)) \/ Then("event"))
    BY <1>6 DEF Keep, Kinds, Calls
  <2>2. QED
    BY <1>1, <1>2, <1>3, <1>4, <2>1, AsideForms, CallsAside
<1>7. CASE SyncD1 \/ SyncMain
  <2>1. w.pc \notin Calls /\ ((\E code : Hold(code)) \/ Then("main") \/ Then("again") \/ Begin("upload"))
    BY <1>7 DEF SyncD1, SyncMain, TryD1, TryMain, At, Calls
  <2>2. QED
    BY <1>1, <1>2, <1>3, <1>4, <2>1, AsideForms, CallsAside
<1>8. CASE Verify
  <2>1. (\E code : Hold(code)) \/ Begin("ready")
    BY <1>8 DEF Verify
  <2>2. QED
    BY <1>1, <1>2, <1>3, <1>4, <2>1, AsideForms, CallsAside
<1>9. CASE ReadyD1 \/ ReadyMain
  <2>1. w.pc \notin Calls /\ ((\E code : Hold(code)) \/ Then("main") \/ \E how \in {"done", "errored"} : Stop(how))
    BY <1>9 DEF ReadyD1, ReadyMain, TryD1, At, Calls
  <2>2. QED
    BY <1>1, <1>2, <1>3, <1>4, <2>1, AsideForms, CallsAside
<1>10. CASE HoldD1 \/ HoldMain \/ FailD1 \/ FailMain
  <2>1. w.pc \notin Calls /\ (Then("main") \/ \E how \in {"done", "errored"} : Stop(how))
    BY <1>10 DEF HoldD1, HoldMain, FailD1, FailMain, StopD1, StopMain, TryD1, At, Calls
  <2>2. QED
    BY <1>1, <1>2, <1>3, <1>4, <2>1, AsideForms, CallsAside
<1>11. QED
  BY <1>5, <1>6, <1>7, <1>8, <1>9, <1>10

LEMMA ResumeCalls ==
  ASSUME LedgersInv, CallsMade,
         ResumeReceipts \/ ResumeReconciled \/ ResumeRetrying \/ ResumeResumed \/ ResumeMain \/ EngineRestart \/ Restart
  PROVE  CallsMade'
<1>1. PICK settle : settle = w.settle
  OBVIOUS
<1>2. w \in Instances
  BY DEF LedgersInv, Typed
<1>3. ops' = ops
  BY DEF ResumeReceipts, ResumeReconciled, ResumeRetrying, ResumeResumed, ResumeStep, ResumeMain, EngineRestart, Restart, external
<1>4. {"receipts", "reconciled", "retrying", "resumed", "main"} \subseteq Subs \ {"settle"}
  BY DEF Subs
<1>5. CASE EngineRestart \/ Restart
  <2>1. w' = Instance
    BY <1>5 DEF EngineRestart, Restart
  <2>2. QED
    BY <1>1, <1>2, <1>3, <2>1, AsideForms, CallsAside
<1>6. CASE ResumeReceipts
  <2>1. w.pc \notin Calls /\ ((\E code : Hold(code)) \/ \E sub \in {"receipts", "reconciled"} : Then(sub))
    BY <1>6 DEF ResumeReceipts, TryMain, At, Calls
  <2>2. QED
    BY <1>1, <1>2, <1>3, <1>4, <2>1, AsideForms, CallsAside
<1>7. CASE ResumeReconciled \/ ResumeRetrying \/ ResumeResumed
  <2>1. w.pc \notin Calls /\ ((\E code : Hold(code)) \/ \E sub \in {"retrying", "resumed", "main"} : Then(sub))
    BY <1>7 DEF ResumeReconciled, ResumeRetrying, ResumeResumed, ResumeStep, At, Calls
  <2>2. QED
    BY <1>1, <1>2, <1>3, <1>4, <2>1, AsideForms, CallsAside
<1>8. CASE ResumeMain
  <2>1. (\E code : Hold(code)) \/ \E state, scope, cycle : StartInner(state, scope, cycle)
    BY <1>8 DEF ResumeMain, TryMain
  <2>2. QED
    BY <1>1, <1>2, <1>3, <2>1, AsideForms, CallsAside
<1>9. QED
  BY <1>5, <1>6, <1>7, <1>8

LEMMA ArtifactCalls ==
  ASSUME LedgersInv, CallsMade, Commit \/ Receipt \/ Settle
  PROVE  CallsMade'
<1>1. PICK settle : settle = w.settle
  OBVIOUS
<1>2. w \in Instances /\ w.pc \in Kinds /\ w.pc \notin Calls
  BY DEF LedgersInv, Typed, Commit, Receipt, Settle, Kinds, Calls
<1>3. CASE Commit \/ Receipt
  <2>1. ops' = ops /\ ((\E code : Hold(code)) \/ Then("co") \/ Committed)
    BY <1>3 DEF Commit, Receipt, TryD1, TryMain, external
  <2>2. "co" \in Subs \ {"settle"}
    BY DEF Subs
  <2>3. QED
    BY <1>1, <1>2, <2>1, <2>2, AsideForms, CallsAside, CommittedCalls
<1>4. CASE Settle
  <2>1. DOMAIN ops \subseteq DOMAIN ops'
    BY <1>4 DEF Settle, SetOp
  <2>2. \/ \E code : Hold(code)
        \/ w' = [w EXCEPT !.pc = Following(w.pc), !.sub = FirstSub(Following(w.pc)), !.settle = <<>>]
    BY <1>4 DEF Settle
  <2>3. CASE w' = [w EXCEPT !.pc = Following(w.pc), !.sub = FirstSub(Following(w.pc)), !.settle = <<>>]
    <3>1. PICK next : next = Following(w.pc)
      OBVIOUS
    <3>2. PICK sub : sub = FirstSub(next)
      OBVIOUS
    <3>3. w' = [w EXCEPT !.pc = next, !.sub = sub, !.settle = <<>>] /\ next \in Stages \ {"find", "write"}
      BY <1>2, <2>3, <3>1, <3>2, FollowingAsks
    <3>4. sub # "settle" /\ (next \in Calls => sub = "ask")
      BY <3>2 DEF FirstSub
    <3>5. Aside(w', settle)
      BY <1>2, <3>3, <3>4 DEF Instances, Aside
    <3>6. QED
      BY <1>1, <2>1, <3>5, CallsAside
  <2>4. QED
    BY <1>1, <1>2, <2>1, <2>2, <2>3, AsideForms, CallsAside
<1>5. QED
  BY <1>3, <1>4

\* A call whose answer never comes.
LEMMA NotKnownCalls ==
  ASSUME w \in Instances, CallsMade, NEW k, k \in DOMAIN ops, DOMAIN ops \subseteq DOMAIN ops', NotKnown(k)
  PROVE  CallsMade'
<1>1. PICK settle : settle = w.settle
  OBVIOUS
<1>2. CASE \E code : Hold(code)
  BY <1>1, <1>2, AsideForms, CallsAside
<1>3. CASE w' = [w EXCEPT !.pc = "findNow", !.sub = "ask", !.settle = k]
  <2>1. w'.pc = "findNow" /\ w'.sub = "ask" /\ w'.settle = k /\ w'.pc \notin Kinds
    BY <1>3 DEF Instances, Kinds
  <2>2. QED
    BY <2>1 DEF CallsMade, Walking
<1>4. QED
  BY <1>2, <1>3 DEF NotKnown

LEMMA AnsweredCalls ==
  ASSUME w \in Instances, CallsMade, w.run = "live", w.pc \in Calls, NEW k, k \in DOMAIN ops, DOMAIN ops \subseteq DOMAIN ops',
         OpenWrites # {} /\ w.pc \in {"map", "find"} => OpenWrites' # {}, Answered(k)
  PROVE  CallsMade'
<1>1. PICK settle : settle = w.settle
  OBVIOUS
<1>2. "image" \notin Calls /\ "receipt" \notin Calls /\ "readback" \notin Calls
      /\ "find" \notin Kinds /\ "write" \notin Kinds
  BY DEF Calls, Kinds
<1>3. settle = <<>> \/ settle \in DOMAIN ops
  BY <1>1 DEF CallsMade
<1>4. CASE w.pc \in {"upload", "write", "read"}
  <2>1. w'.settle = k /\ w'.sub = "keep" /\ w'.pc \in {"image", "receipt", "readback"}
    <3>1. w.pc = "upload" => Following(w.pc) = "image"
      BY DEF Following
    <3>2. w.pc = "write" => Following(w.pc) = "receipt"
      BY DEF Following
    <3>3. QED
      BY <1>4, <3>1, <3>2 DEF Answered, Instances
  <2>2. QED
    BY <1>2, <2>1 DEF CallsMade, Walking
<1>5. CASE w.pc = "findNow"
  <2>1. w' = [w EXCEPT !.pc = "receipt", !.sub = "keep"]
    BY <1>5 DEF Answered
  <2>2. w'.settle = settle /\ w'.sub = "keep" /\ w'.pc = "receipt"
    BY <1>1, <2>1 DEF Instances
  <2>3. QED
    BY <1>2, <1>3, <2>2 DEF CallsMade, Walking
<1>6. CASE w.pc = "find"
  <2>1. OpenWrites # {}
    BY <1>6 DEF CallsMade, Walking
  <2>2. PICK open : open = TheOne(OpenWrites)
    OBVIOUS
  <2>3. open \in DOMAIN ops
    BY <2>1, <2>2, OneOf DEF OpenWrites, Open
  <2>4. PICK value : value = Op(k).value
    OBVIOUS
  <2>5. w' = [w EXCEPT !.pc = "receipt", !.sub = "keep", !.mutation = "found", !.draft = value, !.settle = open]
    BY <1>6, <2>2, <2>4 DEF Answered
  <2>6. w'.settle = open /\ w'.sub = "keep" /\ w'.pc = "receipt"
    BY <2>5 DEF Instances
  <2>7. QED
    BY <1>2, <2>3, <2>6 DEF CallsMade, Walking
<1>7. CASE w.pc = "map"
  <2>1. PICK value : value = Op(k).value
    OBVIOUS
  <2>2. \/ w' = [w EXCEPT !.pc = "receipt", !.sub = "keep", !.mutation = "noop", !.draft = value]
        \/ OpenWrites # {} /\ w' = [w EXCEPT !.pc = "find", !.sub = "ask"]
        \/ w' = [w EXCEPT !.pc = "write", !.sub = "ask", !.mutation = IF value = "none" THEN "add" ELSE "update"]
    BY <1>7, <2>1 DEF Answered, Begin, Goto, FirstSub, Calls
  <2>3. CASE w' = [w EXCEPT !.pc = "receipt", !.sub = "keep", !.mutation = "noop", !.draft = value]
    <3>1. w'.settle = settle /\ w'.sub = "keep" /\ w'.pc = "receipt"
      BY <1>1, <2>3 DEF Instances
    <3>2. QED
      BY <1>2, <1>3, <3>1 DEF CallsMade, Walking
  <2>4. CASE OpenWrites # {} /\ w' = [w EXCEPT !.pc = "find", !.sub = "ask"]
    <3>1. w'.settle = settle /\ w'.sub = "ask" /\ w'.pc = "find" /\ OpenWrites' # {}
      BY <1>1, <1>7, <2>4 DEF Instances
    <3>2. QED
      BY <1>2, <1>3, <3>1 DEF CallsMade, Walking
  <2>5. CASE w' = [w EXCEPT !.pc = "write", !.sub = "ask", !.mutation = IF value = "none" THEN "add" ELSE "update"]
    <3>1. w'.settle = settle /\ w'.sub = "ask" /\ w'.pc = "write" /\ w'.mutation \in {"add", "update"}
      BY <1>1, <2>5 DEF Instances
    <3>2. QED
      BY <1>2, <1>3, <3>1 DEF CallsMade, Walking
  <2>6. QED
    BY <2>2, <2>3, <2>4, <2>5
<1>8. QED
  BY <1>4, <1>5, <1>6, <1>7 DEF Calls

LEMMA CallCalls ==
  ASSUME LedgersInv, CallsMade, Ask \/ Send \/ AnswerCall
  PROVE  CallsMade'
<1>1. PICK settle : settle = w.settle
  OBVIOUS
<1>2. PICK k : k = OpOf(w.pc)
  OBVIOUS
<1>3. /\ w.run = "live" /\ w.pc \in Calls /\ main' = main /\ w \in Instances
      /\ w.pc \in {"map", "find"} => k[1] \notin {"add", "update"}
  BY <1>2 DEF Ask, Send, AnswerCall, At, LedgersInv, Typed, OpOf
<1>4. w.sub \in {"send", "query", "wait"} => k \in DOMAIN ops
  BY <1>2, <1>3 DEF CallsMade, Walking
<1>5. w.pc = "find" => OpenWrites # {}
  BY <1>3 DEF CallsMade, Walking
<1>6. \E op : ops' = ops \/ SetOp(k, op)
  <2>1. CASE Ask
    BY <1>2, <2>1 DEF Ask
  <2>2. CASE Send
    BY <1>2, <2>2 DEF Send, Claim
  <2>3. CASE AnswerCall
    BY <1>2, <2>3 DEF AnswerCall, Record
  <2>4. QED
    BY <2>1, <2>2, <2>3
<1>7. /\ DOMAIN ops \subseteq DOMAIN ops'
      /\ OpenWrites # {} /\ w.pc \in {"map", "find"} => OpenWrites' # {}
  <2>1. DOMAIN ops \subseteq DOMAIN ops'
    BY <1>6 DEF SetOp
  <2>2. QED
    BY <1>3, <1>6, <2>1, OtherWritesOpen
<1>8. CASE Ask
  <2>1. \/ Fail \/ \E code : Hold(code)
        \/ /\ k \in DOMAIN ops'
           /\ \E n : \E sub \in {"send", "query"} : w' = [w EXCEPT !.sub = sub, !.try = n]
    <3>1. PICK op : op = Op(k)
      OBVIOUS
    <3>2. LastOf(op.tries) \in {"open", "ok"} => k \in DOMAIN ops
      BY <3>1 DEF Op, NoOp, LastOf
    <3>3. \/ Fail \/ \E code : Hold(code)
          \/ /\ LastOf(op.tries) \in {"open", "ok"}
             /\ \E n : \E sub \in {"send", "query"} : w' = [w EXCEPT !.sub = sub, !.try = n]
          \/ /\ SetOp(k, [op EXCEPT !.tries = Append(@, "open"), !.there = Append(@, "none")])
             /\ \E n : \E sub \in {"send", "query"} : w' = [w EXCEPT !.sub = sub, !.try = n]
      BY <1>2, <1>8, <3>1 DEF Ask
    <3>4. QED
      BY <1>7, <3>2, <3>3 DEF SetOp
  <2>2. CASE Fail \/ \E code : Hold(code)
    BY <1>1, <1>3, <1>7, <2>2, AsideForms, CallsAside
  <2>3. CASE /\ k \in DOMAIN ops'
             /\ \E n : \E sub \in {"send", "query"} : w' = [w EXCEPT !.sub = sub, !.try = n]
    BY <1>2, <1>3, <1>5, <1>7, <2>3, CallGoesOn
  <2>4. QED
    BY <2>1, <2>2, <2>3
<1>9. CASE Send \/ AnswerCall
  <2>1. k \in DOMAIN ops
    BY <1>4, <1>9 DEF Send, AnswerCall, At
  <2>2. NotKnown(k) \/ Then("wait") \/ Then("ask") \/ Fail \/ (\E code : Hold(code)) \/ Answered(k)
    BY <1>2, <1>9 DEF Send, AnswerCall, Record, Rejected
  <2>3. CASE \E sub \in {"wait", "ask"} : Then(sub)
    <3>1. PICK sub \in {"wait", "ask"} : Then(sub)
      BY <2>3
    <3>2. PICK n : n = w.try
      OBVIOUS
    <3>3. w' = [w EXCEPT !.sub = sub, !.try = n]
      BY <1>3, <3>1, <3>2 DEF Then, Goto, Instances
    <3>4. QED
      BY <1>2, <1>3, <1>5, <1>7, <2>1, <3>3, CallGoesOn
  <2>4. CASE Fail \/ \E code : Hold(code)
    BY <1>1, <1>3, <1>7, <2>4, AsideForms, CallsAside
  <2>5. QED
    BY <1>3, <1>7, <2>1, <2>2, <2>3, <2>4, NotKnownCalls, AnsweredCalls
<1>10. QED
  BY <1>8, <1>9

LEMMA WaitingCalls ==
  ASSUME LedgersInv, CallsMade, Provider \/ App \/ EditDraft \/ UNCHANGED draftVars
  PROVE  CallsMade'
<1>1. w' = w /\ main' = main
  BY DEF Provider, App, EditDraft, draftVars
<1>2. \/ ops' = ops
      \/ \E op : \E k \in DOMAIN ops : SetOp(k, op) /\ op.tries = ops[k].tries
  <2>1. CASE Provider
    <3>1. \E n, r : \E k \in DOMAIN ops : Claim(k, n, r) \/ SetOp(k, [ops[k] EXCEPT !.there[n] = "ok", !.value = Found(k)])
      BY <2>1 DEF Provider
    <3>2. PICK n, r : \E k \in DOMAIN ops : Claim(k, n, r) \/ SetOp(k, [ops[k] EXCEPT !.there[n] = "ok", !.value = Found(k)])
      BY <3>1
    <3>6. PICK k \in DOMAIN ops : Claim(k, n, r) \/ SetOp(k, [ops[k] EXCEPT !.there[n] = "ok", !.value = Found(k)])
      BY <3>2
    <3>3. ops[k] \in OpRecords /\ Op(k) = ops[k]
      BY DEF LedgersInv, Typed, OpsTyped, Op
    <3>4. /\ [ops[k] EXCEPT !.there[n] = r].tries = ops[k].tries
          /\ [ops[k] EXCEPT !.there[n] = "ok", !.value = Found(k)].tries = ops[k].tries
      BY <3>3 DEF OpRecords
    <3>5. QED
      BY <3>3, <3>4, <3>6 DEF Claim
  <2>2. CASE App \/ EditDraft \/ UNCHANGED draftVars
    BY <2>2 DEF App, EditDraft, draftVars, external
  <2>3. QED
    BY <2>1, <2>2
<1>3. DOMAIN ops \subseteq DOMAIN ops' /\ \A k \in DOMAIN ops : ops'[k].tries = ops[k].tries
  BY <1>2 DEF SetOp
<1>4. OpenWrites # {} => OpenWrites' # {}
  BY <1>3 DEF OpenWrites, Open
<1>5. OpOf(w.pc)' = OpOf(w.pc)
  BY <1>1 DEF OpOf
<1>6. QED
  BY <1>1, <1>3, <1>4, <1>5 DEF CallsMade, Walking

LEMMA CallsMadeKept ==
  ASSUME LedgersInv, CallsMade, [DraftNext]_draftVars
  PROVE  CallsMade'
BY StagesCalls, ResumeCalls, ArtifactCalls, CallCalls, WaitingCalls DEF DraftNext, Step

LEMMA CallsBegin ==
  ASSUME DraftInit
  PROVE  CallsMade
BY DEF DraftInit, CallsMade, Instance, Walking, Kinds, Calls

\* The ledgers are in order in every state the phase can be in.
THEOREM LedgersInvariance ==
  DraftSpec => [](LedgersInv /\ CallsMade)
<1>1. DraftInit => LedgersInv /\ CallsMade
  BY LedgersBegin, CallsBegin
<1>2. LedgersInv /\ CallsMade /\ [DraftNext]_draftVars => (LedgersInv /\ CallsMade)'
  BY LedgersKept, CallsMadeKept
<1>3. QED
  BY <1>1, <1>2, PTL DEF DraftSpec

\* D1 and the Coordinator keep the same artifacts, the receipt being written last:
\* persistWechatArtifact, whatever was lost and wherever the Workflow began anew.
THEOREM LedgersStayInStep ==
  DraftSpec => []LedgersInStep
<1>1. LedgersInv => LedgersInStep
  <2> SUFFICES ASSUME LedgersInv PROVE LedgersInStep
    OBVIOUS
  <2>2. DraftTypeOK
    <3>1. Targets \subseteq PUBLICATION_STATES /\ Moving \cup {"needs_action", "failed"} \subseteq PUBLICATION_STATES \ {"retrying", "cancelled"}
      BY Vocabulary DEF Targets, Moving, ExceptionalStates, PUBLICATION_STATES, SUCCESSFUL_STATES
    <3>2. d1.state \in Targets /\ d1.last \in Moving /\ main.state \in Moving \cup {"needs_action", "failed"}
      BY DEF LedgersInv, Typed, Rows, RowsOK, D1Row
    <3>3. d1.last \in WECHAT_RESUMABLE_STATES \cup {"draft_ready"}
      BY <3>2 DEF Moving
    <3>4. /\ wechat.drafts \in Nat /\ w.run \in {"live", "done", "errored"}
          /\ \A k \in DOMAIN ops : Len(ops[k].tries) = Len(ops[k].there) /\ Len(ops[k].tries) \in 1..3
      BY DEF LedgersInv, Typed, OpsTyped, Instances
    <3>5. /\ Kept \subseteq Kinds \X (0..MaxHolds) /\ recording \in BOOLEAN /\ late \in Nat /\ faults \in 0..MaxFaults
      BY DEF LedgersInv, Typed
    <3>6. QED
      BY <3>1, <3>2, <3>3, <3>4, <3>5 DEF DraftTypeOK
  <2>3. OneReceiptBehind
    <3>1. \A a \in Kept : a[1] \in Kinds /\ a[2] \in Nat /\ a = <<a[1], a[2]>>
      <4>1. Kept \subseteq Kinds \X (0..MaxHolds)
        BY DEF LedgersInv, Typed
      <4>2. QED
        BY <4>1, WechatDraftOK
    <3>5. /\ \A kind \in Kinds, s \in Nat : Receipted(kind, s) => Projected(kind, s)
          /\ \A kind, earlier \in Kinds, s \in Nat : Projected(kind, s) /\ Turn(earlier) < Turn(kind) => Receipted(earlier, s)
      BY DEF LedgersInv, ArtifactsInTurn
    <3>2. \A a \in Kept : Receipted(a[1], a[2]) => Projected(a[1], a[2])
      BY <3>1, <3>5
    <3>3. ASSUME NEW a \in Kept, NEW b \in Kept, Projected(a[1], a[2]), ~ Receipted(a[1], a[2]),
                 Projected(b[1], b[2]), ~ Receipted(b[1], b[2]), a[2] = b[2]
          PROVE  a = b
      <4>1. Turn(a[1]) \in 1..7 /\ Turn(b[1]) \in 1..7
        BY <3>1, Turns
      <4>2. ~ (Turn(a[1]) < Turn(b[1])) /\ ~ (Turn(b[1]) < Turn(a[1]))
        BY <3>1, <3>3, <3>5
      <4>3. Turn(a[1]) = Turn(b[1])
        BY <4>1, <4>2
      <4>4. a[1] = b[1]
        BY <3>1, <4>3, Turns
      <4>5. QED
        BY <3>1, <3>3, <4>4
    <3>4. QED
      BY <3>2, <3>3 DEF OneReceiptBehind
  <2>4. QED
    BY <2>2, <2>3 DEF LedgersInStep
<1>2. QED
  BY <1>1, LedgersInvariance, PTL

-----------------------------------------------------------------------------
(* What a step may write in the two ledgers.                               *)

LEMMA Scoped ==
  ASSUME LedgersInv
  PROVE  /\ w \in Instances /\ w.scope \in Nat /\ w.code \in HoldCodes /\ d1 \in Rows /\ main \in Rows /\ Holds \in Nat
         /\ d1.last \in Moving /\ d1.last \in Targets /\ HoldsOK /\ ArtifactsInTurn
         /\ w.run = "live" /\ w.pc \in Kinds \cup Calls \cup {"sync", "verify"} => Walking
         /\ w.run = "live" /\ w.pc = "resume" => Resuming
BY HoldsCounted DEF LedgersInv, Typed, Instances, RowsOK, D1Row, Walking, Resuming, Targets

LEMMA ArtifactD1Step ==
  ASSUME LedgersInv, Commit
  PROVE  D1Step
<1>1. CASE d1' = d1
  BY <1>1 DEF D1Step
<1>2. CASE d1' # d1
  <2>1. PICK o \in Outcomes : WriteD1(artifactState(w.pc, w.scope), Artifact(w.pc, w.scope), "none", TRUE, o)
    BY <1>2 DEF Commit, TryD1
  <2>2. /\ D1Allows(artifactState(w.pc, w.scope), TRUE)
        /\ d1' = WithEvent(d1, artifactState(w.pc, w.scope), Artifact(w.pc, w.scope), "none")
    BY <1>2, <2>1 DEF WriteD1
  <2>3. w.pc \in Kinds /\ w.run = "live" /\ w.sub = "event" /\ ~ Projected(w.pc, w.scope) /\ ~ Receipted(w.pc, w.scope)
    BY <1>2 DEF Commit, At, Projected, Receipted
  <2>4. artifactState(w.pc, w.scope) \in Targets /\ Artifact(w.pc, w.scope) \in LogKeys /\ "none" \in HoldCodes /\ Walking
    BY <2>3, Scoped, TargetIsCheckpoint, KeysAreKeys DEF Targets, Moving, HoldCodes
  <2>5. ArtifactEvent(artifactState(w.pc, w.scope), Artifact(w.pc, w.scope))
    BY <2>3, <2>4 DEF ArtifactEvent
  <2>6. QED
    BY <2>2, <2>4, <2>5 DEF D1Step, D1Event
<1>3. QED
  BY <1>1, <1>2

LEMMA SyncD1Step ==
  ASSUME LedgersInv, SyncD1
  PROVE  D1Step
<1>1. CASE d1' = d1
  BY <1>1 DEF D1Step
<1>2. CASE d1' # d1
  <2>1. PICK o \in Outcomes : WriteD1("draft_syncing", <<"sync", "none", w.scope>>, "none", TRUE, o)
    BY <1>2 DEF SyncD1, TryD1
  <2>2. D1Allows("draft_syncing", TRUE) /\ d1' = WithEvent(d1, "draft_syncing", <<"sync", "none", w.scope>>, "none")
    BY <1>2, <2>1 DEF WriteD1
  <2>3. w.pc = "sync" /\ w.run = "live" /\ w.sub = "d1"
    BY <1>2 DEF SyncD1, At
  <2>4. "draft_syncing" \in Targets /\ <<"sync", "none", w.scope>> \in LogKeys /\ "none" \in HoldCodes /\ Walking
    BY <2>3, Scoped, Vocabulary, KeysAreKeys DEF Targets, Moving, HoldCodes
  <2>5. SyncEvent("draft_syncing", <<"sync", "none", w.scope>>)
    BY <2>3, <2>4 DEF SyncEvent
  <2>6. QED
    BY <2>2, <2>4, <2>5 DEF D1Step, D1Event
<1>3. QED
  BY <1>1, <1>2

LEMMA ReadyD1Step ==
  ASSUME LedgersInv, ReadyD1
  PROVE  D1Step
<1>1. CASE d1' = d1
  BY <1>1 DEF D1Step
<1>2. CASE d1' # d1
  <2>1. PICK o \in Outcomes : WriteD1("draft_ready", <<"ready", "none", w.scope>>, "none", FALSE, o)
    BY <1>2 DEF ReadyD1, TryD1
  <2>2. D1Allows("draft_ready", FALSE) /\ d1' = WithEvent(d1, "draft_ready", <<"ready", "none", w.scope>>, "none")
    BY <1>2, <2>1 DEF WriteD1
  <2>3. w.pc = "ready" /\ w.run = "live" /\ w.sub = "d1" /\ recording' = (d1'.state = "draft_ready")
    BY <1>2 DEF ReadyD1, At
  <2>4. "draft_ready" \in Targets /\ <<"ready", "none", w.scope>> \in LogKeys /\ "none" \in HoldCodes /\ Walking
    BY <2>3, Scoped, KeysAreKeys DEF Targets, Moving, HoldCodes, Walking
  <2>5. d1.state = "draft_verifying"
    <3>1. d1.state \in Targets /\ D1Row(d1)
      BY DEF LedgersInv, Typed, Rows, RowsOK
    <3>2. d1.state # "retrying"
      BY <2>2, <3>1 DEF D1Allows, D1Row
    <3>3. QED
      BY <2>2, <3>1, <3>2, Successors DEF D1Allows
  <2>6. d1'.state = "draft_ready"
    BY <2>2 DEF WithEvent
  <2>7. ReadyEvent("draft_ready", <<"ready", "none", w.scope>>)
    BY <2>3, <2>4, <2>5, <2>6 DEF ReadyEvent
  <2>8. D1Allows("draft_ready", TRUE)
    BY <2>2 DEF D1Allows
  <2>9. QED
    BY <2>2, <2>4, <2>7, <2>8 DEF D1Step, D1Event
<1>3. QED
  BY <1>1, <1>2

LEMMA StopD1Step ==
  ASSUME LedgersInv, HoldD1 \/ FailD1
  PROVE  D1Step
<1>1. CASE d1' = d1
  BY <1>1 DEF D1Step
<1>2. CASE d1' # d1 /\ HoldD1
  <2> DEFINE key == <<"hold", w.code, Holds + 1>>
  <2>1. PICK o \in Outcomes : WriteD1("needs_action", key, w.code, FALSE, o)
    BY <1>2 DEF HoldD1, StopD1, TryD1
  <2>2. D1Allows("needs_action", FALSE) /\ d1' = WithEvent(d1, "needs_action", key, w.code)
    BY <1>2, <2>1 DEF WriteD1
  <2>3. w.pc = "hold" /\ w.run = "live" /\ w.sub = "d1"
    BY <1>2 DEF HoldD1, StopD1, At
  <2>4. "needs_action" \in Targets /\ key \in LogKeys /\ w.code \in HoldCodes
    <3>1. Holds + 1 \in Nat /\ w.code \in HoldCodes
      BY Scoped
    <3>2. QED
      BY <3>1, KeysAreKeys DEF Targets, ExceptionalStates
  <2>5. HoldEvent("needs_action", key)
    BY <2>3 DEF HoldEvent
  <2>6. D1Allows("needs_action", TRUE)
    BY <2>2 DEF D1Allows
  <2>7. QED
    BY <2>2, <2>4, <2>5, <2>6 DEF D1Step, D1Event
<1>3. CASE d1' # d1 /\ FailD1
  <2> DEFINE key == <<"failed", "none", 0>>
  <2>1. PICK o \in Outcomes : WriteD1("failed", key, w.code, FALSE, o)
    BY <1>3 DEF FailD1, StopD1, TryD1
  <2>2. D1Allows("failed", FALSE) /\ d1' = WithEvent(d1, "failed", key, w.code)
    BY <1>3, <2>1 DEF WriteD1
  <2>3. w.pc = "fail" /\ w.run = "live" /\ w.sub = "d1"
    BY <1>3 DEF FailD1, StopD1, At
  <2>4. "failed" \in Targets /\ key \in LogKeys /\ w.code \in HoldCodes
    BY Scoped, KeysAreKeys DEF Targets, ExceptionalStates
  <2>5. FailEvent("failed", key)
    BY <2>3 DEF FailEvent
  <2>6. D1Allows("failed", TRUE)
    BY <2>2 DEF D1Allows
  <2>7. QED
    BY <2>2, <2>4, <2>5, <2>6 DEF D1Step, D1Event
<1>4. QED
  BY <1>1, <1>2, <1>3

LEMMA ResumeD1Step ==
  ASSUME LedgersInv, ResumeReconciled \/ ResumeRetrying \/ ResumeResumed
  PROVE  D1Step
<1>1. CASE d1' = d1
  BY <1>1 DEF D1Step
<1>2. CASE d1' # d1
  <2>1. PICK sub \in {"reconciled", "retrying", "resumed"}, target \in {"needs_action", "retrying", d1.last}, code \in HoldCodes, same \in BOOLEAN :
          /\ w.run = "live" /\ w.pc = "resume" /\ w.sub = sub /\ HoldsWith(w.code) # {}
          /\ \E o \in Outcomes : WriteD1(target, <<sub, d1.last, cycleOf(w.code)>>, code, same, o)
          /\ \/ sub \in {"reconciled", "retrying"} /\ target \in {"needs_action", "retrying"}
             \/ sub = "resumed" /\ target = d1.last /\ d1.state = "retrying"
    <3>1. CASE ResumeReconciled
      <4>1. PICK same \in BOOLEAN : same = ("needs_action" = d1.state)
        OBVIOUS
      <4>2. /\ w.run = "live" /\ w.pc = "resume" /\ w.sub = "reconciled" /\ HoldsWith(w.code) # {}
            /\ \E o \in Outcomes : WriteD1("needs_action", <<"reconciled", d1.last, cycleOf(w.code)>>, Reconciled, same, o)
        BY <1>2, <3>1, <4>1 DEF ResumeReconciled, ResumeStep, At
      <4>3. Reconciled \in HoldCodes
        BY DEF HoldCodes
      <4>4. QED
        BY <4>2, <4>3
    <3>2. CASE ResumeRetrying
      <4>1. PICK same \in BOOLEAN : same = ("retrying" = d1.state)
        OBVIOUS
      <4>2. /\ w.run = "live" /\ w.pc = "resume" /\ w.sub = "retrying" /\ HoldsWith(w.code) # {}
            /\ \E o \in Outcomes : WriteD1("retrying", <<"retrying", d1.last, cycleOf(w.code)>>, "none", same, o)
        BY <1>2, <3>2, <4>1 DEF ResumeRetrying, ResumeStep, At
      <4>3. "none" \in HoldCodes
        BY DEF HoldCodes
      <4>4. QED
        BY <4>2, <4>3
    <3>3. CASE ResumeResumed
      <4>1. PICK same \in BOOLEAN : same = (d1.last = d1.state)
        OBVIOUS
      <4>2. /\ w.run = "live" /\ w.pc = "resume" /\ w.sub = "resumed" /\ HoldsWith(w.code) # {} /\ d1.state = "retrying"
            /\ \E o \in Outcomes : WriteD1(d1.last, <<"resumed", d1.last, cycleOf(w.code)>>, "none", same, o)
        BY <1>2, <3>3, <4>1 DEF ResumeResumed, ResumeStep, At
      <4>3. "none" \in HoldCodes
        BY DEF HoldCodes
      <4>4. QED
        BY <4>2, <4>3
    <3>4. QED
      BY <3>1, <3>2, <3>3
  <2> DEFINE key == <<sub, d1.last, cycleOf(w.code)>>
  <2>2. D1Allows(target, TRUE) /\ d1' = WithEvent(d1, target, key, code)
    BY <1>2, <2>1 DEF WriteD1, D1Allows
  <2>3. Resuming /\ key[1] = sub
    BY <2>1 DEF Resuming
  <2>4. target \in Targets /\ key \in LogKeys
    <3>1. cycleOf(w.code) \in Nat
      BY <2>1, Scoped, CycleIsLatest
    <3>2. QED
      BY <3>1, Scoped, KeysAreKeys DEF Targets, ExceptionalStates
  <2>5. RecoveryEvent(target, key)
    BY <2>1, <2>3 DEF RecoveryEvent
  <2>6. QED
    BY <2>2, <2>4, <2>5 DEF D1Step, D1Event
<1>3. QED
  BY <1>1, <1>2

LEMMA AppD1Step ==
  ASSUME LedgersInv, App
  PROVE  D1Step
<1>1. PICK target \in {"cancelled", "retrying", d1.last}, what \in {"cancel", "retry", "resume"} :
           /\ D1Allows(target, FALSE) /\ target \in Targets
           /\ d1' = WithEvent(d1, target, <<"app", what, Len(d1.log)>>, "none")
           /\ d1.state \notin TERMINAL_STATES \/ d1.state = "failed"
           /\ UNCHANGED <<main, w>>
  BY AppWrites
<1> DEFINE key == <<"app", what, Len(d1.log)>>
<1>2. key \in LogKeys /\ "none" \in HoldCodes /\ key[1] = "app"
  <2>1. Len(d1.log) \in Nat
    BY Scoped DEF Rows
  <2>2. QED
    BY <2>1, KeysAreKeys DEF HoldCodes
<1>3. D1Allows(target, TRUE) /\ d1.state # "draft_ready"
  BY <1>1 DEF D1Allows, TERMINAL_STATES
<1>4. AppEvent(target, key)
  BY <1>1, <1>2, <1>3 DEF AppEvent
<1>5. QED
  BY <1>1, <1>2, <1>3, <1>4 DEF D1Step, D1Event

\* Every step is a step of D1.
LEMMA D1Steps ==
  ASSUME LedgersInv, [DraftNext]_draftVars
  PROVE  D1Step
<1>1. CASE Commit \/ SyncD1 \/ ReadyD1 \/ HoldD1 \/ FailD1 \/ ResumeReconciled \/ ResumeRetrying \/ ResumeResumed \/ App
  BY <1>1, ArtifactD1Step, SyncD1Step, ReadyD1Step, StopD1Step, ResumeD1Step, AppD1Step
<1>2. CASE \/ Enter \/ Keep \/ Receipt \/ Settle \/ SyncMain \/ Ask \/ Send \/ AnswerCall \/ Verify \/ ReadyMain \/ HoldMain
           \/ FailMain \/ ResumeReceipts \/ ResumeMain \/ Provider \/ EngineRestart \/ Restart \/ EditDraft \/ UNCHANGED draftVars
  BY <1>2 DEF D1Step, Enter, Keep, Receipt, Settle, SyncMain, Ask, Send, AnswerCall, Verify, ReadyMain, HoldMain, FailMain, StopMain,
              ResumeReceipts, ResumeMain, Provider, EngineRestart, Restart, EditDraft, draftVars
<1>3. QED
  BY <1>1, <1>2 DEF DraftNext, Step

LEMMA MainWritten ==
  ASSUME NEW target \in Targets, NEW key \in LogKeys, NEW code \in HoldCodes, d1' = d1,
         (\E o \in Outcomes : WriteMain(target, key, code, o)) \/ main' = main, MainEvent(target, key, code)
  PROVE  MainStep
BY DEF WriteMain, MainStep

LEMMA ReceiptMainStep ==
  ASSUME LedgersInv, Commit \/ Receipt
  PROVE  MainStep
<1>1. CASE main' = main
  BY <1>1 DEF MainStep
<1>2. CASE main' # main
  <2> DEFINE target == artifactState(w.pc, w.scope)
             key == Artifact(w.pc, w.scope)
  <2>1. w.pc \in Kinds /\ w.run = "live" /\ d1' = d1 /\ \E o \in Outcomes : WriteMain(target, key, "none", o)
    BY <1>2 DEF Commit, Receipt, TryMain, At
  <2>2. target \in Targets /\ target \in WECHAT_RESUMABLE_STATES /\ key \in LogKeys /\ "none" \in HoldCodes /\ Walking
    BY <2>1, Scoped, TargetIsCheckpoint, KeysAreKeys DEF Targets, Moving, HoldCodes
  <2>3. MainEvent(target, key, "none")
    BY <2>1, <2>2 DEF MainEvent
  <2>4. QED
    BY <2>1, <2>2, <2>3, MainWritten
<1>3. QED
  BY <1>1, <1>2

LEMMA SyncMainStep ==
  ASSUME LedgersInv, SyncMain
  PROVE  MainStep
<1>1. CASE main' = main
  BY <1>1 DEF MainStep
<1>2. CASE main' # main
  <2> DEFINE key == <<"sync", "none", w.scope>>
  <2>1. w.pc = "sync" /\ w.run = "live" /\ w.sub # "d1" /\ d1' = d1 /\ \E o \in Outcomes : WriteMain("draft_syncing", key, "none", o)
    BY <1>2 DEF SyncMain, TryMain, At
  <2>2. "draft_syncing" \in Targets /\ "draft_syncing" \in WECHAT_RESUMABLE_STATES /\ key \in LogKeys /\ "none" \in HoldCodes /\ Walking
    BY <2>1, Scoped, Vocabulary, KeysAreKeys DEF Targets, Moving, HoldCodes
  <2>3. MainEvent("draft_syncing", key, "none")
    BY <2>1, <2>2 DEF MainEvent
  <2>4. QED
    BY <2>1, <2>2, <2>3, MainWritten
<1>3. QED
  BY <1>1, <1>2

LEMMA EndMainStep ==
  ASSUME LedgersInv, ReadyMain \/ HoldMain \/ FailMain
  PROVE  MainStep
<1>1. CASE main' = main
  BY <1>1 DEF MainStep
<1>2. CASE main' # main /\ ReadyMain
  <2> DEFINE key == <<"ready", "none", w.scope>>
  <2>1. /\ w.pc = "ready" /\ w.run = "live" /\ w.sub = "main" /\ d1' = d1
        /\ \E o \in Outcomes : WriteMain("draft_ready", key, "none", o)
        /\ \E how \in {"done", "errored"} : Stop(how)
    BY <1>2 DEF ReadyMain, At
  <2>2. "draft_ready" \in Targets /\ key \in LogKeys /\ "none" \in HoldCodes /\ w'.run # "live"
    BY <2>1, Scoped, KeysAreKeys DEF Targets, Moving, HoldCodes, Stop, Instances
  <2>3. MainEvent("draft_ready", key, "none")
    BY <2>1, <2>2 DEF MainEvent
  <2>4. QED
    BY <2>1, <2>2, <2>3, MainWritten
<1>3. CASE main' # main /\ (HoldMain \/ FailMain)
  <2>1. PICK what \in {<<"hold", "needs_action">>, <<"fail", "failed">>} :
          /\ w.pc = what[1] /\ w.run = "live" /\ w.sub = "main" /\ d1' = d1
          /\ \E o \in Outcomes : WriteMain(what[2], <<what[1], w.code, Holds>>, w.code, o)
          /\ \E how \in {"done", "errored"} : Stop(how)
    BY <1>3 DEF HoldMain, FailMain, StopMain, At
  <2>2. what[2] \in Targets /\ <<what[1], w.code, Holds>> \in LogKeys /\ w.code \in HoldCodes /\ w'.run # "live"
    <3>1. what[2] \in Targets
      BY <2>1 DEF Targets, ExceptionalStates
    <3>2. <<what[1], w.code, Holds>> \in LogKeys /\ w.code \in HoldCodes
      <4>1. Holds \in Nat /\ w.code \in HoldCodes
        BY Scoped
      <4>2. <<"hold", w.code, Holds>> \in LogKeys /\ <<"fail", w.code, Holds>> \in LogKeys
        BY <4>1, KeysAreKeys
      <4>3. what[1] = "hold" \/ what[1] = "fail"
        BY <2>1
      <4>4. QED
        BY <4>1, <4>2, <4>3
    <3>3. w'.run # "live"
      BY <2>1, Scoped DEF Stop, Instances
    <3>4. QED
      BY <3>1, <3>2, <3>3
  <2>3. MainEvent(what[2], <<what[1], w.code, Holds>>, w.code)
    BY <2>1, <2>2 DEF MainEvent
  <2>4. QED
    BY <2>1, <2>2, <2>3, MainWritten
<1>4. QED
  BY <1>1, <1>2, <1>3

LEMMA ResumeMainStep ==
  ASSUME LedgersInv, ResumeReceipts \/ ResumeMain
  PROVE  MainStep
<1>1. CASE main' = main
  BY <1>1 DEF MainStep
<1>2. CASE main' # main /\ ResumeReceipts
  <2>1. w.run = "live" /\ w.pc = "resume" /\ d1' = d1
    BY <1>2 DEF ResumeReceipts, At
  <2>2. PICK a \in Kept : \E o \in Outcomes : WriteMain(artifactState(a[1], a[2]), Artifact(a[1], a[2]), "none", o)
    BY <1>2 DEF ResumeReceipts, TryMain, Pending
  <2>3. a[1] \in Kinds /\ a[2] \in Nat
    BY WechatDraftOK DEF LedgersInv, Typed
  <2>4. /\ artifactState(a[1], a[2]) \in Targets /\ artifactState(a[1], a[2]) \in WECHAT_RESUMABLE_STATES
        /\ Artifact(a[1], a[2]) \in LogKeys /\ "none" \in HoldCodes /\ Resuming
    BY <2>1, <2>3, Scoped, TargetIsCheckpoint, KeysAreKeys DEF Targets, Moving, HoldCodes
  <2>5. MainEvent(artifactState(a[1], a[2]), Artifact(a[1], a[2]), "none")
    BY <2>4 DEF MainEvent
  <2>6. QED
    BY <2>1, <2>2, <2>4, <2>5, MainWritten
<1>3. CASE main' # main /\ ResumeMain
  <2>1. w.run = "live" /\ w.pc = "resume" /\ w.sub = "main" /\ d1' = d1
    BY <1>3 DEF ResumeMain, At
  <2> DEFINE key == <<"resumed", d1.last, cycleOf(w.code)>>
  <2>2. main.state = "needs_action" /\ MainAllows(d1.last) /\ \E o \in Outcomes : WriteMain(d1.last, key, "none", o)
    BY <1>3 DEF ResumeMain, TryMain, WriteMain
  <2>3. Resuming /\ HoldsWith(w.code) # {}
    BY <2>1, Scoped DEF LedgersInv, ScopesOK
  <2>4. d1.last \in WECHAT_RESUMABLE_STATES
    BY <2>2, Scoped, Vocabulary DEF MainAllows, Moving, ExceptionalStates
  <2>5. key \in LogKeys /\ "none" \in HoldCodes /\ d1.last \in Targets
    <3>1. cycleOf(w.code) \in Nat
      BY <2>3, Scoped, CycleIsLatest
    <3>2. QED
      BY <3>1, Scoped, KeysAreKeys DEF HoldCodes
  <2>6. MainEvent(d1.last, key, "none")
    BY <2>3, <2>4 DEF MainEvent
  <2>7. QED
    BY <2>1, <2>2, <2>5, <2>6, MainWritten
<1>4. QED
  BY <1>1, <1>2, <1>3

\* Every step is a step of the Coordinator.
LEMMA MainSteps ==
  ASSUME LedgersInv, [DraftNext]_draftVars
  PROVE  MainStep
<1>1. CASE Commit \/ Receipt \/ SyncMain \/ ReadyMain \/ HoldMain \/ FailMain \/ ResumeReceipts \/ ResumeMain
  BY <1>1, ReceiptMainStep, SyncMainStep, EndMainStep, ResumeMainStep
<1>2. CASE \/ Enter \/ Keep \/ Settle \/ SyncD1 \/ Ask \/ Send \/ AnswerCall \/ Verify \/ ReadyD1 \/ HoldD1 \/ FailD1
           \/ ResumeReconciled \/ ResumeRetrying \/ ResumeResumed \/ Provider \/ EngineRestart \/ Restart \/ App \/ EditDraft
           \/ UNCHANGED draftVars
  BY <1>2 DEF MainStep, Enter, Keep, Settle, SyncD1, Ask, Send, AnswerCall, Verify, ReadyD1, HoldD1, FailD1, StopD1,
              ResumeReconciled, ResumeRetrying, ResumeResumed, ResumeStep, Provider, EngineRestart, Restart, App, EditDraft, draftVars
<1>3. QED
  BY <1>1, <1>2 DEF DraftNext, Step

-----------------------------------------------------------------------------
(* What a run that is ready rests on.                                      *)

LEMMA MainGrows ==
  ASSUME LedgersInv, MainStep
  PROVE  \A k : Has(main, k) => Has(main, k)'
<1>1. CASE main' = main
  BY <1>1, SameMain
<1>2. CASE main' # main
  <2>1. PICK target \in Targets, key \in LogKeys, code \in HoldCodes : main' = WithEvent(main, target, key, code)
    BY <1>2 DEF MainStep
  <2>2. main'.log = Append(main.log, key)
    BY <2>1, Scoped, RowGrows
  <2>3. QED
    BY <2>2, Scoped, MainLog
<1>3. QED
  BY <1>1, <1>2

\* A recovery is of a hold.
LEMMA CyclesHeldKept ==
  ASSUME LedgersInv, CyclesHeld, D1Step
  PROVE  CyclesHeld'
<1>1. CASE d1' = d1
  BY <1>1 DEF CyclesHeld, Cycles, Tagged, HoldKeys
<1>2. CASE d1' # d1
  <2>1. PICK target \in Targets, key \in LogKeys, code \in HoldCodes :
          D1Event(target, key) /\ d1' = WithEvent(d1, target, key, code)
    BY <1>2 DEF D1Step
  <2>2. d1'.log = Append(d1.log, key)
    BY <2>1, Scoped, RowGrows
  <2>3. \A tag : Tagged(d1, tag)' = Tagged(d1, tag) \cup {k \in {key} : k[1] = tag}
    BY <2>2, Scoped, D1Log
  <2>4. HoldKeys \subseteq HoldKeys'
    BY <2>3 DEF HoldKeys
  <2>5. Cycles' \subseteq Cycles \cup {k[3] : k \in {x \in {key} : x[1] \in {"reconciled", "retrying", "resumed"}}}
    BY <2>3 DEF Cycles
  <2>6. ASSUME key[1] \in {"reconciled", "retrying", "resumed"}
        PROVE  \E hold \in HoldKeys : hold[3] = key[3]
    <3>1. RecoveryEvent(target, key)
      BY <2>1, <2>6 DEF D1Event, ArtifactEvent, SyncEvent, ReadyEvent, HoldEvent, FailEvent, AppEvent, Artifact
    <3>2. HoldsWith(w.code) # {} /\ key[3] = cycleOf(w.code)
      BY <3>1 DEF RecoveryEvent
    <3>3. PICK hold \in HoldsWith(w.code) : hold[3] = cycleOf(w.code)
      BY <3>2, Scoped, CycleIsLatest DEF Latest
    <3>4. QED
      BY <3>2, <3>3 DEF HoldsWith, HoldKeys
  <2>7. QED
    BY <2>4, <2>5, <2>6 DEF CyclesHeld
<1>3. QED
  BY <1>1, <1>2

\* An event appended to D1 moves no other.
LEMMA PlacesStay ==
  ASSUME d1 \in Rows, NEW key \in LogKeys, d1'.log = Append(d1.log, key)
  PROVE  /\ \A k : k # key => Place(d1, k)' = Place(d1, k)
         /\ key[1] # "hold" => \A c : HoldPlace(c)' = HoldPlace(c)
         /\ \A n \in 1..Len(d1.log) : d1.log[n]' = d1.log[n]
         /\ Len(d1.log)' = Len(d1.log) + 1 /\ Len(d1.log) \in Nat /\ DOMAIN d1.log = 1..Len(d1.log)
<1>1. d1.log \in Seq(LogKeys)
  BY DEF Rows
<1>2. /\ Len(d1'.log) = Len(d1.log) + 1 /\ Len(d1.log) \in Nat /\ DOMAIN d1.log = 1..Len(d1.log)
      /\ DOMAIN d1'.log = 1..(Len(d1.log) + 1)
      /\ \A n \in 1..Len(d1.log) : d1'.log[n] = d1.log[n]
      /\ d1'.log[Len(d1.log) + 1] = key
  BY <1>1
<1>3. ASSUME NEW k, k # key
      PROVE  {n \in DOMAIN d1'.log : d1'.log[n] = k} = {n \in DOMAIN d1.log : d1.log[n] = k}
  BY <1>2, <1>3
<1>4. ASSUME key[1] # "hold", NEW c
      PROVE  {n \in DOMAIN d1'.log : d1'.log[n][1] = "hold" /\ d1'.log[n][3] = c}
               = {n \in DOMAIN d1.log : d1.log[n][1] = "hold" /\ d1.log[n][3] = c}
  BY <1>2, <1>4
<1>5. \A k : k # key => Place(d1, k)' = Place(d1, k)
  BY <1>3 DEF Place, TheOne
<1>6. key[1] # "hold" => \A c : HoldPlace(c)' = HoldPlace(c)
  BY <1>4 DEF HoldPlace, TheOne
<1>7. QED
  BY <1>2, <1>5, <1>6

\* verifyExactWechatArtifactSet passes again when nothing but receipts and events of no
\* artifact, hold or recovery has been added.
LEMMA ExactKept ==
  ASSUME LedgersInv, CyclesHeld, Exact, kept' = kept,
         \/ d1' = d1
         \/ \E key \in LogKeys : key[1] \in {"app", "ready"} /\ d1'.log = Append(d1.log, key),
         \A k : Has(main, k) => Has(main, k)'
  PROVE  Exact'
<1>1. /\ \A k : Has(d1, k) => Has(d1, k)'
      /\ \A tag \in {"hold", "reconciled", "retrying", "resumed"} : Tagged(d1, tag)' = Tagged(d1, tag)
      /\ \A kind, s : Place(d1, Artifact(kind, s))' = Place(d1, Artifact(kind, s))
      /\ \A c : HoldPlace(c)' = HoldPlace(c)
      /\ \A n \in 1..Len(d1.log) : d1'.log[n] = d1.log[n]
      /\ Len(d1.log) \in Nat /\ Len(d1'.log) \in Nat /\ Len(d1'.log) >= Len(d1.log) /\ DOMAIN d1.log = 1..Len(d1.log)
  <2>1. CASE d1' = d1
    <3>1. d1.log \in Seq(LogKeys)
      BY Scoped DEF Rows
    <3>2. Len(d1.log) \in Nat /\ DOMAIN d1.log = 1..Len(d1.log)
      BY <3>1
    <3>3. QED
      BY <2>1, <3>2 DEF Has, Tagged, Place, HoldPlace, TheOne
  <2>2. CASE \E key \in LogKeys : key[1] \in {"app", "ready"} /\ d1'.log = Append(d1.log, key)
    <3>1. PICK key \in LogKeys : key[1] \in {"app", "ready"} /\ d1'.log = Append(d1.log, key)
      BY <2>2
    <3>2. \A kind, s : Artifact(kind, s) # key
      BY <3>1 DEF Artifact
    <3>6. /\ \A k : Has(d1, k) => Has(d1, k)'
          /\ \A tag : Tagged(d1, tag)' = Tagged(d1, tag) \cup {k \in {key} : k[1] = tag}
      BY <3>1, Scoped, D1Log
    <3>7. ASSUME NEW tag \in {"hold", "reconciled", "retrying", "resumed"}
          PROVE  {k \in {key} : k[1] = tag} = {}
      BY <3>1
    <3>3. /\ \A k : Has(d1, k) => Has(d1, k)'
          /\ \A tag \in {"hold", "reconciled", "retrying", "resumed"} : Tagged(d1, tag)' = Tagged(d1, tag)
      BY <3>6, <3>7
    <3>4. /\ \A kind, s : Place(d1, Artifact(kind, s))' = Place(d1, Artifact(kind, s))
          /\ \A c : HoldPlace(c)' = HoldPlace(c)
          /\ \A n \in 1..Len(d1.log) : d1'.log[n] = d1.log[n]
          /\ Len(d1.log) \in Nat /\ Len(d1'.log) = Len(d1.log) + 1 /\ DOMAIN d1.log = 1..Len(d1.log)
      BY <3>1, <3>2, Scoped, PlacesStay
    <3>5. QED
      BY <3>3, <3>4
  <2>3. QED
    BY <2>1, <2>2
<1>2. Kept' = Kept /\ Passing' = Passing /\ Scopes' = Scopes
  BY DEF Kept, Passing, Scopes
<1>3. Cycles' = Cycles
  BY <1>1 DEF Cycles
<1>4. \A s : Target(s)' = Target(s)
  <2> SUFFICES ASSUME NEW s PROVE Target(s)' = Target(s)
    OBVIOUS
  <2> DEFINE R == {key \in Tagged(d1, "resumed") : key[3] = s}
  <2>1. R' = R
    BY <1>1
  <2>2. Target(s) = IF R = {} THEN "visual_ready" ELSE (CHOOSE x \in R : TRUE)[2]
    BY DEF Target, TheOne
  <2>3. Target(s)' = IF R' = {} THEN "visual_ready" ELSE (CHOOSE x \in R' : TRUE)[2]
    BY DEF Target, TheOne
  <2> HIDE DEF R
  <2>4. QED
    BY <2>1, <2>2, <2>3
<1>5. \A s : Places0(s)' = Places0(s)
  BY <1>1, <1>2 DEF Places0
<1>6. (\A a \in Kept : Receipted(a[1], a[2]) /\ Projected(a[1], a[2]))'
  BY <1>1, <1>2 DEF Exact, Receipted, Projected
<1>7. ASSUME NEW c \in Cycles
      PROVE  WholeCycle(c)'
  <2>1. \E n \in 1..Len(d1.log) : d1.log[n][1] = "hold" /\ d1.log[n][3] = c
    <3>1. PICK key \in HoldKeys : key[3] = c
      BY DEF CyclesHeld
    <3>2. QED
      BY <1>1, <3>1 DEF HoldKeys, Tagged
  <2>2. HoldPlace(c) \in 1..Len(d1.log)
    <3>1. HoldPlace(c) \in {n \in DOMAIN d1.log : d1.log[n][1] = "hold" /\ d1.log[n][3] = c}
      <4> DEFINE S == {n \in DOMAIN d1.log : d1.log[n][1] = "hold" /\ d1.log[n][3] = c}
      <4>1. S # {} /\ HoldPlace(c) = TheOne(S)
        BY <1>1, <2>1 DEF HoldPlace
      <4>2. QED
        BY <4>1, OneOf
    <3>2. QED
      BY <1>1, <3>1
  <2>3. PICK h : h = HoldPlace(c)
    OBVIOUS
  <2>4. h \in Nat /\ Len(d1.log) >= h + 3 /\ HoldPlace(c)' = h
        /\ \A n \in 1..3 : d1.log[h + n][1] = <<"reconciled", "retrying", "resumed">>[n] /\ d1.log[h + n][3] = c
    BY <1>1, <2>2, <2>3 DEF Exact, WholeCycle
  <2>5. \A n \in 1..3 : d1'.log[h + n] = d1.log[h + n]
    <3> SUFFICES ASSUME NEW n \in 1..3 PROVE d1'.log[h + n] = d1.log[h + n]
      OBVIOUS
    <3>1. h + n \in 1..Len(d1.log)
      BY <1>1, <2>4
    <3>2. QED
      BY <1>1, <3>1
  <2>6. Len(d1'.log) >= h + 3
    BY <1>1, <2>4
  <2>7. QED
    BY <2>4, <2>5, <2>6 DEF WholeCycle
<1>8. (\A scope \in Scopes :
         /\ \/ <<"image", scope>> \notin Kept \/ Has(d1, <<"sync", "none", scope>>)
            \/ scope \in Passing /\ Target(scope) = "draft_verifying"
         /\ scope # 0 => scope \in Cycles /\ \A n \in Places0(scope) : n > HoldPlace(scope) + 3
         /\ scope \in Passing \/ \E cycle \in Cycles : \A n \in Places0(scope) : n < HoldPlace(cycle))'
  <2> SUFFICES ASSUME NEW scope \in Scopes
               PROVE  /\ \/ <<"image", scope>> \notin Kept \/ Has(d1, <<"sync", "none", scope>>)'
                         \/ scope \in Passing /\ Target(scope) = "draft_verifying"
                      /\ scope # 0 => scope \in Cycles /\ \A n \in Places0(scope) : n > HoldPlace(scope) + 3
                      /\ scope \in Passing \/ \E cycle \in Cycles : \A n \in Places0(scope) : n < HoldPlace(cycle)
    BY <1>1, <1>2, <1>3, <1>4, <1>5
  <2>1. QED
    BY <1>1 DEF Exact
<1>9. QED
  BY <1>2, <1>3, <1>6, <1>7, <1>8 DEF Exact

\* Where a step takes the Workflow.
LEMMA PcAfter ==
  ASSUME w \in Instances
  PROVE  /\ \A code : Hold(code) => w'.pc = "hold" /\ w'.sub = "d1" /\ w'.run = w.run /\ w'.code = code
         /\ Fail => w'.pc = "fail" /\ w'.sub = "d1" /\ w'.run = w.run
         /\ \A sub : Then(sub) => w'.pc = w.pc /\ w'.sub = sub /\ w'.run = w.run
         /\ \A pc : Begin(pc) => w'.pc = pc /\ w'.sub = FirstSub(pc) /\ w'.run = w.run
         /\ \A how : Stop(how) => w'.run = how
         /\ \A state, scope, cycle : StartInner(state, scope, cycle) => w'.pc \in {"verify", "template"}
         /\ \A k : NotKnown(k) => w'.pc = "findNow" \/ (w'.pc = "hold" /\ w'.sub = "d1")
         /\ w' = Instance => w'.pc = "enter" /\ w'.sub = "look"
<1>1. \A pc, sub : Goto(pc, sub) => w'.pc = pc /\ w'.sub = sub /\ w'.run = w.run
  BY DEF Goto, Instances
<1>2. \A code : Hold(code) => w'.pc = "hold" /\ w'.sub = "d1" /\ w'.run = w.run /\ w'.code = code
  BY DEF Hold, Instances
<1>3. \A k : NotKnown(k) => w'.pc = "findNow" \/ (w'.pc = "hold" /\ w'.sub = "d1")
  BY <1>2 DEF NotKnown, Instances
<1>4. \A state, scope, cycle : StartInner(state, scope, cycle) => w'.pc \in {"verify", "template"}
  BY DEF StartInner, Instances
<1>5. \A how : Stop(how) => w'.run = how
  BY DEF Stop, Instances
<1>6. w' = Instance => w'.pc = "enter" /\ w'.sub = "look"
  BY DEF Instance
<1>7. QED
  BY <1>1, <1>2, <1>3, <1>4, <1>5, <1>6 DEF Fail, Then, Begin

LEMMA CommittedAfter ==
  ASSUME w \in Instances, w.pc \in Kinds, Committed
  PROVE  w'.pc \in Kinds \cup Calls \cup {"sync", "verify"} \/ (w'.pc = "hold" /\ w'.sub = "d1")
<1>1. CASE Then("settle")
  BY <1>1, PcAfter
<1>2. CASE Hold(Mismatch)
  BY <1>2, PcAfter
<1>3. CASE Begin(Following(w.pc))
  <2>1. w'.pc = Following(w.pc)
    BY <1>3, PcAfter
  <2>2. PICK pc \in Kinds : pc = w.pc
    OBVIOUS
  <2>3. QED
    BY <2>1, <2>2, FollowingArtifact
<1>4. QED
  BY <1>1, <1>2, <1>3 DEF Committed, Continue

\* Where the phase goes on, is held, given up or stopped.
LEMMA StageAfter ==
  ASSUME LedgersInv,
         \/ Keep \/ Commit \/ Receipt \/ Settle \/ SyncD1 \/ SyncMain \/ Ask \/ Send \/ AnswerCall
         \/ ReadyMain \/ HoldMain \/ FailMain \/ ResumeMain \/ EngineRestart \/ Restart
  PROVE  \/ w'.run # "live" \/ w'.pc \in Kinds \cup Calls \cup {"sync", "verify", "enter"}
         \/ w'.pc \in {"hold", "fail"} /\ w'.sub = "d1"
<1>1. w \in Instances
  BY Scoped
<1>2. CASE Keep \/ SyncD1 \/ SyncMain \/ HoldMain \/ FailMain \/ ReadyMain
  <2>1. CASE Keep
    <3>1. w.pc \in Kinds /\ ((\E code : Hold(code)) \/ Then("event"))
      BY <2>1 DEF Keep
    <3>2. QED
      BY <1>1, <3>1, PcAfter
  <2>2. CASE SyncD1 \/ SyncMain
    <3>1. w.pc = "sync" /\ ((\E code : Hold(code)) \/ (\E sub : Then(sub)) \/ Begin("upload"))
      BY <2>2 DEF SyncD1, SyncMain, TryD1, TryMain, At
    <3>2. QED
      BY <1>1, <3>1, PcAfter DEF Calls
  <2>3. CASE HoldMain \/ FailMain \/ ReadyMain
    <3>1. \E how \in {"done", "errored"} : Stop(how)
      BY <2>3 DEF HoldMain, FailMain, StopMain, ReadyMain
    <3>2. QED
      BY <1>1, <3>1, PcAfter
  <2>4. QED
    BY <1>2, <2>1, <2>2, <2>3
<1>3. CASE Commit \/ Receipt
  <2>1. w.pc \in Kinds /\ ((\E code : Hold(code)) \/ Then("co") \/ Committed)
    BY <1>3 DEF Commit, Receipt, TryD1, TryMain
  <2>2. QED
    BY <1>1, <2>1, PcAfter, CommittedAfter
<1>4. CASE Settle
  <2>1. PICK pc \in Kinds : pc = w.pc
    BY <1>4 DEF Settle
  <2>2. (\E code : Hold(code)) \/ w' = [w EXCEPT !.pc = Following(pc), !.sub = FirstSub(Following(pc)), !.settle = <<>>]
    BY <1>4, <2>1 DEF Settle
  <2>3. CASE w' = [w EXCEPT !.pc = Following(pc), !.sub = FirstSub(Following(pc)), !.settle = <<>>]
    <3>1. w'.pc = Following(pc)
      BY <1>1, <2>3 DEF Instances
    <3>2. QED
      BY <1>1, <2>1, <3>1, FollowingArtifact
  <2>4. QED
    BY <1>1, <2>2, <2>3, PcAfter
<1>5. CASE Ask \/ Send
  <2>1. /\ w.pc \in Calls
        /\ \/ (\E code : Hold(code)) \/ Fail \/ (\E sub : Then(sub)) \/ (\E k : NotKnown(k))
           \/ \E sub, n : w' = [w EXCEPT !.sub = sub, !.try = n]
    BY <1>5 DEF Ask, Send
  <2>2. (\E sub, n : w' = [w EXCEPT !.sub = sub, !.try = n]) => w'.pc = w.pc
    BY <1>1 DEF Instances
  <2>3. QED
    BY <1>1, <2>1, <2>2, PcAfter DEF Calls
<1>6. CASE AnswerCall
  <2> DEFINE k == OpOf(w.pc)
  <2>1. /\ w.pc \in Calls
        /\ \/ (\E code : Hold(code)) \/ Fail \/ Then("ask") \/ NotKnown(k) \/ Answered(k)
    BY <1>6 DEF AnswerCall, Record, Rejected
  <2>2. Answered(k) => w'.pc \in Kinds \cup Calls
    <3> SUFFICES ASSUME Answered(k) PROVE w'.pc \in Kinds \cup Calls
      OBVIOUS
    <3> HIDE DEF k
    <3>1. CASE w.pc \in {"upload", "write"}
      <4>1. w' = [w EXCEPT !.pc = Following(w.pc), !.sub = "keep", !.settle = k]
        BY <3>1 DEF Answered
      <4>2. Following(w.pc) \in Kinds
        BY <3>1 DEF Following, Kinds
      <4>3. QED
        BY <1>1, <4>1, <4>2 DEF Instances
    <3>2. CASE w.pc \in {"read", "findNow", "find"}
      <4>1. w'.pc \in {"readback", "receipt"}
        BY <1>1, <3>2 DEF Answered, Instances
      <4>2. QED
        BY <4>1 DEF Kinds
    <3>3. CASE w.pc = "map"
      <4>1. w'.pc \in {"receipt", "find", "write"}
        BY <1>1, <3>3, PcAfter DEF Answered, Instances
      <4>2. QED
        BY <4>1 DEF Kinds, Calls
    <3>4. QED
      BY <2>1, <3>1, <3>2, <3>3 DEF Calls
  <2>3. "findNow" \in Calls
    BY DEF Calls
  <2>4. QED
    BY <1>1, <2>1, <2>2, <2>3, PcAfter
<1>7. CASE ResumeMain
  <2>1. (\E code : Hold(code)) \/ \E state, scope, cycle : StartInner(state, scope, cycle)
    BY <1>7 DEF ResumeMain, TryMain
  <2>2. "template" \in Kinds
    BY DEF Kinds
  <2>3. QED
    BY <1>1, <2>1, <2>2, PcAfter
<1>8. CASE EngineRestart \/ Restart
  BY <1>1, <1>8, PcAfter DEF EngineRestart, Restart
<1>9. QED
  BY <1>2, <1>3, <1>4, <1>5, <1>6, <1>7, <1>8

\* The phase is finished from the verification on, or by a Workflow that begins anew; it is
\* resumed by one that begins anew, and held in the Coordinator after D1.
LEMMA StageEntered ==
  ASSUME LedgersInv, [DraftNext]_draftVars, w'.run = "live"
  PROVE  /\ w'.pc = "ready" => w' = w \/ Verify \/ Enter \/ ReadyD1
         /\ w'.pc = "resume" => w' = w \/ Enter \/ ResumeReceipts \/ ResumeReconciled \/ ResumeRetrying \/ ResumeResumed
         /\ w'.pc = "hold" /\ w'.sub = "main" => w' = w \/ HoldD1
<1>1. w \in Instances /\ Kinds \cap {"ready", "resume", "hold"} = {} /\ Calls \cap {"ready", "resume", "hold"} = {}
  BY Scoped DEF Kinds, Calls
<1>2. CASE \/ Keep \/ Commit \/ Receipt \/ Settle \/ SyncD1 \/ SyncMain \/ Ask \/ Send \/ AnswerCall
           \/ ReadyMain \/ HoldMain \/ FailMain \/ ResumeMain \/ EngineRestart \/ Restart
  BY <1>1, <1>2, StageAfter
<1>3. CASE Verify
  <2>1. (\E code : Hold(code)) \/ Begin("ready")
    BY <1>3 DEF Verify
  <2>2. QED
    BY <1>1, <1>3, <2>1, PcAfter
<1>4. CASE Enter
  <2>1. \/ (\E code : Hold(code)) \/ (\E how \in {"done", "errored"} : Stop(how))
        \/ w'.pc \in {"verify", "template", "ready", "resume"}
    BY <1>1, <1>4, PcAfter DEF Enter, Instances
  <2>2. QED
    BY <1>1, <1>4, <2>1, PcAfter
<1>5. CASE ReadyD1
  <2>1. w.pc = "ready" /\ ((\E code : Hold(code)) \/ Then("main"))
    BY <1>5 DEF ReadyD1, TryD1, At
  <2>2. QED
    BY <1>1, <1>5, <2>1, PcAfter
<1>6. CASE HoldD1 \/ FailD1
  <2>1. HoldD1 \/ (w.pc = "fail" /\ (Then("main") \/ \E how \in {"done", "errored"} : Stop(how)))
    BY <1>6 DEF FailD1, StopD1, TryD1, At
  <2>2. HoldD1 => w.pc = "hold" /\ (Then("main") \/ \E how \in {"done", "errored"} : Stop(how))
    BY DEF HoldD1, StopD1, TryD1, At
  <2>3. QED
    BY <1>1, <2>1, <2>2, PcAfter
<1>7. CASE ResumeReceipts \/ ResumeReconciled \/ ResumeRetrying \/ ResumeResumed
  <2>1. w.pc = "resume" /\ ((\E code : Hold(code)) \/ (\E sub : Then(sub)))
    BY <1>7 DEF ResumeReceipts, ResumeReconciled, ResumeRetrying, ResumeResumed, ResumeStep, TryMain, At
  <2>2. QED
    BY <1>1, <1>7, <2>1, PcAfter
<1>8. CASE Provider \/ App \/ EditDraft \/ UNCHANGED draftVars
  BY <1>8 DEF Provider, App, EditDraft, draftVars
<1>9. QED
  BY <1>2, <1>3, <1>4, <1>5, <1>6, <1>7, <1>8 DEF DraftNext, Step

LEMMA ReadyStays ==
  ASSUME LedgersInv, ReadyInv, [DraftNext]_draftVars, d1.state = "draft_ready"
  PROVE  d1' = d1 /\ kept' = kept /\ recording' = recording /\ ~ Walking' /\ ~ Resuming'
<1>1. ~ Walking /\ ~ Resuming
  BY DEF ReadyInv
<1>2. d1' = d1
  <2>1. SUFFICES ASSUME d1' # d1 PROVE FALSE
    OBVIOUS
  <2>2. PICK target \in Targets, key \in LogKeys : D1Allows(target, TRUE) /\ D1Event(target, key)
    BY <2>1, D1Steps DEF D1Step
  <2>3. target = "draft_ready"
    BY <2>2, Scoped, Successors DEF D1Allows, Rows
  <2>4. QED
    BY <1>1, <2>2, <2>3 DEF D1Event, ArtifactEvent, SyncEvent, ReadyEvent, HoldEvent, FailEvent, RecoveryEvent, AppEvent
<1>3. CASE \/ Keep \/ Commit \/ Receipt \/ Settle \/ SyncD1 \/ SyncMain \/ Ask \/ Send \/ AnswerCall \/ Verify \/ ReadyD1
           \/ ResumeReceipts \/ ResumeReconciled \/ ResumeRetrying \/ ResumeResumed \/ ResumeMain
  <2>1. \/ w.run = "live" /\ w.pc \in Kinds \cup Calls \cup {"sync", "verify", "resume"}
        \/ w.run = "live" /\ w.pc = "ready" /\ w.sub = "d1"
    BY <1>3 DEF Keep, Commit, Receipt, Settle, SyncD1, SyncMain, Ask, Send, AnswerCall, Verify, ReadyD1, ResumeReceipts,
                ResumeReconciled, ResumeRetrying, ResumeResumed, ResumeStep, ResumeMain, At
  <2>2. QED
    BY <1>1, <2>1 DEF Walking, Resuming
<1>4. CASE Enter
  <2>1. UNCHANGED <<kept, recording>> /\ ((\E how \in {"done", "errored"} : Stop(how)) \/ (w'.pc = "ready" /\ w'.sub = "main"))
    BY <1>4, Scoped DEF Enter, Instances
  <2>2. QED
    BY <1>2, <2>1, Scoped, PcAfter DEF Walking, Resuming, Kinds, Calls
<1>5. CASE HoldD1 \/ HoldMain \/ FailD1 \/ FailMain \/ ReadyMain
  <2>1. UNCHANGED <<kept, recording>> /\ ((w.pc \in {"hold", "fail"} /\ Then("main")) \/ \E how \in {"done", "errored"} : Stop(how))
    BY <1>5 DEF HoldD1, HoldMain, FailD1, FailMain, StopD1, StopMain, ReadyMain, TryD1, At
  <2>2. QED
    BY <1>2, <2>1, Scoped, PcAfter DEF Walking, Resuming, Kinds, Calls
<1>6. CASE EngineRestart \/ Restart
  <2>1. UNCHANGED <<kept, recording>> /\ w'.pc = "enter"
    BY <1>6, Scoped, PcAfter DEF EngineRestart, Restart
  <2>2. QED
    BY <1>2, <2>1 DEF Walking, Resuming, Kinds, Calls
<1>7. CASE Provider \/ App \/ EditDraft \/ UNCHANGED draftVars
  <2>1. UNCHANGED <<kept, recording, w>>
    BY <1>7 DEF Provider, App, EditDraft, draftVars
  <2>2. QED
    BY <1>1, <1>2, <2>1 DEF Walking, Resuming
<1>8. QED
  BY <1>3, <1>4, <1>5, <1>6, <1>7 DEF DraftNext, Step

LEMMA BecomesReady ==
  ASSUME LedgersInv, [DraftNext]_draftVars, d1.state # "draft_ready", d1'.state = "draft_ready"
  PROVE  ReadyD1 /\ w.run = "live" /\ w.pc = "ready" /\ w.sub = "d1" /\ recording' /\ kept' = kept
         /\ \E key \in LogKeys : key[1] = "ready" /\ d1'.log = Append(d1.log, key)
<1>1. PICK target \in Targets, key \in LogKeys, code \in HoldCodes : D1Event(target, key) /\ d1' = WithEvent(d1, target, key, code)
  BY D1Steps DEF D1Step
<1>2. target = "draft_ready" /\ d1'.log = Append(d1.log, key)
  BY <1>1, Scoped, RowGrows
<1>3. d1.last # "draft_ready" /\ "draft_ready" \notin WECHAT_RESUMABLE_STATES
  BY Vocabulary DEF LedgersInv, RowsOK, D1Row
<1>4. ReadyEvent(target, key)
  <2>1. \A kind \in Kinds, s \in Nat : artifactState(kind, s) \in WECHAT_RESUMABLE_STATES
    BY Scoped, TargetIsCheckpoint
  <2>2. ~ ArtifactEvent(target, key)
    BY <1>2, <1>3, <2>1, Scoped DEF ArtifactEvent
  <2>3. QED
    BY <1>1, <1>2, <1>3, <2>2 DEF D1Event, SyncEvent, HoldEvent, FailEvent, RecoveryEvent, AppEvent
<1>5. w.run = "live" /\ w.pc = "ready" /\ w.sub = "d1" /\ recording' /\ key[1] = "ready"
  BY <1>4 DEF ReadyEvent, Walking
<1>6. ~ App
  <2>1. SUFFICES ASSUME App PROVE FALSE
    OBVIOUS
  <2>2. PICK to \in {"cancelled", "retrying", d1.last}, what \in {"cancel", "retry", "resume"} :
          d1' = WithEvent(d1, to, <<"app", what, Len(d1.log)>>, "none")
    BY <2>1, AppWrites
  <2>3. d1'.state = to
    BY <2>2 DEF WithEvent
  <2>4. QED
    BY <1>3, <2>3
<1>7. ReadyD1
  <2>1. d1' # d1
    OBVIOUS
  <2>2. Commit \/ SyncD1 \/ ReadyD1 \/ HoldD1 \/ FailD1 \/ ResumeReconciled \/ ResumeRetrying \/ ResumeResumed
    BY <1>6, <2>1 DEF DraftNext, Step, Enter, Keep, Receipt, Settle, SyncMain, Ask, Send, AnswerCall, Verify, ReadyMain, HoldMain, FailMain,
              StopMain, ResumeReceipts, ResumeMain, Provider, EngineRestart, Restart, EditDraft, draftVars
  <2>3. QED
    BY <1>5, <2>2 DEF Commit, SyncD1, HoldD1, FailD1, StopD1, ResumeReconciled, ResumeRetrying, ResumeResumed, ResumeStep, At, Kinds
<1>8. kept' = kept
  BY <1>7 DEF ReadyD1
<1>9. QED
  BY <1>2, <1>5, <1>7, <1>8

\* An App event, or none, before the phase is finished.
LEMMA Undisturbed ==
  ASSUME LedgersInv, [DraftNext]_draftVars, w' = w, w.run = "live", w.pc = "ready"
  PROVE  /\ kept' = kept /\ recording' = recording
         /\ d1' = d1 \/ (App /\ \E key \in LogKeys : key[1] = "app" /\ d1'.log = Append(d1.log, key))
<1>1. w \in Instances
  BY Scoped
<1>2. ~ ReadyD1
  <2>1. ReadyD1 => w.sub = "d1" /\ (Then("main") \/ \E code : Hold(code))
    BY DEF ReadyD1, TryD1, At
  <2>2. QED
    BY <1>1, <2>1, PcAfter
<1>3. ~ ReadyMain /\ ~ EngineRestart /\ ~ Restart
  <2>1. ReadyMain => \E how \in {"done", "errored"} : Stop(how)
    BY DEF ReadyMain
  <2>2. QED
    BY <1>1, <2>1, PcAfter DEF EngineRestart, Restart
<1>4. Provider \/ App \/ EditDraft \/ UNCHANGED draftVars
  BY <1>2, <1>3 DEF DraftNext, Step, Enter, Keep, Commit, Receipt, Settle, SyncD1, SyncMain, Ask, Send, AnswerCall, Verify,
       HoldD1, HoldMain, FailD1, FailMain, StopD1, StopMain, ResumeReceipts, ResumeReconciled, ResumeRetrying, ResumeResumed,
       ResumeStep, ResumeMain, At, Kinds, Calls
<1>5. CASE App
  <2>1. PICK to \in Targets, what \in {"cancel", "retry", "resume"} :
          d1' = WithEvent(d1, to, <<"app", what, Len(d1.log)>>, "none") /\ UNCHANGED <<kept, recording>>
    BY <1>5, AppWrites
  <2>2. d1'.log = Append(d1.log, <<"app", what, Len(d1.log)>>)
    BY <2>1 DEF WithEvent
  <2>3. <<"app", what, Len(d1.log)>> \in LogKeys
    <3>1. Len(d1.log) \in Nat
      BY Scoped DEF Rows
    <3>2. QED
      BY <3>1, KeysAreKeys
  <2>4. QED
    BY <1>5, <2>1, <2>2, <2>3
<1>6. CASE ~ App
  BY <1>4, <1>6 DEF Provider, EditDraft, draftVars
<1>7. QED
  BY <1>5, <1>6

LEMMA ReadyKept ==
  ASSUME LedgersInv, ReadyInv, [DraftNext]_draftVars
  PROVE  ReadyInv'
<1>1. CyclesHeld' /\ CyclesHeld /\ \A k : Has(main, k) => Has(main, k)'
  BY CyclesHeldKept, D1Steps, MainSteps, MainGrows DEF ReadyInv
<1>2. ASSUME w'.run = "live", w'.pc = "ready", w'.sub = "d1"
      PROVE  Exact'
  <2>1. CASE Verify
    <3>1. Exact /\ UNCHANGED <<d1, main, kept>>
      BY <1>2, <2>1, Scoped, PcAfter DEF Verify
    <3>2. QED
      BY <1>1, <3>1, ExactKept
  <2>2. CASE w' = w
    <3>1. kept' = kept /\ (d1' = d1 \/ \E key \in LogKeys : key[1] = "app" /\ d1'.log = Append(d1.log, key))
      BY <1>2, <2>2, Undisturbed
    <3>2. Exact
      BY <1>2, <2>2 DEF ReadyInv
    <3>3. QED
      BY <1>1, <3>1, <3>2, ExactKept
  <2>3. ~ Enter
    <3>1. Enter => (\E how \in {"done", "errored"} : Stop(how)) \/ w'.pc \in {"hold", "resume", "verify", "template"} \/ w'.sub = "main"
      BY Scoped, PcAfter DEF Enter, Instances
    <3>2. QED
      BY <1>2, <3>1, Scoped, PcAfter
  <2>4. ~ ReadyD1
    <3>1. ReadyD1 => Then("main") \/ \E code : Hold(code)
      BY DEF ReadyD1, TryD1
    <3>2. QED
      BY <1>2, <3>1, Scoped, PcAfter
  <2>5. QED
    BY <1>2, <2>1, <2>2, <2>3, <2>4, StageEntered
<1>3. ASSUME w'.run = "live", w'.pc = "ready"
      PROVE  w'.sub \in {"d1", "main"} /\ (w'.sub = "main" => d1'.state = "draft_ready")
  <2>1. CASE Verify
    <3>1. Begin("ready") \/ \E code : Hold(code)
      BY <2>1 DEF Verify
    <3>2. w'.sub = "d1"
      BY <1>3, <3>1, Scoped, PcAfter DEF FirstSub, Calls, Kinds
    <3>3. QED
      BY <3>2
  <2>2. CASE w' = w
    <3>1. w.sub \in {"d1", "main"} /\ (w.sub = "main" => d1.state = "draft_ready")
      BY <1>3, <2>2 DEF ReadyInv
    <3>2. QED
      BY <2>2, <3>1, ReadyStays
  <2>3. CASE Enter
    <3>1. \/ \E how \in {"done", "errored"} : Stop(how)
          \/ w'.pc \in {"hold", "resume", "verify", "template"}
          \/ w'.sub = "main" /\ d1.state = "draft_ready" /\ d1' = d1
      BY <2>3, Scoped, PcAfter DEF Enter, Instances
    <3>2. QED
      BY <1>3, <3>1, Scoped, PcAfter
  <2>4. CASE ReadyD1
    <3>1. (Then("main") /\ d1'.state = "draft_ready") \/ \E code : Hold(code)
      <4>1. CASE \E o \in Outcomes : WriteD1("draft_ready", <<"ready", "none", w.scope>>, "none", FALSE, o) /\ o = "done" /\ Then("main")
        <5>1. d1' = WithEvent(d1, "draft_ready", <<"ready", "none", w.scope>>, "none")
          BY <4>1 DEF WriteD1
        <5>2. QED
          BY <4>1, <5>1 DEF WithEvent
      <4>2. CASE Hold(Unknown)
        BY <4>2
      <4>3. QED
        BY <2>4, <4>1, <4>2 DEF ReadyD1, TryD1
    <3>2. QED
      BY <1>3, <3>1, Scoped, PcAfter
  <2>5. QED
    BY <1>3, <2>1, <2>2, <2>3, <2>4, StageEntered
<1>4. ASSUME d1'.state = "draft_ready"
      PROVE  recording' /\ Exact' /\ ~ Walking' /\ ~ Resuming'
  <2>1. CASE d1.state = "draft_ready"
    <3>1. d1' = d1 /\ kept' = kept /\ recording' = recording /\ ~ Walking' /\ ~ Resuming'
      BY <2>1, ReadyStays
    <3>2. recording /\ Exact
      BY <2>1 DEF ReadyInv
    <3>3. Exact'
      BY <1>1, <3>1, <3>2, ExactKept
    <3>4. QED
      BY <3>1, <3>2, <3>3
  <2>2. CASE d1.state # "draft_ready"
    <3>1. /\ ReadyD1 /\ w.run = "live" /\ w.pc = "ready" /\ w.sub = "d1" /\ recording' /\ kept' = kept
          /\ \E key \in LogKeys : key[1] = "ready" /\ d1'.log = Append(d1.log, key)
      BY <1>4, <2>2, BecomesReady
    <3>2. Exact
      BY <3>1 DEF ReadyInv
    <3>3. Exact'
      BY <1>1, <3>1, <3>2, ExactKept
    <3>4. (Then("main") \/ \E code : Hold(code))
      BY <3>1 DEF ReadyD1, TryD1
    <3>5. w'.pc \in {"ready", "hold"} /\ (w'.pc = "ready" => w'.sub = "main")
      BY <3>1, <3>4, Scoped, PcAfter
    <3>6. ~ Walking' /\ ~ Resuming'
      BY <3>5 DEF Walking, Resuming, Kinds, Calls
    <3>7. QED
      BY <3>1, <3>3, <3>6
  <2>3. QED
    BY <2>1, <2>2
<1>5. ASSUME main'.state = "draft_ready"
      PROVE  d1'.state = "draft_ready"
  <2>1. CASE main' = main
    BY <1>5, <2>1, ReadyStays DEF ReadyInv
  <2>2. CASE main' # main
    <3>1. PICK target \in Targets, key \in LogKeys, code \in HoldCodes :
            MainEvent(target, key, code) /\ d1' = d1 /\ main' = WithEvent(main, target, key, code)
      BY <2>2, MainSteps DEF MainStep
    <3>2. target = "draft_ready"
      BY <1>5, <3>1 DEF WithEvent
    <3>3. w.run = "live" /\ w.pc = "ready" /\ w.sub = "main"
      BY <3>1, <3>2, Vocabulary DEF MainEvent
    <3>4. QED
      BY <3>1, <3>3 DEF ReadyInv
  <2>3. QED
    BY <2>1, <2>2
<1>6. QED
  BY <1>1, <1>2, <1>3, <1>4, <1>5 DEF ReadyInv

LEMMA ReadyBegin ==
  ASSUME DraftInit
  PROVE  ReadyInv
<1>1. d1.log = <<>> /\ d1.state = "visual_ready" /\ main.state = "visual_ready" /\ w.pc = "enter"
  BY DEF DraftInit, Fresh, Instance
<1>2. Cycles = {}
  BY <1>1 DEF Cycles, Tagged
<1>3. QED
  BY <1>1, <1>2 DEF ReadyInv, CyclesHeld

\* A run ready in D1 has passed verifyExactWechatArtifactSet, and nothing that is written later
\* undoes it; the recording names its draft, and the Coordinator is ready after D1:
\* finalizeWechatDraft, whatever was lost and wherever the Workflow began anew.
THEOREM ReadyCorrect ==
  DraftSpec => []ReadyIsProven
<1>1. DraftInit => LedgersInv /\ CallsMade /\ ReadyInv
  BY LedgersBegin, CallsBegin, ReadyBegin
<1>2. LedgersInv /\ CallsMade /\ ReadyInv /\ [DraftNext]_draftVars => (LedgersInv /\ CallsMade /\ ReadyInv)'
  BY LedgersKept, CallsMadeKept, ReadyKept
<1>3. ReadyInv => ReadyIsProven
  BY DEF ReadyInv, ReadyIsProven
<1>4. QED
  BY <1>1, <1>2, <1>3, PTL DEF DraftSpec

-----------------------------------------------------------------------------
(* Recoveries, and what D1 is sure of.                                     *)

LEMMA StateOfIs ==
  ASSUME NEW kind \in Kinds, NEW s \in Nat, HoldsOK, artifactState(kind, s) = "draft_verifying"
  PROVE  kind \in {"receipt", "readback"} \/ Target(s) = "draft_verifying"
<1>1. kind \notin {"receipt", "readback"} => StateOf(kind) \in {"formatting", "visual_qa", "draft_syncing"}
  BY DEF StateOf, Kinds
<1>2. QED
  BY <1>1 DEF artifactState

\* A recovery's checkpoint is the one all of its events name.
LEMMA TargetIs ==
  ASSUME HoldsOK, RecoveriesOK
  PROVE  /\ \A s : Target(s) = "draft_verifying" <=> \E key \in ResumedKeys : key[3] = s /\ key[2] = "draft_verifying"
         /\ Target(0) # "draft_verifying"
<1>1. ASSUME NEW s
      PROVE  Target(s) = "draft_verifying" <=> \E key \in ResumedKeys : key[3] = s /\ key[2] = "draft_verifying"
  <2> DEFINE R == {key \in ResumedKeys : key[3] = s}
  <2>1. Target(s) = IF R = {} THEN "visual_ready" ELSE TheOne(R)[2]
    BY DEF Target, ResumedKeys
  <2>2. R # {} => TheOne(R) \in R
    BY OneOf
  <2>3. \A x, y \in R : x[2] = y[2]
    BY DEF RecoveriesOK
  <2>4. CASE R = {}
    BY <2>1, <2>4
  <2>5. CASE R # {}
    <3>1. TheOne(R) \in R /\ Target(s) = TheOne(R)[2]
      BY <2>1, <2>2, <2>5
    <3> HIDE DEF R
    <3>2. \A key \in R : key[2] = Target(s)
      BY <2>3, <3>1
    <3> USE DEF R
    <3>3. QED
      BY <3>1, <3>2
  <2>6. QED
    BY <2>4, <2>5
<1>2. \A key \in ResumedKeys : key[3] # 0
  <2>1. \A key \in ResumedKeys : key[3] \in 1..Holds
    BY DEF HoldsOK
  <2>2. QED
    BY <2>1, HoldsCounted
<1>3. QED
  BY <1>1, <1>2

\* D1's rows and logs only grow, and its last checkpoint moves on with artifacts, the checkpoint
\* before the uploads and the end.
LEMMA D1Grows ==
  ASSUME LedgersInv, D1Step
  PROVE  /\ \A k : Has(d1, k) => Has(d1, k)'
         /\ ResumedKeys \subseteq ResumedKeys'
         /\ \A key \in ResumedKeys' : key \notin ResumedKeys =>
              /\ Resuming /\ w.sub = "resumed" /\ HoldsWith(w.code) # {} /\ HoldKeys' = HoldKeys
              /\ key = <<"resumed", d1.last, cycleOf(w.code)>> /\ d1'.last = d1.last
         /\ d1'.last # d1.last => Walking /\ HoldKeys' = HoldKeys
         /\ d1.state = "cancelled" => d1'.state = "cancelled" /\ d1'.last = d1.last
         /\ Verified => Verified'
         /\ ~ Verified /\ Verified' =>
              /\ Walking /\ w.pc \in Kinds /\ w.sub = "event" /\ artifactState(w.pc, w.scope) = "draft_verifying"
              /\ ~ Projected(w.pc, w.scope)
<1>1. CASE d1' = d1
  BY <1>1 DEF Verified, Has, Tagged, ResumedKeys
<1>2. CASE d1' # d1
  <2>1. PICK target \in Targets, key \in LogKeys, code \in HoldCodes :
          D1Allows(target, TRUE) /\ D1Event(target, key) /\ d1' = WithEvent(d1, target, key, code)
    BY <1>2 DEF D1Step
  <2>2. /\ d1'.log = Append(d1.log, key) /\ d1'.state = target
        /\ d1'.last = IF target \in ExceptionalStates \cup {"retrying"} THEN d1.last ELSE target
    BY <2>1, Scoped, RowGrows
  <2>3. /\ \A k : Has(d1, k)' <=> (Has(d1, k) \/ k = key)
        /\ \A tag : Tagged(d1, tag)' = Tagged(d1, tag) \cup {k \in {key} : k[1] = tag}
    BY <2>2, Scoped, D1Log
  <2>4. ResumedKeys' = ResumedKeys \cup {k \in {key} : k[1] = "resumed"} /\ HoldKeys' = HoldKeys \cup {k \in {key} : k[1] = "hold"}
    BY <2>3 DEF ResumedKeys, HoldKeys
  <2>5. key[1] = "resumed" =>
          /\ Resuming /\ w.sub = "resumed" /\ HoldsWith(w.code) # {} /\ target = d1.last
          /\ key = <<"resumed", d1.last, cycleOf(w.code)>>
    BY <2>1 DEF D1Event, ArtifactEvent, SyncEvent, ReadyEvent, HoldEvent, FailEvent, RecoveryEvent, AppEvent, Artifact
  <2>6. D1Row(d1) /\ d1.state \in Targets /\ d1.last \in Moving
    BY DEF LedgersInv, RowsOK, D1Row, Typed, Rows
  <2>7. target \notin ExceptionalStates \cup {"retrying", d1.last} =>
          (ArtifactEvent(target, key) \/ SyncEvent(target, key) \/ ReadyEvent(target, key))
    BY <2>1 DEF D1Event, HoldEvent, FailEvent, RecoveryEvent, AppEvent, ExceptionalStates
  <2>8. d1'.last # d1.last => Walking /\ key[1] # "hold"
    BY <2>2, <2>7 DEF ArtifactEvent, SyncEvent, ReadyEvent, Artifact
  <2>9. d1.state = "cancelled" => target = "cancelled"
    BY <2>1, <2>6, Successors DEF D1Allows
  <2>10. Verified => Verified'
    <3>1. SUFFICES ASSUME Verified, target \notin ExceptionalStates \cup {"retrying", d1.last} PROVE target \in {"draft_verifying", "draft_ready"}
      BY <2>2 DEF Verified
    <3>2. d1.state \in Moving => d1.state = d1.last
      BY <2>6 DEF D1Row
    <3>3. CASE d1.state \in Moving
      <4>1. d1.state \in {"draft_verifying", "draft_ready"}
        BY <3>1, <3>2, <3>3 DEF Verified
      <4>2. target \in ALLOWED_PROJECTION_TRANSITIONS(d1.state)
        BY <2>1, <3>1, <3>2, <3>3, <4>1 DEF D1Allows
      <4>3. d1.state = "draft_verifying" /\ target \in PipelineSuccessors("draft_verifying") \cup {"needs_action", "failed", "cancelled"}
        BY <2>6, <4>1, <4>2, Successors, Vocabulary
      <4>4. QED
        BY <3>1, <4>3 DEF PipelineSuccessors, ExceptionalStates
    <3>4. CASE d1.state \notin Moving
      <4>1. d1.state \in ExceptionalStates \cup {"retrying"}
        BY <2>6, <3>4 DEF Targets
      <4>2. CASE d1.state = "retrying"
        BY <2>1, <3>1, <4>2 DEF D1Allows, ExceptionalStates
      <4>3. CASE d1.state \in ExceptionalStates
        <5>1. ALLOWED_PROJECTION_TRANSITIONS(d1.state) \subseteq {"retrying", "cancelled"}
          BY <2>6, <4>3, Successors DEF ExceptionalStates
        <5>2. QED
          BY <2>1, <3>1, <4>3, <5>1 DEF D1Allows, ExceptionalStates
      <4>4. QED
        BY <4>1, <4>2, <4>3
    <3>5. QED
      BY <3>3, <3>4
  <2>11. ~ Verified /\ Verified' =>
           /\ Walking /\ w.pc \in Kinds /\ w.sub = "event" /\ artifactState(w.pc, w.scope) = "draft_verifying"
           /\ ~ Projected(w.pc, w.scope)
    <3>1. SUFFICES ASSUME ~ Verified, Verified'
                   PROVE  ArtifactEvent(target, key) /\ target = "draft_verifying"
      BY DEF ArtifactEvent
    <3>2. target \notin ExceptionalStates \cup {"retrying", d1.last} /\ target \in {"draft_verifying", "draft_ready"}
      BY <2>2, <3>1 DEF Verified
    <3>3. ~ SyncEvent(target, key)
      BY <3>2 DEF SyncEvent
    <3>4. ~ ReadyEvent(target, key)
      <4>1. d1.state = "draft_verifying" => d1.last = "draft_verifying"
        BY <2>6, Vocabulary DEF D1Row, Moving
      <4>2. QED
        BY <3>1, <4>1 DEF ReadyEvent, Verified
    <3>5. ArtifactEvent(target, key)
      BY <2>7, <3>2, <3>3, <3>4
    <3>6. target # "draft_ready"
      <4>1. artifactState(w.pc, w.scope) \in WECHAT_RESUMABLE_STATES
        BY <3>5, Scoped, TargetIsCheckpoint DEF ArtifactEvent
      <4>2. QED
        BY <3>5, <4>1, Vocabulary DEF ArtifactEvent
    <3>7. QED
      BY <3>2, <3>5, <3>6
  <2>12. /\ \A k : Has(d1, k) => Has(d1, k)'
         /\ ResumedKeys \subseteq ResumedKeys'
    BY <2>3, <2>4
  <2>13. \A k \in ResumedKeys' : k \notin ResumedKeys =>
           /\ Resuming /\ w.sub = "resumed" /\ HoldsWith(w.code) # {} /\ HoldKeys' = HoldKeys
           /\ k = <<"resumed", d1.last, cycleOf(w.code)>> /\ d1'.last = d1.last
    <3> SUFFICES ASSUME NEW k \in ResumedKeys', k \notin ResumedKeys
                 PROVE  /\ Resuming /\ w.sub = "resumed" /\ HoldsWith(w.code) # {} /\ HoldKeys' = HoldKeys
                        /\ k = <<"resumed", d1.last, cycleOf(w.code)>> /\ d1'.last = d1.last
      OBVIOUS
    <3>1. k = key /\ key[1] = "resumed"
      BY <2>4
    <3>2. HoldKeys' = HoldKeys
      BY <2>4, <3>1
    <3>3. d1'.last = d1.last
      BY <2>2, <2>5, <3>1
    <3>4. QED
      BY <2>5, <3>1, <3>2, <3>3
  <2>14. d1'.last # d1.last => Walking /\ HoldKeys' = HoldKeys
    BY <2>4, <2>8
  <2>15. d1.state = "cancelled" => d1'.state = "cancelled" /\ d1'.last = d1.last
    BY <2>2, <2>9 DEF ExceptionalStates
  <2>16. QED
    BY <2>10, <2>11, <2>12, <2>13, <2>14, <2>15
<1>3. QED
  BY <1>1, <1>2

\* The same after a step.
LEMMA TargetNext ==
  ASSUME HoldsOK', RecoveriesOK'
  PROVE  \A s : Target(s)' = "draft_verifying" <=> \E key \in ResumedKeys' : key[3] = s /\ key[2] = "draft_verifying"
<1>1. ASSUME NEW s
      PROVE  Target(s)' = "draft_verifying" <=> \E key \in ResumedKeys' : key[3] = s /\ key[2] = "draft_verifying"
  <2> DEFINE R == {key \in ResumedKeys' : key[3] = s}
  <2>1. Target(s)' = IF R = {} THEN "visual_ready" ELSE (CHOOSE x \in R : TRUE)[2]
    BY DEF Target, ResumedKeys, TheOne
  <2>2. R # {} => (CHOOSE x \in R : TRUE) \in R
    OBVIOUS
  <2>3. \A x, y \in R : x[2] = y[2]
    BY DEF RecoveriesOK
  <2>4. CASE R = {}
    BY <2>1, <2>4
  <2>5. CASE R # {}
    <3>1. PICK x \in R : Target(s)' = x[2]
      BY <2>1, <2>2, <2>5
    <3> HIDE DEF R
    <3>2. \A key \in R : key[2] = Target(s)'
      BY <2>3, <3>1
    <3> USE DEF R
    <3>3. QED
      BY <3>1, <3>2
  <2>6. QED
    BY <2>4, <2>5
<1>2. QED
  BY <1>1

\* A hold is new or it is not; a new one has not been resumed from.
LEMMA HoldsGrow ==
  ASSUME LedgersInv, D1Step
  PROVE  \/ HoldKeys' = HoldKeys
         \/ /\ w.run = "live" /\ w.pc = "hold" /\ w.sub = "d1" /\ ResumedKeys' = ResumedKeys /\ d1'.last = d1.last
            /\ HoldKeys' = HoldKeys \cup {<<"hold", w.code, Holds + 1>>}
<1>1. CASE d1' = d1
  BY <1>1, SameD1
<1>2. CASE d1' # d1
  <2>1. PICK target \in Targets, key \in LogKeys, code \in HoldCodes :
          D1Event(target, key) /\ d1' = WithEvent(d1, target, key, code)
    BY <1>2 DEF D1Step
  <2>2. /\ d1'.log = Append(d1.log, key)
        /\ d1'.last = IF target \in ExceptionalStates \cup {"retrying"} THEN d1.last ELSE target
    BY <2>1, Scoped, RowGrows
  <2>3. \A tag : Tagged(d1, tag)' = Tagged(d1, tag) \cup {k \in {key} : k[1] = tag}
    BY <2>2, Scoped, D1Log
  <2>4. CASE key[1] # "hold"
    <3>1. {k \in {key} : k[1] = "hold"} = {}
      BY <2>4
    <3>2. QED
      BY <2>3, <3>1 DEF HoldKeys
  <2>5. CASE key[1] = "hold"
    <3>1. HoldEvent(target, key)
      BY <2>1, <2>5 DEF D1Event, ArtifactEvent, SyncEvent, ReadyEvent, FailEvent, RecoveryEvent, AppEvent, Artifact, Resuming
    <3>2. {k \in {key} : k[1] = "hold"} = {key} /\ {k \in {key} : k[1] = "resumed"} = {}
      BY <2>5
    <3>3. key = <<"hold", w.code, Holds + 1>> /\ target = "needs_action"
      BY <3>1 DEF HoldEvent
    <3>4. QED
      BY <2>2, <2>3, <3>1, <3>2, <3>3 DEF HoldKeys, ResumedKeys, HoldEvent, ExceptionalStates
  <2>6. QED
    BY <2>4, <2>5
<1>3. QED
  BY <1>1, <1>2

LEMMA LatestStays ==
  ASSUME HoldKeys' = HoldKeys, NEW code
  PROVE  HoldsWith(code)' = HoldsWith(code) /\ \A c : Latest(code, c)' <=> Latest(code, c)
BY DEF HoldsWith, HoldKeys, Latest

\* No step but those of the phase itself takes D1 past the checkpoint that was resumed at.
LEMMA ResumesStays ==
  ASSUME LedgersInv, D1Step, ~ Walking, NEW code \in HoldCodes, ResumesAt(code) \/ <<"hold", code, Holds + 1>> \in HoldKeys'
  PROVE  ResumesAt(code)'
<1>1. d1'.last = d1.last /\ \A key \in ResumedKeys' : key \in ResumedKeys \/ key[2] = d1.last
  BY D1Grows
<1>2. Holds \in Nat /\ (\A key \in HoldKeys : key[3] \in 1..Holds) /\ (\A key \in ResumedKeys : key[3] \in 1..Holds)
  BY Scoped DEF HoldsOK
<1>3. CASE HoldKeys' = HoldKeys
  <2>1. ResumesAt(code)
    <3>1. <<"hold", code, Holds + 1>> \notin HoldKeys
      BY <1>2
    <3>2. QED
      BY <1>3, <3>1
  <2>2. \A c : Latest(code, c)' <=> Latest(code, c)
    BY <1>3, LatestStays
  <2>3. QED
    BY <1>1, <2>1, <2>2 DEF ResumesAt
<1>4. CASE HoldKeys' # HoldKeys
  <2>1. ResumedKeys' = ResumedKeys /\ HoldKeys' = HoldKeys \cup {<<"hold", w.code, Holds + 1>>}
    BY <1>4, HoldsGrow
  <2>2. CASE code = w.code
    <3>1. <<"hold", code, Holds + 1>> \in HoldsWith(code)'
      BY <2>1, <2>2 DEF HoldsWith, HoldKeys
    <3>2. \A key \in HoldsWith(code)' : key \in HoldKeys'
      BY DEF HoldsWith, HoldKeys
    <3>3. ASSUME NEW c \in Nat, Latest(code, c)' PROVE c >= Holds + 1
      <4>1. \A key \in HoldsWith(code)' : key[3] <= c
        BY <3>3 DEF Latest
      <4>2. <<"hold", code, Holds + 1>>[3] <= c
        BY <3>1, <4>1
      <4>3. QED
        BY <1>2, <4>2
    <3>4. ASSUME NEW c \in Nat, Latest(code, c)' PROVE \A key \in ResumedKeys : key[3] # c
      BY <1>2, <3>3, <3>4
    <3>5. QED
      BY <2>1, <3>4 DEF ResumesAt
  <2>3. CASE code # w.code
    <3>1. HoldsWith(code)' = HoldsWith(code)
      <4>1. HoldsWith(code)' = {key \in HoldKeys' : key[2] = code} /\ HoldsWith(code) = {key \in HoldKeys : key[2] = code}
        BY DEF HoldsWith, HoldKeys
      <4>2. QED
        BY <2>1, <2>3, <4>1
    <3>2. \A c : Latest(code, c)' <=> Latest(code, c)
      BY <3>1 DEF Latest
    <3>3. ResumesAt(code)
      <4>1. <<"hold", code, Holds + 1>> \notin HoldKeys
        BY <1>2
      <4>2. QED
        BY <2>1, <2>3, <4>1
    <3>4. QED
      BY <1>1, <2>1, <3>2, <3>3 DEF ResumesAt
  <2>4. QED
    BY <2>2, <2>3
<1>5. QED
  BY <1>3, <1>4

LEMMA RecoveriesKept ==
  ASSUME LedgersInv, RecoveriesOK, ResumesOK, D1Step
  PROVE  RecoveriesOK'
<1>1. /\ \A key \in ResumedKeys' : key \notin ResumedKeys =>
           Resuming /\ HoldsWith(w.code) # {} /\ key = <<"resumed", d1.last, cycleOf(w.code)>>
      /\ Verified => Verified'
  BY D1Grows
<1>2. ASSUME Resuming, HoldsWith(w.code) # {}
      PROVE  \A key \in ResumedKeys : key[3] = cycleOf(w.code) => key[2] = d1.last
  <2>1. cycleOf(w.code) \in 1..Holds /\ Latest(w.code, cycleOf(w.code))
    BY <1>2, Scoped, CycleIsLatest
  <2>2. cycleOf(w.code) \in Nat
    BY <2>1, Scoped
  <2>3. QED
    BY <1>2, <2>1, <2>2 DEF ResumesOK, ResumesAt
<1>3. ASSUME NEW x \in ResumedKeys', NEW y \in ResumedKeys', x[3] = y[3]
      PROVE  x[2] = y[2]
  <2>1. CASE x \in ResumedKeys /\ y \in ResumedKeys
    BY <1>3, <2>1 DEF RecoveriesOK
  <2>2. CASE x \notin ResumedKeys /\ y \in ResumedKeys
    <3>1. Resuming /\ HoldsWith(w.code) # {} /\ x = <<"resumed", d1.last, cycleOf(w.code)>>
      BY <1>1, <2>2
    <3>2. y[3] = cycleOf(w.code) /\ x[2] = d1.last
      BY <1>3, <3>1
    <3>3. QED
      BY <1>2, <2>2, <3>1, <3>2
  <2>3. CASE x \in ResumedKeys /\ y \notin ResumedKeys
    <3>1. Resuming /\ HoldsWith(w.code) # {} /\ y = <<"resumed", d1.last, cycleOf(w.code)>>
      BY <1>1, <2>3
    <3>2. x[3] = cycleOf(w.code) /\ y[2] = d1.last
      BY <1>3, <3>1
    <3>3. QED
      BY <1>2, <2>3, <3>1, <3>2
  <2>4. CASE x \notin ResumedKeys /\ y \notin ResumedKeys
    BY <1>1, <2>4
  <2>5. QED
    BY <2>1, <2>2, <2>3, <2>4
<1>4. ASSUME NEW key \in ResumedKeys', key[2] = "draft_verifying"
      PROVE  Verified'
  <2>1. CASE key \in ResumedKeys
    BY <1>1, <1>4, <2>1 DEF RecoveriesOK
  <2>2. CASE key \notin ResumedKeys
    <3>1. d1.last = "draft_verifying"
      BY <1>1, <1>4, <2>2
    <3>2. QED
      BY <1>1, <3>1 DEF Verified
  <2>3. QED
    BY <2>1, <2>2
<1>5. QED
  BY <1>3, <1>4 DEF RecoveriesOK

\* A scope's target, once a recovery is known for it, is fixed.
LEMMA TargetStays ==
  ASSUME LedgersInv, HoldsOK', RecoveriesOK, ResumesOK, D1Step
  PROVE  /\ \A s : Target(s) = "draft_verifying" => Target(s)' = "draft_verifying"
         /\ \A s : Known(s) => Known(s)'
         /\ \A s : Known(s) \/ s = 0 => (Target(s)' = "draft_verifying" => Target(s) = "draft_verifying")
<1>1. ResumedKeys \subseteq ResumedKeys' /\ RecoveriesOK'
  BY D1Grows, RecoveriesKept
<1>2. /\ \A s : Target(s) = "draft_verifying" <=> \E key \in ResumedKeys : key[3] = s /\ key[2] = "draft_verifying"
      /\ \A s : Target(s)' = "draft_verifying" <=> \E key \in ResumedKeys' : key[3] = s /\ key[2] = "draft_verifying"
  BY <1>1, Scoped, TargetIs, TargetNext
<1>3. \A s : Known(s) => Known(s)'
  BY <1>1 DEF Known
<1>4. ASSUME NEW s, Known(s), Target(s)' = "draft_verifying"
      PROVE  Target(s) = "draft_verifying"
  <2>1. PICK x \in ResumedKeys : x[3] = s
    BY <1>4 DEF Known
  <2>2. PICK y \in ResumedKeys' : y[3] = s /\ y[2] = "draft_verifying"
    BY <1>2, <1>4
  <2>3. x[2] = "draft_verifying"
    BY <1>1, <2>1, <2>2 DEF RecoveriesOK
  <2>4. QED
    BY <1>2, <2>1, <2>3
<1>5. Target(0)' # "draft_verifying"
  <2>1. \A key \in ResumedKeys : key[3] \in 1..Holds
    BY Scoped DEF HoldsOK
  <2>2. \A key \in ResumedKeys' : key \notin ResumedKeys => key[3] \in 1..Holds
    <3>1. Resuming /\ HoldsWith(w.code) # {} => cycleOf(w.code) \in 1..Holds
      BY Scoped, CycleIsLatest
    <3>2. QED
      BY <3>1, D1Grows
  <2>3. \A key \in ResumedKeys' : key[3] # 0
    BY <2>1, <2>2, Scoped
  <2>4. QED
    BY <1>2, <2>3
<1>6. QED
  BY <1>1, <1>2, <1>3, <1>4, <1>5

LEMMA ResumesKept ==
  ASSUME LedgersInv, ResumesOK, [DraftNext]_draftVars
  PROVE  ResumesOK'
<1>1. D1Step /\ MainStep /\ w \in Instances /\ w.code \in HoldCodes /\ main.code \in HoldCodes /\ Holds \in Nat
  BY D1Steps, MainSteps, Scoped DEF Rows
<1>2. ASSUME ~ Walking, NEW code \in HoldCodes, ResumesAt(code) \/ <<"hold", code, Holds + 1>> \in HoldKeys'
      PROVE  ResumesAt(code)'
  BY <1>1, <1>2, ResumesStays
<1>3. Walking => ~ Resuming /\ (w.pc # "hold")
  BY DEF Walking, Resuming, Kinds, Calls
<1>4. ASSUME main'.state = "needs_action"
      PROVE  ResumesAt(main.code)'
  <2>1. CASE main' = main
    <3>1. ResumesAt(main.code)
      BY <1>4, <2>1 DEF ResumesOK
    <3>2. ~ Walking
      BY <1>4, <2>1, Vocabulary DEF LedgersInv, ScopesOK
    <3>3. PICK code \in HoldCodes : code = main.code
      BY <1>1
    <3>4. ResumesAt(code)'
      BY <1>2, <3>1, <3>2, <3>3
    <3>5. QED
      BY <2>1, <3>3, <3>4 DEF ResumesAt
  <2>2. CASE main' # main
    <3>1. PICK target \in Targets, key \in LogKeys, code \in HoldCodes :
            MainEvent(target, key, code) /\ d1' = d1 /\ main' = WithEvent(main, target, key, code)
      BY <1>1, <2>2 DEF MainStep
    <3>2. target = "needs_action" /\ main'.code = code
      BY <1>4, <3>1 DEF WithEvent
    <3>3. w.run = "live" /\ w.pc = "hold" /\ w.sub = "main" /\ code = w.code
      BY <3>1, <3>2, Vocabulary DEF MainEvent
    <3>4. ResumesAt(code)
      BY <3>3 DEF ResumesOK
    <3>5. ResumesAt(code)'
      BY <1>2, <1>3, <3>3, <3>4
    <3>6. QED
      BY <3>2, <3>5 DEF ResumesAt
  <2>3. QED
    BY <2>1, <2>2
<1>5. ASSUME Resuming'
      PROVE  ResumesAt(w.code)' /\ (w'.sub = "main" => \A c \in Nat : Latest(w.code, c)' => Has(d1, <<"resumed", d1.last, c>>)')
  <2>0. w'.run = "live" /\ w'.pc = "resume"
    BY <1>5 DEF Resuming
  <2>1. CASE Enter
    <3>1. \/ (\E code : Hold(code)) \/ (\E how \in {"done", "errored"} : Stop(how))
          \/ w'.pc \in {"verify", "template", "ready"} \/ (w'.code = main.code /\ w'.sub = "receipts" /\ main.state = "needs_action" /\ d1' = d1)
      BY <1>1, <2>1, PcAfter DEF Enter, Instances
    <3>2. w'.code = main.code /\ w'.sub = "receipts" /\ main.state = "needs_action" /\ d1' = d1
      BY <1>1, <2>0, <3>1, PcAfter
    <3>3. ResumesAt(main.code) /\ ~ Walking
      BY <3>2, Vocabulary DEF ResumesOK, LedgersInv, ScopesOK
    <3>4. PICK code \in HoldCodes : code = main.code
      BY <1>1
    <3>5. ResumesAt(code)'
      BY <1>2, <3>3, <3>4
    <3>6. QED
      BY <3>2, <3>4, <3>5 DEF ResumesAt
  <2>2. CASE w' = w \/ ResumeReceipts \/ ResumeReconciled \/ ResumeRetrying \/ ResumeResumed
    <3>1. Resuming /\ w'.code = w.code
      <4>1. CASE w' = w
        BY <1>5, <4>1 DEF Resuming
      <4>2. CASE ResumeReceipts \/ ResumeReconciled \/ ResumeRetrying \/ ResumeResumed
        <5>1. w.run = "live" /\ w.pc = "resume" /\ ((\E code : Hold(code)) \/ (\E sub : Then(sub)))
          BY <4>2 DEF ResumeReceipts, ResumeReconciled, ResumeRetrying, ResumeResumed, ResumeStep, TryMain, At
        <5>2. \A sub : Then(sub) => w'.code = w.code
          BY <1>1 DEF Then, Goto, Instances
        <5>3. QED
          BY <1>1, <2>0, <5>1, <5>2, PcAfter DEF Resuming
      <4>3. QED
        BY <2>2, <4>1, <4>2
    <3>2. PICK code \in HoldCodes : code = w.code
      BY <1>1
    <3>3. ResumesAt(code) /\ ~ Walking
      BY <1>3, <3>1, <3>2 DEF ResumesOK
    <3>4. ResumesAt(code)'
      BY <1>2, <3>3
    <3>5. HoldKeys' = HoldKeys /\ d1'.last = d1.last /\ \A k : Has(d1, k) => Has(d1, k)'
      BY <1>1, <3>1, <3>3, HoldsGrow, D1Grows DEF Resuming
    <3>6. \A c : Latest(code, c)' <=> Latest(code, c)
      BY <3>5, LatestStays
    <3>7. ASSUME w'.sub = "main", NEW c \in Nat, Latest(code, c)
          PROVE  Has(d1, <<"resumed", d1.last, c>>)'
      <4>1. CASE Has(d1, <<"resumed", d1.last, c>>)
        <5>1. PICK key : key = <<"resumed", d1.last, c>>
          OBVIOUS
        <5>2. Has(d1, key)'
          BY <3>5, <4>1, <5>1
        <5>3. key = <<"resumed", d1'.last, c>>
          BY <3>5, <5>1
        <5>4. QED
          BY <5>2, <5>3 DEF Has
      <4>2. CASE ~ Has(d1, <<"resumed", d1.last, c>>)
        <5>1. ~ (w' = w)
          BY <3>1, <3>2, <3>7, <4>2 DEF ResumesOK
        <5>2. ResumeResumed
          <6>1. \/ w' = w \/ ResumeResumed \/ (\E fault : Hold(fault))
                \/ \E sub \in {"receipts", "reconciled", "retrying", "resumed"} : Then(sub)
            BY <2>2 DEF ResumeReceipts, ResumeReconciled, ResumeRetrying, ResumeResumed, ResumeStep, TryMain
          <6>2. QED
            BY <1>1, <2>0, <3>7, <5>1, <6>1, PcAfter
        <5>3. HoldsWith(code) # {} /\ c = cycleOf(code)
          <6>1. HoldsWith(code) # {}
            BY <3>7 DEF Latest
          <6>2. QED
            BY <3>7, <6>1, CycleIsLatest
        <5>4. \/ \E fault : Hold(fault)
              \/ \E o \in Outcomes : o # "failed" /\ WriteD1(d1.last, <<"resumed", d1.last, cycleOf(code)>>, "none", d1.last = d1.state, o)
              \/ Has(d1, <<"resumed", d1.last, cycleOf(code)>>)
          BY <3>2, <5>2 DEF ResumeResumed, ResumeStep
        <5>5. d1' = WithEvent(d1, d1.last, <<"resumed", d1.last, c>>, "none")
          BY <1>1, <2>0, <4>2, <5>3, <5>4, PcAfter DEF WriteD1
        <5>6. PICK key \in LogKeys : key = <<"resumed", d1.last, c>>
          BY Scoped, KeysAreKeys
        <5>7. d1'.log = Append(d1.log, key) /\ key = <<"resumed", d1'.last, c>>
          BY <3>5, <5>5, <5>6 DEF WithEvent
        <5>8. Has(d1, key)'
          BY <5>7, Scoped, D1Log
        <5>9. QED
          BY <5>7, <5>8 DEF Has
      <4>3. QED
        BY <4>1, <4>2
    <3>8. w'.code = code
      BY <3>1, <3>2
    <3>9. ResumesAt(w.code)'
      BY <3>4, <3>8 DEF ResumesAt
    <3>10. \A c : Latest(w.code, c)' <=> Latest(code, c)
      BY <3>6, <3>8 DEF Latest
    <3>11. QED
      BY <3>7, <3>9, <3>10
  <2>3. QED
    BY <1>1, <2>0, <2>1, <2>2, StageEntered
<1>6. ASSUME w'.run = "live", w'.pc = "hold", w'.sub = "main"
      PROVE  ResumesAt(w.code)'
  <2>1. CASE w' = w
    <3>1. PICK code \in HoldCodes : code = w.code
      BY <1>1
    <3>2. ResumesAt(code)'
      BY <1>2, <1>3, <1>6, <2>1, <3>1 DEF ResumesOK
    <3>3. QED
      BY <2>1, <3>1, <3>2 DEF ResumesAt
  <2>2. CASE HoldD1 /\ w' # w
    <3>1. PICK code \in HoldCodes : code = w.code
      BY <1>1
    <3>2. w.pc = "hold" /\ TryD1("needs_action", <<"hold", code, Holds + 1>>, code, FALSE, Then("main"), Stop("errored"))
      BY <2>2, <3>1 DEF HoldD1, StopD1, At
    <3>3. ~ Stop("errored")
      BY <1>1, <1>6, PcAfter
    <3>4. \E o \in Outcomes : WriteD1("needs_action", <<"hold", code, Holds + 1>>, code, FALSE, o) /\ o = "done" /\ Then("main")
      BY <3>2, <3>3 DEF TryD1
    <3>5. d1'.log = Append(d1.log, <<"hold", code, Holds + 1>>) /\ w'.code = code
      BY <1>1, <3>1, <3>4 DEF WriteD1, WithEvent, Then, Goto, Instances
    <3>6. <<"hold", code, Holds + 1>> \in LogKeys
      <4>1. Holds + 1 \in Nat
        BY <1>1
      <4>2. QED
        BY <4>1, KeysAreKeys
    <3>7. PICK key \in LogKeys : key = <<"hold", code, Holds + 1>> /\ d1'.log = Append(d1.log, key)
      BY <3>5, <3>6
    <3>8. \A tag : Tagged(d1, tag)' = Tagged(d1, tag) \cup {k \in {key} : k[1] = tag}
      BY <3>7, Scoped, D1Log
    <3>9. key \in HoldKeys'
      <4>1. key \in {k \in {key} : k[1] = "hold"}
        BY <3>7
      <4>2. QED
        BY <3>8, <4>1 DEF HoldKeys
    <3>10. <<"hold", code, Holds + 1>> \in HoldKeys'
      BY <3>7, <3>9
    <3>11. ResumesAt(code)'
      BY <1>2, <1>3, <3>2, <3>10
    <3>12. QED
      BY <3>5, <3>11 DEF ResumesAt
  <2>3. QED
    BY <1>1, <1>6, <2>1, <2>2, StageEntered
<1>7. QED
  BY <1>4, <1>5, <1>6 DEF ResumesOK

\* What is known of the two ledgers is known as long as they stay.
LEMMA D1Facts ==
  ASSUME d1' = d1
  PROVE  /\ Verified' <=> Verified
         /\ \A s : Target(s)' = Target(s)
         /\ \A s : Known(s)' <=> Known(s)
         /\ \A kind, s : Projected(kind, s)' <=> Projected(kind, s)
<1>1. ResumedKeys' = ResumedKeys
  BY DEF ResumedKeys, Tagged
<1>2. \A s : Target(s)' = Target(s)
  <2> SUFFICES ASSUME NEW s PROVE Target(s)' = Target(s)
    OBVIOUS
  <2> DEFINE R == {key \in ResumedKeys : key[3] = s}
  <2>1. R' = R
    BY <1>1
  <2>2. Target(s) = IF R = {} THEN "visual_ready" ELSE (CHOOSE x \in R : TRUE)[2]
    BY DEF Target, TheOne, ResumedKeys
  <2>3. Target(s)' = IF R' = {} THEN "visual_ready" ELSE (CHOOSE x \in R' : TRUE)[2]
    BY DEF Target, TheOne, ResumedKeys
  <2> HIDE DEF R
  <2>4. QED
    BY <2>1, <2>2, <2>3
<1>3. \A s : Known(s)' <=> Known(s)
  BY <1>1 DEF Known
<1>4. QED
  BY <1>2, <1>3 DEF Verified, Projected, Has

LEMMA FactsStay ==
  ASSUME d1' = d1, main' = main
  PROVE  /\ Verified' <=> Verified
         /\ \A s : Target(s)' = Target(s)
         /\ \A s : Announced(s)' <=> Announced(s)
         /\ \A s : MaySend(s)' <=> MaySend(s)
         /\ \A s : Known(s)' <=> Known(s)
         /\ \A kind, s : Projected(kind, s)' <=> Projected(kind, s)
         /\ \A kind, s : Receipted(kind, s)' <=> Receipted(kind, s)
<1>1. \A s : Announced(s)' <=> Announced(s)
  BY DEF Announced, Has
<1>2. \A s : MaySend(s)' <=> MaySend(s)
  BY <1>1, D1Facts DEF MaySend
<1>3. QED
  BY <1>1, <1>2, D1Facts DEF Receipted, Has

LEMMA AnnouncedStays ==
  ASSUME \A k : Has(d1, k) => Has(d1, k)', \A k : Has(main, k) => Has(main, k)', NEW s, Announced(s)
  PROVE  Announced(s)'
<1>1. PICK key : key = <<"sync", "none", s>>
  OBVIOUS
<1>2. Has(d1, key)' /\ Has(main, key)'
  BY <1>1 DEF Announced
<1>3. QED
  BY <1>1, <1>2 DEF Announced, Has

\* An artifact is projected by the Workflow that keeps it.
LEMMA ProjectedGrows ==
  ASSUME LedgersInv, D1Step, NEW kind \in Kinds, NEW s \in Nat, Projected(kind, s)', ~ Projected(kind, s)
  PROVE  /\ Walking /\ w.pc = kind /\ w.scope = s /\ w.sub = "event" /\ d1'.last = artifactState(kind, s)
         /\ artifactState(kind, s) \in WECHAT_RESUMABLE_STATES
<1>0. d1' # d1
  BY SameD1 DEF Projected, Has
<1>1. PICK target \in Targets, key \in LogKeys, code \in HoldCodes :
        D1Event(target, key) /\ d1' = WithEvent(d1, target, key, code)
  BY <1>0 DEF D1Step
<1>2. /\ d1'.log = Append(d1.log, key)
      /\ d1'.last = IF target \in ExceptionalStates \cup {"retrying"} THEN d1.last ELSE target
  BY <1>1, Scoped, RowGrows
<1>3. PICK a : a = Artifact(kind, s)
  OBVIOUS
<1>4. Has(d1, a)' /\ ~ Has(d1, a)
  <2>1. Projected(kind, s)' <=> Has(d1, a)'
    BY <1>3 DEF Projected, Has, Artifact
  <2>2. QED
    BY <1>3, <2>1 DEF Projected
<1>5. key = Artifact(kind, s)
  BY <1>2, <1>3, <1>4, Scoped, D1Log
<1>6. ArtifactEvent(target, key)
  BY <1>1, <1>5 DEF D1Event, SyncEvent, ReadyEvent, HoldEvent, FailEvent, RecoveryEvent, AppEvent, Artifact, Resuming
<1>7. Walking /\ w.pc = kind /\ w.scope = s /\ w.sub = "event" /\ target = artifactState(kind, s)
  BY <1>5, <1>6 DEF ArtifactEvent, Artifact
<1>8. target \in WECHAT_RESUMABLE_STATES
  BY <1>7, Scoped, TargetIsCheckpoint
<1>9. target \notin ExceptionalStates \cup {"retrying"}
  BY <1>8, Vocabulary DEF Moving
<1>10. QED
  BY <1>2, <1>7, <1>8, <1>9

\* A receipt of the draft is recorded at the last checkpoint.
LEMMA LastCheckpoint ==
  ASSUME HoldsOK, NEW kind \in {"receipt", "readback"}, NEW s \in Nat
  PROVE  artifactState(kind, s) = "draft_verifying"
<1>1. StateOf(kind) = "draft_verifying"
  BY DEF StateOf
<1>2. Target(s) \in WECHAT_RESUMABLE_STATES
  BY TargetIsCheckpoint
<1>3. /\ DOMAIN Checkpoints = 1..5 /\ Checkpoints[1] = "visual_ready" /\ Checkpoints[2] = "formatting" /\ Checkpoints[3] = "visual_qa"
      /\ Checkpoints[4] = "draft_syncing" /\ Checkpoints[5] = "draft_verifying"
  BY DEF Checkpoints
<1>4. \A x \in WECHAT_RESUMABLE_STATES : Rank(x) \in 1..5 /\ Checkpoints[Rank(x)] = x
  <2>1. \A x \in WECHAT_RESUMABLE_STATES : \E n \in 1..5 : Checkpoints[n] = x
    BY <1>3 DEF WECHAT_RESUMABLE_STATES
  <2>2. \A x \in WECHAT_RESUMABLE_STATES : Rank(x) \in DOMAIN Checkpoints /\ Checkpoints[Rank(x)] = x
    BY <1>3, <2>1 DEF Rank
  <2>3. QED
    BY <1>3, <2>2
<1>5. Rank("draft_verifying") = 5 /\ Rank(Target(s)) \in 1..5
  <2>1. "draft_verifying" \in WECHAT_RESUMABLE_STATES
    BY Vocabulary
  <2>2. Rank("draft_verifying") \in 1..5 /\ Checkpoints[Rank("draft_verifying")] = "draft_verifying"
    BY <1>4, <2>1
  <2>3. QED
    BY <1>2, <1>3, <1>4, <2>2
<1>6. QED
  BY <1>1, <1>5 DEF artifactState

\* What an operation says stays true as long as what it rests on does.
LEMMA OperationStays ==
  ASSUME NEW k, NEW op, OperationOK(k, op),
         MaySend(k[2]) => MaySend(k[2])', Verified => Verified', Known(k[2]) => Known(k[2])', wechat.mapped => wechat'.mapped,
         k[1] = "map" /\ Target(k[2])' = "draft_verifying" => Target(k[2]) = "draft_verifying"
  PROVE  OperationOK(k, op)'
<1>1. OperationOK(k, op)' <=>
        /\ Writes(k) => MaySend(k[2])'
        /\ k[1] \in {"add", "update"} /\ LastOf(op.tries) = "ok" => Verified'
        /\ k[1] = "map" /\ k[2] # 0 => Known(k[2])'
        /\ k[1] = "map" /\ op.value # "none" => wechat'.mapped
        /\ k[1] = "map" /\ op.value = "none" /\ Target(k[2])' = "draft_verifying" => \A n \in DOMAIN op.there : op.there[n] # "ok"
        /\ k[1] \in {"add", "find", "findNow"} => \A n \in DOMAIN op.there : op.there[n] = "ok" => wechat'.mapped
        /\ k[1] = "upload" /\ (Len(op.tries) > 1 \/ LastOf(op.tries) # "open") => op.there[1] # "none"
  BY DEF OperationOK, Writes, LastOf
<1>2. QED
  BY <1>1 DEF OperationOK

\* The facts of the draft, in a step that asks nothing of WeChat.
LEMMA QuietDraft ==
  ASSUME LedgersInv, HoldsOK', RecoveriesOK, ResumesOK, OperationsOK, DraftOK, AddsOK, StandsOK, D1Step, MainStep,
         ops' = ops, wechat' = wechat
  PROVE  DraftStays /\ AddsOK'
<1>1. /\ \A k : Has(d1, k) => Has(d1, k)'
      /\ \A k : Has(main, k) => Has(main, k)'
      /\ Verified => Verified'
  BY D1Grows, MainGrows
<1>2. /\ \A s : Target(s) = "draft_verifying" => Target(s)' = "draft_verifying"
      /\ \A s : Known(s) => Known(s)'
      /\ \A s : Known(s) \/ s = 0 => (Target(s)' = "draft_verifying" => Target(s) = "draft_verifying")
  BY TargetStays
<1>3. \A s : Announced(s) => Announced(s)'
  BY <1>1, AnnouncedStays
<1>4. \A s : MaySend(s) => MaySend(s)'
  BY <1>2, <1>3 DEF MaySend
<1>5. OperationsOK'
  <2>1. ASSUME NEW k \in DOMAIN ops
        PROVE  OperationOK(k, ops[k])'
    <3>1. PICK op : op = ops[k]
      OBVIOUS
    <3>2. OperationOK(k, op)
      BY <3>1 DEF OperationsOK
    <3>3. k[1] = "map" => Known(k[2]) \/ k[2] = 0
      BY <3>2 DEF OperationOK
    <3>4. OperationOK(k, op)'
      BY <1>1, <1>2, <1>4, <3>2, <3>3, OperationStays
    <3>5. QED
      BY <3>1, <3>4 DEF OperationOK
  <2>2. QED
    BY <2>1 DEF OperationsOK
<1>6. Verified' => wechat'.mapped
  <2>1. SUFFICES ASSUME Verified', ~ Verified PROVE wechat.mapped
    BY DEF DraftOK
  <2>2. Walking /\ w.pc \in Kinds /\ artifactState(w.pc, w.scope) = "draft_verifying"
    BY <2>1, D1Grows
  <2>3. w.pc \in {"receipt", "readback"} \/ Target(w.scope) = "draft_verifying"
    BY <2>2, Scoped, StateOfIs
  <2>4. Target(w.scope) # "draft_verifying"
    <3>1. Target(w.scope) = "draft_verifying" <=> \E key \in ResumedKeys : key[3] = w.scope /\ key[2] = "draft_verifying"
      BY Scoped, TargetIs
    <3>2. QED
      BY <2>1, <3>1 DEF RecoveriesOK
  <2>5. QED
    BY <2>2, <2>3, <2>4 DEF StandsOK, Walking
<1>7. ASSUME NEW s \in Nat, Projected("receipt", s)'
      PROVE  Verified'
  <2>1. CASE Projected("receipt", s)
    BY <1>1, <2>1 DEF DraftOK
  <2>2. CASE ~ Projected("receipt", s)
    <3>1. d1'.last = artifactState("receipt", s)
      BY <1>7, <2>2, ProjectedGrows DEF Kinds
    <3>2. d1'.last = "draft_verifying"
      BY <3>1, Scoped, LastCheckpoint
    <3>3. QED
      BY <3>2 DEF Verified
  <2>3. QED
    BY <2>1, <2>2
<1>8. ASSUME NEW s \in Nat, Projected("image", s)'
      PROVE  Sent(<<"upload", s>>)'
  <2>1. Sent(<<"upload", s>>)
    <3>1. CASE Projected("image", s)
      BY <3>1 DEF DraftOK
    <3>2. CASE ~ Projected("image", s)
      <4>1. Walking /\ w.pc = "image" /\ w.scope = s
        BY <1>8, <3>2, ProjectedGrows DEF Kinds
      <4>2. QED
        BY <4>1 DEF StandsOK, Walking, Kinds
    <3>3. QED
      BY <3>1, <3>2
  <2>2. QED
    BY <2>1 DEF Sent
<1>9. DraftOK'
  BY <1>6, <1>7, <1>8 DEF DraftOK
<1>10. AddsOK'
  BY DEF AddsOK, Adds, Alive, LastOf
<1>11. QED
  BY <1>5, <1>9, <1>10 DEF DraftStays, SentStay, Sent

-----------------------------------------------------------------------------
(* A step changes one operation.                                           *)

LEMMA AskedOp ==
  ASSUME NEW op \in OpRecords, Len(op.tries) = Len(op.there)
  PROVE  LET new == [op EXCEPT !.tries = Append(@, "open"), !.there = Append(@, "none")] IN
         /\ Len(new.tries) = Len(op.tries) + 1 /\ Len(new.there) = Len(op.tries) + 1 /\ LastOf(new.tries) = "open"
         /\ DOMAIN op.there = 1..Len(op.tries) /\ DOMAIN new.there = 1..(Len(op.tries) + 1) /\ Len(op.tries) \in Nat
         /\ \A n \in 1..Len(op.tries) : new.there[n] = op.there[n]
         /\ new.there[Len(op.tries) + 1] = "none" /\ new.value = op.value
<1>1. op.tries \in Seq(TryStates) /\ op.there \in Seq(Claims)
  BY DEF OpRecords
<1> DEFINE tries == Append(op.tries, "open")
           there == Append(op.there, "none")
           new == [op EXCEPT !.tries = tries, !.there = there]
<1>2. new.tries = tries /\ new.there = there /\ new.value = op.value
  BY DEF OpRecords
<1>3. /\ Len(tries) = Len(op.tries) + 1 /\ tries[Len(op.tries) + 1] = "open" /\ tries # <<>>
      /\ Len(there) = Len(op.tries) + 1 /\ there[Len(op.tries) + 1] = "none"
      /\ DOMAIN op.there = 1..Len(op.tries) /\ DOMAIN there = 1..(Len(op.tries) + 1) /\ Len(op.tries) \in Nat
      /\ \A n \in 1..Len(op.tries) : there[n] = op.there[n]
  BY <1>1
<1> HIDE DEF tries, there
<1>4. LastOf(new.tries) = "open"
  BY <1>2, <1>3 DEF LastOf
<1>5. QED
  BY <1>2, <1>3, <1>4 DEF tries, there

LEMMA ClaimedOp ==
  ASSUME NEW op \in OpRecords, Len(op.tries) = Len(op.there), NEW n \in Nat, NEW claim \in Claims
  PROVE  LET new == [op EXCEPT !.there[n] = claim] IN
         /\ new.tries = op.tries /\ new.value = op.value /\ Len(new.there) = Len(op.tries)
         /\ DOMAIN op.there = 1..Len(op.tries) /\ DOMAIN new.there = 1..Len(op.tries) /\ Len(op.tries) \in Nat
         /\ \A m \in 1..Len(op.tries) : new.there[m] = IF m = n THEN claim ELSE op.there[m]
<1> DEFINE there == [op.there EXCEPT ![n] = claim]
           new == [op EXCEPT !.there = there]
<1>1. op.there \in Seq(Claims)
  BY DEF OpRecords
<1>2. Len(op.there) \in Nat /\ DOMAIN op.there = 1..Len(op.there) /\ op.there \in [1..Len(op.there) -> Claims]
  BY <1>1
<1>3. there \in [1..Len(op.there) -> Claims] /\ \A m \in 1..Len(op.there) : there[m] = IF m = n THEN claim ELSE op.there[m]
  BY <1>2
<1>4. Len(there) = Len(op.there) /\ DOMAIN there = 1..Len(op.there)
  BY <1>2, <1>3
<1>5. new.there = there /\ new.tries = op.tries /\ new.value = op.value
  BY DEF OpRecords
<1> HIDE DEF there
<1>6. QED
  BY <1>2, <1>3, <1>4, <1>5 DEF there

LEMMA TriedOp ==
  ASSUME NEW op \in OpRecords, Len(op.tries) = Len(op.there), Len(op.tries) \in 1..3, NEW result \in TryStates
  PROVE  LET new == [op EXCEPT !.tries[Len(op.tries)] = result] IN
         /\ new.there = op.there /\ new.value = op.value /\ Len(new.tries) = Len(op.tries) /\ LastOf(new.tries) = result
         /\ DOMAIN op.there = 1..Len(op.tries)
<1> DEFINE tries == [op.tries EXCEPT ![Len(op.tries)] = result]
           new == [op EXCEPT !.tries = tries]
<1>1. op.tries \in Seq(TryStates) /\ op.there \in Seq(Claims)
  BY DEF OpRecords
<1>0. Len(op.tries) \in Nat /\ op.tries \in [1..Len(op.tries) -> TryStates] /\ DOMAIN op.there = 1..Len(op.there)
  BY <1>1
<1>2. op.tries \in [1..Len(op.tries) -> TryStates] /\ Len(op.tries) \in 1..Len(op.tries) /\ DOMAIN op.there = 1..Len(op.tries)
  BY <1>0
<1>3. tries \in [1..Len(op.tries) -> TryStates] /\ tries[Len(op.tries)] = result
  BY <1>2
<1>4. tries \in Seq(TryStates) /\ Len(tries) = Len(op.tries) /\ tries # <<>>
  BY <1>1, <1>2
<1>5. new.tries = tries /\ new.there = op.there /\ new.value = op.value
  BY DEF OpRecords
<1> HIDE DEF tries
<1>6. LastOf(new.tries) = result
  BY <1>3, <1>4, <1>5 DEF LastOf
<1>7. QED
  BY <1>2, <1>4, <1>5, <1>6 DEF tries

\* The operation a call asks for.
LEMMA OpOfIs ==
  ASSUME w.pc \in Calls, w.pc = "write" => w.mutation \in {"add", "update"}
  PROVE  /\ OpOf(w.pc)[1] = "map" => w.pc = "map" /\ OpOf(w.pc)[2] = w.cycle
         /\ Writes(OpOf(w.pc)) => w.pc \in {"upload", "write"} /\ OpOf(w.pc)[2] = w.scope
         /\ OpOf(w.pc)[1] \in {"add", "update"} => w.pc = "write" /\ w.mutation = OpOf(w.pc)[1]
         /\ w.pc = "upload" => OpOf(w.pc) = <<"upload", w.scope>>
         /\ w.pc = "write" => OpOf(w.pc) = <<w.mutation, w.scope>>
         /\ w.pc \in {"find", "findNow", "read", "map", "upload"} => OpOf(w.pc)[1] = w.pc
         /\ OpOf(w.pc)[1] = "upload" => w.pc = "upload"
BY DEF Calls, OpOf, Writes

\* What is known of the other operations and of the draft when one operation changes.
LEMMA OneChanged ==
  ASSUME OperationsOK, DraftOK, d1' = d1, main' = main, NEW k, NEW new, SetOp(k, new), OperationOK(k, new)',
         wechat.mapped => wechat'.mapped, wechat'.mapped => wechat'.content # "none", Sent(k) => new.there[1] # "none"
  PROVE  DraftStays
<1>1. DOMAIN ops' = DOMAIN ops \cup {k} /\ ops'[k] = new /\ \A j \in DOMAIN ops : j # k => ops'[j] = ops[j]
  BY DEF SetOp
<1>2. ASSUME NEW j \in DOMAIN ops'
      PROVE  OperationOK(j, ops[j])'
  <2>1. CASE j = k
    BY <1>1, <2>1 DEF OperationOK
  <2>2. CASE j # k
    <3>1. PICK op : op = ops[j]
      OBVIOUS
    <3>2. OperationOK(j, op)
      BY <1>1, <1>2, <2>2, <3>1 DEF OperationsOK
    <3>3. OperationOK(j, op)'
      BY <3>2, FactsStay, OperationStays
    <3>4. QED
      BY <1>1, <1>2, <2>2, <3>1, <3>3 DEF OperationOK
  <2>3. QED
    BY <2>1, <2>2
<1>3. \A j : Sent(j) => Sent(j)'
  BY <1>1 DEF Sent
<1>4. DraftOK'
  <2>1. Verified' => wechat'.mapped
    BY FactsStay DEF DraftOK
  <2>2. \A s \in Nat : Projected("receipt", s)' => Verified'
    BY FactsStay DEF DraftOK
  <2>3. \A s \in Nat : Projected("image", s)' => Sent(<<"upload", s>>)'
    BY <1>3, FactsStay DEF DraftOK
  <2>4. QED
    BY <2>1, <2>2, <2>3 DEF DraftOK
<1>5. QED
  BY <1>2, <1>3, <1>4 DEF OperationsOK, DraftStays, SentStay

\* The adds, when another operation changes.
LEMMA AddsOthers ==
  ASSUME AddsOK, NEW k, k[1] # "add", NEW new, SetOp(k, new), wechat'.drafts = wechat.drafts
  PROVE  AddsOK'
<1>1. DOMAIN ops' = DOMAIN ops \cup {k} /\ \A j \in DOMAIN ops : j # k => ops'[j] = ops[j]
  BY DEF SetOp
<1>2. Adds' = Adds /\ \A j \in Adds : ops'[j] = ops[j]
  BY <1>1 DEF Adds
<1>3. \A j \in Adds : Alive(j)' <=> Alive(j)
  BY <1>2 DEF Alive, LastOf
<1>4. QED
  BY <1>2, <1>3 DEF AddsOK, LastOf

\* When an add changes, it is the only one that is alive.
LEMMA AddChanged ==
  ASSUME AddsOK, NEW k, k[1] = "add", NEW new, SetOp(k, new),
         \A n \in DOMAIN new.there :
           /\ n < Len(new.there) \/ LastOf(new.tries) \notin {"open", "ok"} => new.there[n] \in Refused
           /\ new.there[n] = "running" => wechat'.drafts = 0,
         \A j \in Adds : LastOf(new.tries) \in {"open", "ok"} /\ Alive(j) => j = k,
         \/ wechat'.drafts = 0
         \/ wechat'.drafts = 1 /\ LastOf(new.tries) \in {"open", "ok"} /\ LastOf(new.there) \in {"ok", "stuck"}
  PROVE  AddsOK'
<1>1. DOMAIN ops' = DOMAIN ops \cup {k} /\ ops'[k] = new /\ \A j \in DOMAIN ops : j # k => ops'[j] = ops[j]
  BY DEF SetOp
<1>2. Adds' = Adds \cup {k} /\ \A j \in Adds : j # k => ops'[j] = ops[j]
  BY <1>1 DEF Adds
<1>3. (Alive(k)' <=> LastOf(new.tries) \in {"open", "ok"}) /\ \A j \in Adds : j # k => (Alive(j)' <=> Alive(j))
  BY <1>1, <1>2 DEF Alive, LastOf
<1>4. ASSUME NEW j \in Adds', NEW n \in DOMAIN ops'[j].there
      PROVE  /\ n < Len(ops'[j].there) \/ ~ Alive(j)' => ops'[j].there[n] \in Refused
             /\ ops'[j].there[n] = "running" => wechat'.drafts = 0
  <2>1. CASE j = k
    BY <1>1, <1>3, <1>4, <2>1
  <2>2. CASE j # k
    <3>1. /\ j \in Adds /\ ops'[j] = ops[j] /\ (Alive(j)' <=> Alive(j))
          /\ n < Len(ops[j].there) \/ ~ Alive(j) => ops[j].there[n] \in Refused
      BY <1>2, <1>3, <1>4, <2>2 DEF AddsOK
    <3>2. ops[j].there[n] = "running" => Alive(j)
      BY <3>1 DEF Refused
    <3>3. QED
      BY <2>2, <3>1, <3>2
  <2>3. QED
    BY <2>1, <2>2
<1>5. ASSUME NEW i \in Adds', NEW j \in Adds', Alive(i)', Alive(j)'
      PROVE  i = j
  <2>1. CASE i # k /\ j # k
    BY <1>2, <1>3, <1>5, <2>1 DEF AddsOK
  <2>2. CASE i = k \/ j = k
    BY <1>2, <1>3, <1>5, <2>2
  <2>3. QED
    BY <2>1, <2>2
<1>6. \/ wechat'.drafts = 0
      \/ wechat'.drafts = 1 /\ \E j \in Adds' : Alive(j)' /\ LastOf(ops'[j].there) \in {"ok", "stuck"}
  BY <1>1, <1>2, <1>3
<1>7. QED
  BY <1>4, <1>5, <1>6 DEF AddsOK, LastOf

LEMMA NothingAsked ==
  ASSUME OperationsOK, DraftOK, AddsOK, d1' = d1, main' = main, ops' = ops, wechat'.drafts = wechat.drafts,
         wechat.mapped => wechat'.mapped, wechat'.mapped => wechat'.content # "none"
  PROVE  DraftStays /\ AddsOK'
<1>1. ASSUME NEW k \in DOMAIN ops
      PROVE  OperationOK(k, ops[k])'
  <2>1. PICK op : op = ops[k]
    OBVIOUS
  <2>2. OperationOK(k, op)
    BY <2>1 DEF OperationsOK
  <2>3. OperationOK(k, op)'
    BY <2>2, FactsStay, OperationStays
  <2>4. QED
    BY <2>1, <2>3 DEF OperationOK
<1>2. DraftOK'
  BY FactsStay DEF DraftOK, Sent
<1>3. AddsOK'
  BY DEF AddsOK, Adds, Alive, LastOf
<1>4. QED
  BY <1>1, <1>2, <1>3 DEF OperationsOK, DraftStays, SentStay, Sent

\* A call is prepared.
LEMMA AskDraft ==
  ASSUME LedgersInv, CallsMade, OperationsOK, DraftOK, AddsOK, StandsOK, Ask
  PROVE  DraftStays /\ AddsOK'
<1>1. PICK k : k = OpOf(w.pc)
  OBVIOUS
<1>2. PICK op \in OpRecords : op = Op(k) /\ Len(op.tries) = Len(op.there) /\ Len(op.tries) \in 0..3
                              /\ (k \in DOMAIN ops => op = ops[k] /\ Len(op.tries) \in 1..3)
  BY OperationsHave DEF LedgersInv, Typed
<1>3. UNCHANGED <<d1, main, wechat>> /\ w.run = "live" /\ w.pc \in Calls /\ w.sub = "ask" /\ Walking
  BY DEF Ask, At, Walking
<1>4. CASE ops' = ops
  BY <1>3, <1>4, NothingAsked DEF DraftOK
<1>5. CASE ops' # ops
  <2> DEFINE new == [op EXCEPT !.tries = Append(@, "open"), !.there = Append(@, "none")]
  <2>1. SetOp(k, new) /\ (LastOf(op.tries) = "none" \/ LastOf(op.tries) = "retryable")
    BY <1>1, <1>2, <1>5 DEF Ask
  <2>2. /\ Len(new.tries) = Len(op.tries) + 1 /\ Len(new.there) = Len(op.tries) + 1 /\ LastOf(new.tries) = "open"
        /\ DOMAIN op.there = 1..Len(op.tries) /\ DOMAIN new.there = 1..(Len(op.tries) + 1) /\ Len(op.tries) \in Nat
        /\ \A n \in 1..Len(op.tries) : new.there[n] = op.there[n]
        /\ new.there[Len(op.tries) + 1] = "none" /\ new.value = op.value
    BY <1>2, AskedOp
  <2> HIDE DEF new
  <2>3. k \notin DOMAIN ops => Len(op.tries) = 0 /\ op.value = "none" /\ op.there = <<>>
    BY <1>2 DEF Op, NoOp
  <2>4. k \in DOMAIN ops => OperationOK(k, op) /\ LastOf(op.tries) # "open"
    BY <1>2, <2>1 DEF OperationsOK
  <2>5. /\ k[1] = "map" => k[2] = w.cycle
        /\ Writes(k) => w.pc \in {"upload", "write"} /\ k[2] = w.scope
        /\ k[1] = "add" => w.pc = "write" /\ w.mutation = "add"
    BY <1>1, <1>3, OpOfIs DEF CallsMade
  <2>6. StandsOK /\ w.pc \in Kinds \cup Calls \cup {"sync"}
    BY <1>3
  <2>7. Writes(k) => MaySend(k[2])
    <3>1. Writes(k) => Past
      BY <2>5 DEF Past, Calls
    <3>2. QED
      BY <1>3, <2>5, <2>6, <3>1 DEF StandsOK, MaySend
  <2>8. k[1] = "map" /\ k[2] # 0 => Known(k[2])
    BY <1>3, <2>5, <2>6 DEF StandsOK
  <2>9. OperationOK(k, new)
    <3>1. k[1] \in {"add", "update"} => LastOf(new.tries) # "ok"
      BY <2>2
    <3>2. k[1] = "map" /\ new.value # "none" => wechat.mapped
      BY <2>2, <2>3, <2>4 DEF OperationOK
    <3>3. \A n \in DOMAIN new.there : new.there[n] = "ok" => k \in DOMAIN ops /\ n \in DOMAIN op.there /\ op.there[n] = "ok"
      <4>1. ASSUME NEW n \in DOMAIN new.there, new.there[n] = "ok"
            PROVE  k \in DOMAIN ops /\ n \in DOMAIN op.there /\ op.there[n] = "ok"
        <5>1. n # Len(op.tries) + 1
          BY <2>2, <4>1
        <5>2. n \in 1..Len(op.tries)
          BY <2>2, <4>1, <5>1
        <5>3. QED
          BY <2>2, <2>3, <4>1, <5>2
      <4>2. QED
        BY <4>1
    <3>4. k[1] = "map" /\ new.value = "none" /\ Target(k[2]) = "draft_verifying" =>
            \A n \in DOMAIN new.there : new.there[n] # "ok"
      BY <2>2, <2>4, <3>3 DEF OperationOK
    <3>5. k[1] \in {"add", "find", "findNow"} => \A n \in DOMAIN new.there : new.there[n] = "ok" => wechat.mapped
      BY <2>4, <3>3 DEF OperationOK
    <3>6. ASSUME k[1] = "upload", Len(new.tries) > 1 \/ LastOf(new.tries) # "open"
          PROVE  new.there[1] # "none"
      <4>1. Len(op.tries) > 0
        BY <2>2, <3>6
      <4>2. k \in DOMAIN ops /\ 1 \in 1..Len(op.tries)
        BY <2>2, <2>3, <4>1
      <4>3. op.there[1] # "none"
        BY <2>4, <3>6, <4>2 DEF OperationOK
      <4>4. QED
        BY <2>2, <4>2, <4>3
    <3>7. QED
      BY <2>7, <2>8, <3>1, <3>2, <3>4, <3>5, <3>6 DEF OperationOK
  <2>10. OperationOK(k, new)'
    BY <1>3, <2>9, FactsStay, OperationStays
  <2>11. Sent(k) => new.there[1] # "none"
    <3>1. Sent(k) => k \in DOMAIN ops /\ op.there[1] # "none" /\ 1 \in 1..Len(op.tries)
      BY <1>2, <2>2 DEF Sent
    <3>2. QED
      BY <2>2, <3>1
  <2>12. DraftStays
    <3>1. (wechat.mapped => wechat'.mapped) /\ (wechat'.mapped => wechat'.content # "none")
      BY <1>3 DEF DraftOK
    <3>2. QED
      BY <1>3, <2>1, <2>10, <2>11, <3>1, OneChanged
  <2>13. CASE k[1] # "add"
    BY <1>3, <2>1, <2>12, <2>13, AddsOthers
  <2>14. CASE k[1] = "add"
    <3>1. \A j \in Adds : ~ Alive(j)
      BY <1>3, <2>5, <2>6, <2>14 DEF StandsOK, Asking
    <3>2. wechat.drafts = 0
      BY <3>1 DEF AddsOK
    <3>3. ASSUME NEW n \in DOMAIN new.there
          PROVE  /\ n < Len(new.there) \/ LastOf(new.tries) \notin {"open", "ok"} => new.there[n] \in Refused
                 /\ new.there[n] = "running" => wechat'.drafts = 0
      <4>1. ASSUME n < Len(new.there) PROVE new.there[n] \in Refused
        <5>1. n \in 1..Len(op.tries) /\ k \in DOMAIN ops
          BY <2>2, <2>3, <3>3, <4>1
        <5>2. k \in Adds
          BY <2>14, <5>1 DEF Adds
        <5>3. op.there[n] \in Refused
          BY <1>2, <2>2, <3>1, <5>1, <5>2 DEF AddsOK
        <5>4. QED
          BY <2>2, <5>1, <5>3
      <4>2. QED
        BY <1>3, <2>2, <3>2, <4>1
    <3>4. AddsOK'
      BY <1>3, <2>1, <2>14, <3>1, <3>2, <3>3, AddChanged
    <3>5. QED
      BY <2>12, <3>4
  <2>15. QED
    BY <2>13, <2>14
<1>6. QED
  BY <1>4, <1>5

\* A request reaches the adapter.
LEMMA SendDraft ==
  ASSUME LedgersInv, CallsMade, OperationsOK, DraftOK, AddsOK, StandsOK, Send
  PROVE  DraftStays /\ AddsOK'
<1>1. PICK k : k = OpOf(w.pc)
  OBVIOUS
<1>2. /\ UNCHANGED <<d1, main, wechat>> /\ w.run = "live" /\ w.pc \in Calls /\ w.sub \in {"send", "query"} /\ Walking
      /\ k \in DOMAIN ops /\ w.try \in Nat
  BY <1>1 DEF Send, At, Walking, CallsMade, LedgersInv, Typed, Instances
<1>3. CASE ops' = ops
  BY <1>2, <1>3, NothingAsked DEF DraftOK
<1>4. CASE ops' # ops
  <2>1. PICK op \in OpRecords : op = ops[k] /\ Op(k) = op /\ Len(op.tries) = Len(op.there) /\ Len(op.tries) \in 1..3
    BY <1>2, OperationsHave DEF LedgersInv, Typed
  <2>2. PICK try \in Nat : try = w.try
    BY <1>2
  <2> DEFINE new == [op EXCEPT !.there[try] = "running"]
  <2>3. SetOp(k, new) /\ (w.sub = "query" => ~ Writes(k))
    BY <1>1, <1>4, <2>1, <2>2 DEF Send, Claim
  <2>4. /\ new.tries = op.tries /\ new.value = op.value /\ Len(new.there) = Len(op.tries)
        /\ DOMAIN op.there = 1..Len(op.tries) /\ DOMAIN new.there = 1..Len(op.tries) /\ Len(op.tries) \in Nat
        /\ \A m \in 1..Len(op.tries) : new.there[m] = IF m = try THEN "running" ELSE op.there[m]
    BY <2>1, ClaimedOp DEF Claims
  <2> HIDE DEF new
  <2>5. OperationOK(k, op)
    BY <1>2, <2>1 DEF OperationsOK
  <2>6. \A m \in DOMAIN new.there : new.there[m] = "ok" => m \in DOMAIN op.there /\ op.there[m] = "ok"
    BY <2>4
  <2>7. 1 \in 1..Len(op.tries) /\ op.there # <<>>
    <3>1. PICK m \in 1..3 : m = Len(op.tries)
      BY <2>1
    <3>2. 1 \in 1..m /\ Len(op.there) = m /\ Len(op.there) # 0
      BY <2>1, <3>1
    <3>3. QED
      BY <3>1, <3>2
  <2>8. op.there[1] # "none" => new.there[1] # "none"
    BY <2>4, <2>7
  <2>9. OperationOK(k, new)
    BY <2>4, <2>5, <2>6, <2>8 DEF OperationOK
  <2>10. OperationOK(k, new)'
    BY <1>2, <2>9, FactsStay, OperationStays
  <2>11. DraftStays
    <3>1. (wechat.mapped => wechat'.mapped) /\ (wechat'.mapped => wechat'.content # "none") /\ (Sent(k) => new.there[1] # "none")
      BY <1>2, <2>1, <2>8 DEF DraftOK, Sent
    <3>2. QED
      BY <1>2, <2>3, <2>10, <3>1, OneChanged
  <2>12. CASE k[1] # "add"
    BY <1>2, <2>3, <2>11, <2>12, AddsOthers
  <2>13. CASE k[1] = "add"
    <3>1. w.sub = "send"
      BY <1>2, <2>3, <2>13 DEF Writes
    <3>2. Asking
      BY <1>2 DEF StandsOK
    <3>3. op.there[try] = "none" /\ LastOf(op.tries) = "open" /\ try = Len(op.tries)
      BY <1>1, <2>1, <2>2, <3>1, <3>2 DEF Asking
    <3>4. k \in Adds /\ Alive(k)
      BY <1>2, <2>1, <2>13, <3>3 DEF Adds, Alive
    <3>5. wechat.drafts = 0
      <4>1. SUFFICES ASSUME wechat.drafts # 0 PROVE FALSE
        OBVIOUS
      <4>2. PICK j \in Adds : Alive(j) /\ LastOf(ops[j].there) \in {"ok", "stuck"}
        BY <4>1 DEF AddsOK
      <4>3. j = k
        BY <3>4, <4>2 DEF AddsOK
      <4>4. LastOf(op.there) = op.there[Len(op.tries)]
        BY <2>1, <2>7 DEF LastOf
      <4>5. QED
        BY <2>1, <3>3, <4>2, <4>3, <4>4
    <3>6. ASSUME NEW n \in DOMAIN new.there
          PROVE  /\ n < Len(new.there) \/ LastOf(new.tries) \notin {"open", "ok"} => new.there[n] \in Refused
                 /\ new.there[n] = "running" => wechat'.drafts = 0
      <4>1. ASSUME n < Len(new.there) PROVE new.there[n] \in Refused
        <5>1. n \in 1..Len(op.tries) /\ n < Len(op.there) /\ n # try
          BY <2>1, <2>4, <3>3, <3>6, <4>1
        <5>2. op.there[n] \in Refused
          BY <2>1, <2>4, <3>4, <5>1 DEF AddsOK
        <5>3. QED
          BY <2>4, <5>1, <5>2
      <4>2. QED
        BY <1>2, <2>4, <3>3, <3>5, <4>1
    <3>7. \A j \in Adds : LastOf(new.tries) \in {"open", "ok"} /\ Alive(j) => j = k
      BY <3>4 DEF AddsOK
    <3>8. AddsOK'
      BY <1>2, <2>3, <2>13, <3>5, <3>6, <3>7, AddChanged
    <3>9. QED
      BY <2>11, <3>8
  <2>14. QED
    BY <2>12, <2>13
<1>5. QED
  BY <1>3, <1>4

LEMMA TargetVerified ==
  ASSUME HoldsOK, RecoveriesOK, NEW s, Target(s) = "draft_verifying"
  PROVE  Verified /\ s # 0
<1>1. \E key \in ResumedKeys : key[3] = s /\ key[2] = "draft_verifying"
  BY TargetIs
<1>2. QED
  BY <1>1, TargetIs DEF RecoveriesOK

\* The adapter finishes a request with a claim: what it did, it did to the draft of the article.
LEMMA ClaimDraft ==
  ASSUME LedgersInv, RecoveriesOK, OperationsOK, DraftOK, AddsOK, d1' = d1, main' = main,
         NEW k \in DOMAIN ops, NEW op, op = ops[k], NEW n \in DOMAIN op.there, op.there[n] = "running",
         NEW claim \in Claims \ {"none", "running"}, NEW new, SetOp(k, new),
         /\ new.tries = op.tries /\ Len(new.there) = Len(op.tries) /\ DOMAIN new.there = 1..Len(op.tries)
         /\ \A m \in 1..Len(op.tries) : new.there[m] = IF m = n THEN claim ELSE op.there[m],
         wechat.mapped => wechat'.mapped, wechat'.mapped => wechat'.content # "none",
         k[1] \in {"add", "find", "findNow"} /\ claim = "ok" => wechat'.mapped,
         IF claim = "ok" /\ k[1] = "map" THEN IF new.value = "none" THEN ~ wechat.mapped ELSE wechat'.mapped
         ELSE k[1] = "map" => new.value = op.value,
         \/ wechat'.drafts = wechat.drafts
         \/ k[1] = "add" /\ wechat'.drafts = wechat.drafts + 1 /\ claim \in {"ok", "stuck"}
  PROVE  DraftStays /\ AddsOK'
<1>1. OperationOK(k, op) /\ op \in OpRecords /\ Len(op.tries) = Len(op.there) /\ Len(op.tries) \in 1..3
  BY DEF OperationsOK, LedgersInv, Typed, OpsTyped
<1>2. DOMAIN op.there = 1..Len(op.tries) /\ Len(op.tries) \in Nat
  BY <1>1 DEF OpRecords
<1>3. n \in 1..Len(op.tries) /\ 1 \in 1..Len(op.tries)
  <2>1. PICK m \in 1..3 : m = Len(op.tries)
    BY <1>1
  <2>2. QED
    BY <1>2, <2>1
<1>4. claim # "none" /\ claim # "running"
  OBVIOUS
<1>5. op.there[1] # "none" => new.there[1] # "none"
  BY <1>3, <1>4
<1>6. OperationOK(k, new)'
  <2>1. MaySend(k[2])' <=> MaySend(k[2])
    BY FactsStay
  <2>2. (Verified' <=> Verified) /\ (Known(k[2])' <=> Known(k[2])) /\ Target(k[2])' = Target(k[2])
    BY FactsStay
  <2>3. \A m \in DOMAIN new.there : new.there[m] = "ok" => claim = "ok" \/ op.there[m] = "ok"
    OBVIOUS
  <2>4. k[1] = "map" /\ new.value # "none" => wechat'.mapped
    BY <1>1 DEF OperationOK
  <2>5. k[1] \in {"add", "find", "findNow"} => \A m \in DOMAIN new.there : new.there[m] = "ok" => wechat'.mapped
    BY <1>1, <1>2, <2>3 DEF OperationOK
  <2>6. ~ wechat.mapped => ~ Verified
    BY DEF DraftOK
  <2>7. ASSUME k[1] = "map", new.value = "none", Target(k[2]) = "draft_verifying"
        PROVE  \A m \in DOMAIN new.there : new.there[m] # "ok"
    <3>1. CASE claim = "ok"
      <4>1. ~ Verified
        BY <2>6, <2>7, <3>1
      <4>2. QED
        BY <2>7, <4>1, Scoped, TargetVerified
    <3>2. CASE claim # "ok"
      BY <1>1, <1>2, <2>3, <2>7, <3>2 DEF OperationOK
    <3>3. QED
      BY <3>1, <3>2
  <2>8. k[1] = "upload" /\ (Len(new.tries) > 1 \/ LastOf(new.tries) # "open") => new.there[1] # "none"
    BY <1>1, <1>5 DEF OperationOK
  <2>9. (OperationOK(k, new))' <=>
        /\ Writes(k) => MaySend(k[2])'
        /\ k[1] \in {"add", "update"} /\ LastOf(new.tries) = "ok" => Verified'
        /\ k[1] = "map" /\ k[2] # 0 => Known(k[2])'
        /\ k[1] = "map" /\ new.value # "none" => wechat'.mapped
        /\ k[1] = "map" /\ new.value = "none" /\ Target(k[2])' = "draft_verifying" => \A m \in DOMAIN new.there : new.there[m] # "ok"
        /\ k[1] \in {"add", "find", "findNow"} => \A m \in DOMAIN new.there : new.there[m] = "ok" => wechat'.mapped
        /\ k[1] = "upload" /\ (Len(new.tries) > 1 \/ LastOf(new.tries) # "open") => new.there[1] # "none"
    BY DEF OperationOK, Writes, LastOf
  <2>10. /\ Writes(k) => MaySend(k[2])
         /\ k[1] \in {"add", "update"} /\ LastOf(new.tries) = "ok" => Verified
         /\ k[1] = "map" /\ k[2] # 0 => Known(k[2])
    BY <1>1 DEF OperationOK
  <2>11. QED
    BY <2>1, <2>2, <2>4, <2>5, <2>7, <2>8, <2>9, <2>10
<1>7. DraftStays
  <2>1. Sent(k) => new.there[1] # "none"
    BY <1>5 DEF Sent
  <2>2. QED
    BY <1>6, <2>1, OneChanged
<1>8. CASE k[1] # "add"
  BY <1>7, <1>8, AddsOthers
<1>9. CASE k[1] = "add"
  <2>1. k \in Adds
    BY <1>9 DEF Adds
  <2>2. ~ (n < Len(op.there)) /\ Alive(k) /\ wechat.drafts = 0
    <3>1. op.there[n] \notin Refused
      BY DEF Refused
    <3>2. QED
      BY <2>1, <3>1 DEF AddsOK
  <2>3. n = Len(op.tries)
    BY <1>1, <1>2, <1>3, <2>2
  <2>4. ASSUME NEW m \in DOMAIN new.there
        PROVE  /\ m < Len(new.there) \/ LastOf(new.tries) \notin {"open", "ok"} => new.there[m] \in Refused
               /\ new.there[m] = "running" => wechat'.drafts = 0
    <3>1. LastOf(new.tries) \in {"open", "ok"}
      BY <2>2 DEF Alive
    <3>2. m < Len(new.there) => new.there[m] \in Refused
      <4>1. SUFFICES ASSUME m < Len(new.there) PROVE new.there[m] \in Refused
        OBVIOUS
      <4>2. m \in 1..Len(op.tries) /\ m < Len(op.there) /\ m # n
        BY <1>1, <2>3, <4>1
      <4>3. op.there[m] \in Refused
        BY <1>2, <2>1, <4>2 DEF AddsOK
      <4>4. QED
        BY <4>2, <4>3
    <3>3. new.there[m] # "running"
      <4>1. CASE m = n
        BY <1>4, <4>1
      <4>2. CASE m # n
        <5>1. m \in 1..Len(op.tries) /\ m < Len(new.there)
          BY <2>3, <4>2, <1>2
        <5>2. QED
          BY <3>2, <5>1 DEF Refused
      <4>3. QED
        BY <4>1, <4>2
    <3>4. QED
      BY <3>1, <3>2, <3>3
  <2>5. \A j \in Adds : LastOf(new.tries) \in {"open", "ok"} /\ Alive(j) => j = k
    BY <2>1, <2>2 DEF AddsOK
  <2>6. \/ wechat'.drafts = 0
        \/ wechat'.drafts = 1 /\ LastOf(new.tries) \in {"open", "ok"} /\ LastOf(new.there) \in {"ok", "stuck"}
    <3>1. LastOf(new.there) = claim
      <4>1. new.there # <<>>
        BY <1>3
      <4>2. LastOf(new.there) = new.there[Len(op.tries)]
        BY <4>1 DEF LastOf
      <4>3. QED
        BY <1>3, <2>3, <4>2
    <3>2. QED
      BY <2>2, <3>1 DEF Alive
  <2>7. AddsOK'
    BY <1>9, <2>4, <2>5, <2>6, AddChanged
  <2>8. QED
    BY <1>7, <2>7
<1>10. QED
  BY <1>8, <1>9

LEMMA ProviderDraft ==
  ASSUME LedgersInv, RecoveriesOK, OperationsOK, DraftOK, AddsOK, Provider
  PROVE  DraftStays /\ AddsOK'
<1>1. PICK k \in DOMAIN ops : \E n \in DOMAIN ops[k].there :
        /\ ops[k].there[n] = "running"
        /\ \/ /\ UNCHANGED faults
              /\ IF k[1] \in {"find", "findNow"} /\ ~ (wechat.drafts = 1 /\ wechat.content = "package")
                 THEN Claim(k, n, "rejected") /\ UNCHANGED wechat
                 ELSE SetOp(k, [ops[k] EXCEPT !.there[n] = "ok", !.value = Found(k)]) /\ wechat' = Wrote(k)
           \/ Fault("service") /\ UNCHANGED wechat /\ \E r \in {"again", "rejected"} : Claim(k, n, r)
           \/ Fault("service") /\ Claim(k, n, "stuck")
              /\ wechat' \in {wechat, IF Writes(k) THEN [Wrote(k) EXCEPT !.mapped = wechat.mapped] ELSE wechat}
           \/ Fault("account") /\ UNCHANGED wechat /\ Claim(k, n, "denied")
  BY DEF Provider
<1>2. d1' = d1 /\ main' = main
  BY DEF Provider
<1>3. PICK n \in DOMAIN ops[k].there :
        /\ ops[k].there[n] = "running"
        /\ \/ UNCHANGED wechat /\ \E r \in {"again", "rejected", "denied"} : Claim(k, n, r)
           \/ Claim(k, n, "stuck") /\ wechat' \in {wechat, IF Writes(k) THEN [Wrote(k) EXCEPT !.mapped = wechat.mapped] ELSE wechat}
           \/ /\ SetOp(k, [ops[k] EXCEPT !.there[n] = "ok", !.value = Found(k)]) /\ wechat' = Wrote(k)
              /\ k[1] \in {"find", "findNow"} => wechat.content = "package"
  BY <1>1
<1>4. PICK op : op = ops[k] /\ op \in OpRecords /\ Op(k) = op /\ Len(op.tries) = Len(op.there)
  BY DEF LedgersInv, Typed, OpsTyped, Op
<1>5. n \in Nat /\ n \in DOMAIN op.there /\ op.there[n] = "running"
  BY <1>3, <1>4 DEF OpRecords
<1>6. wechat \in [drafts : Nat, content : Contents, mapped : BOOLEAN] /\ (wechat.mapped => wechat.content # "none")
  BY DEF LedgersInv, Typed, DraftOK
<1>7. /\ k[1] = "add" => Wrote(k).drafts = wechat.drafts + 1 /\ Wrote(k).content = "package" /\ Wrote(k).mapped
      /\ k[1] # "add" => Wrote(k).drafts = wechat.drafts
      /\ k[1] = "update" => Wrote(k).content = "package" /\ Wrote(k).mapped = wechat.mapped
      /\ k[1] \in {"find", "findNow"} => Wrote(k).content = wechat.content /\ Wrote(k).mapped
      /\ k[1] \notin {"add", "update", "find", "findNow"} => Wrote(k) = wechat
  BY <1>6 DEF Wrote
<1>8. ASSUME NEW claim \in {"again", "rejected", "denied", "stuck"}, Claim(k, n, claim),
             \/ wechat' = wechat
             \/ claim = "stuck" /\ Writes(k) /\ wechat' = [Wrote(k) EXCEPT !.mapped = wechat.mapped]
      PROVE  DraftStays /\ AddsOK'
  <2> DEFINE new == [op EXCEPT !.there[n] = claim]
  <2>1. SetOp(k, new)
    BY <1>4, <1>8 DEF Claim
  <2>2. claim \in Claims \ {"none", "running"} /\ claim # "ok"
    BY DEF Claims
  <2>3. /\ new.tries = op.tries /\ Len(new.there) = Len(op.tries) /\ DOMAIN new.there = 1..Len(op.tries)
        /\ \A m \in 1..Len(op.tries) : new.there[m] = IF m = n THEN claim ELSE op.there[m]
        /\ new.value = op.value
    BY <1>4, <1>5, <2>2, ClaimedOp
  <2> HIDE DEF new
  <2>4. /\ wechat.mapped => wechat'.mapped
        /\ wechat'.mapped => wechat'.content # "none"
        /\ \/ wechat'.drafts = wechat.drafts
           \/ k[1] = "add" /\ wechat'.drafts = wechat.drafts + 1 /\ claim \in {"ok", "stuck"}
    <3>1. CASE wechat' = wechat
      BY <1>6, <3>1
    <3>2. CASE claim = "stuck" /\ Writes(k) /\ wechat' = [Wrote(k) EXCEPT !.mapped = wechat.mapped]
      <4>1. wechat'.mapped = wechat.mapped /\ wechat'.content = Wrote(k).content /\ wechat'.drafts = Wrote(k).drafts
        <5>1. \/ Wrote(k) = [drafts |-> wechat.drafts + 1, content |-> "package", mapped |-> TRUE]
              \/ Wrote(k) = [wechat EXCEPT !.content = "package"]
              \/ Wrote(k) = wechat
          BY <3>2 DEF Wrote, Writes
        <5>2. QED
          BY <1>6, <3>2, <5>1
      <4>2. k[1] \in {"upload", "add", "update"}
        BY <3>2 DEF Writes
      <4>3. QED
        BY <1>6, <1>7, <3>2, <4>1, <4>2
    <3>3. QED
      BY <1>8, <3>1, <3>2
  <2>5. QED
    BY <1>2, <1>4, <1>5, <2>1, <2>2, <2>3, <2>4, ClaimDraft
<1>9. ASSUME SetOp(k, [ops[k] EXCEPT !.there[n] = "ok", !.value = Found(k)]), wechat' = Wrote(k),
             k[1] \in {"find", "findNow"} => wechat.content = "package"
      PROVE  DraftStays /\ AddsOK'
  <2> DEFINE claimed == [op EXCEPT !.there[n] = "ok"]
             new == [claimed EXCEPT !.value = Found(k)]
  <2>1. SetOp(k, new)
    BY <1>4, <1>9
  <2>2. "ok" \in Claims \ {"none", "running"} /\ claimed \in OpRecords
    BY <1>4, <1>5, OperationClaimed DEF Claims
  <2>3. /\ claimed.tries = op.tries /\ Len(claimed.there) = Len(op.tries) /\ DOMAIN claimed.there = 1..Len(op.tries)
        /\ \A m \in 1..Len(op.tries) : claimed.there[m] = IF m = n THEN "ok" ELSE op.there[m]
    BY <1>4, <1>5, <2>2, ClaimedOp
  <2> HIDE DEF claimed
  <2>4. new.tries = claimed.tries /\ new.there = claimed.there /\ new.value = Found(k)
    BY <2>2 DEF OpRecords
  <2> HIDE DEF new
  <2>5. wechat.mapped => wechat'.mapped
    BY <1>7, <1>9
  <2>6. wechat'.mapped => wechat'.content # "none"
    BY <1>6, <1>7, <1>9
  <2>7. k[1] \in {"add", "find", "findNow"} => wechat'.mapped
    BY <1>7, <1>9
  <2>8. k[1] = "map" => IF new.value = "none" THEN ~ wechat.mapped ELSE wechat'.mapped
    <3>1. k[1] = "map" => wechat' = wechat /\ Found(k) = IF ~ wechat.mapped THEN "none" ELSE wechat.content
      BY <1>7, <1>9 DEF Found
    <3>2. QED
      BY <1>6, <2>4, <3>1
  <2>9. \/ wechat'.drafts = wechat.drafts
        \/ k[1] = "add" /\ wechat'.drafts = wechat.drafts + 1
    BY <1>7, <1>9
  <2>10. /\ new.tries = op.tries /\ Len(new.there) = Len(op.tries) /\ DOMAIN new.there = 1..Len(op.tries)
         /\ \A m \in 1..Len(op.tries) : new.there[m] = IF m = n THEN "ok" ELSE op.there[m]
    BY <2>3, <2>4
  <2>11. QED
    BY <1>2, <1>4, <1>5, <2>1, <2>2, <2>5, <2>6, <2>7, <2>8, <2>9, <2>10, ClaimDraft
<1>10. QED
  BY <1>3, <1>8, <1>9

LEMMA EditDraftDraft ==
  ASSUME LedgersInv, OperationsOK, DraftOK, AddsOK, EditDraft
  PROVE  DraftStays /\ AddsOK'
<1>1. wechat'.drafts = wechat.drafts /\ wechat'.mapped = wechat.mapped /\ wechat'.content = "other" /\ UNCHANGED <<d1, main, ops>>
  BY DEF EditDraft, LedgersInv, Typed
<1>2. QED
  BY <1>1, NothingAsked

\* An operation gets a result.
LEMMA ResultDraft ==
  ASSUME LedgersInv, OperationsOK, DraftOK, AddsOK, d1' = d1, main' = main, wechat' = wechat,
         NEW k \in DOMAIN ops, NEW op, op = ops[k], NEW result, NEW new, SetOp(k, new),
         new.there = op.there, new.value = op.value, Len(new.tries) = Len(op.tries), LastOf(new.tries) = result,
         k[1] \in {"add", "update"} /\ result = "ok" => Verified,
         k[1] = "upload" /\ result # "open" => op.there[1] # "none",
         k[1] = "add" => Alive(k) /\ (result \notin {"open", "ok"} => op.there[Len(op.tries)] \in Refused)
  PROVE  DraftStays /\ AddsOK'
<1>1. OperationOK(k, op) /\ op \in OpRecords /\ Len(op.tries) = Len(op.there) /\ Len(op.tries) \in 1..3
  BY DEF OperationsOK, LedgersInv, Typed, OpsTyped
<1>2. DOMAIN op.there = 1..Len(op.tries) /\ Len(op.tries) \in Nat /\ op.there # <<>>
  <2>1. op.there \in Seq(Claims)
    BY <1>1 DEF OpRecords
  <2>2. DOMAIN op.there = 1..Len(op.there) /\ Len(op.there) \in Nat /\ Len(op.there) # 0
    BY <1>1, <2>1
  <2>3. QED
    BY <1>1, <2>2
<1>3. OperationOK(k, new)
  BY <1>1 DEF OperationOK
<1>4. OperationOK(k, new)'
  BY <1>3, FactsStay, OperationStays
<1>5. DraftStays
  <2>1. Sent(k) => new.there[1] # "none"
    BY DEF Sent
  <2>2. (wechat.mapped => wechat'.mapped) /\ (wechat'.mapped => wechat'.content # "none")
    BY DEF DraftOK
  <2>3. QED
    BY <1>4, <2>1, <2>2, OneChanged
<1>6. CASE k[1] # "add"
  BY <1>5, <1>6, AddsOthers
<1>7. CASE k[1] = "add"
  <2>1. k \in Adds /\ Alive(k)
    BY <1>7 DEF Adds
  <2>2. LastOf(op.there) = op.there[Len(op.tries)]
    BY <1>1, <1>2 DEF LastOf
  <2>3. \/ wechat.drafts = 0
        \/ wechat.drafts = 1 /\ LastOf(op.there) \in {"ok", "stuck"}
    BY <2>1 DEF AddsOK
  <2>4. result \notin {"open", "ok"} => wechat.drafts = 0
    BY <1>7, <2>2, <2>3 DEF Refused
  <2>5. ASSUME NEW n \in DOMAIN new.there
        PROVE  /\ n < Len(new.there) \/ LastOf(new.tries) \notin {"open", "ok"} => new.there[n] \in Refused
               /\ new.there[n] = "running" => wechat'.drafts = 0
    <3>1. n < Len(op.there) => op.there[n] \in Refused
      BY <2>1, <2>5 DEF AddsOK
    <3>2. op.there[n] = "running" => wechat.drafts = 0
      BY <2>1, <2>5 DEF AddsOK
    <3>3. n < Len(op.there) \/ n = Len(op.tries)
      BY <1>1, <1>2, <2>5
    <3>4. QED
      BY <1>7, <3>1, <3>2, <3>3
  <2>6. \A j \in Adds : Alive(j) => j = k
    BY <2>1 DEF AddsOK
  <2>7. AddsOK'
    BY <1>7, <2>3, <2>4, <2>5, <2>6, AddChanged
  <2>8. QED
    BY <1>5, <2>7
<1>8. QED
  BY <1>6, <1>7

\* An artifact settles the call that made it.
LEMMA SettleDraft ==
  ASSUME LedgersInv, CallsMade, OperationsOK, DraftOK, AddsOK, StandsOK, Settle
  PROVE  DraftStays /\ AddsOK'
<1>1. PICK k : k = w.settle
  OBVIOUS
<1>2. UNCHANGED <<d1, main, wechat>> /\ w.run = "live" /\ w.pc \in Kinds /\ w.sub = "settle" /\ Walking
  BY DEF Settle, At, Walking
<1>3. k \in DOMAIN ops /\ Settling(k)
  BY <1>1, <1>2 DEF CallsMade, StandsOK
<1>4. PICK op \in OpRecords : op = ops[k] /\ Op(k) = op /\ Len(op.tries) = Len(op.there) /\ Len(op.tries) \in 1..3
  BY <1>3, OperationsHave DEF LedgersInv, Typed
<1>5. k[1] \in {"add", "update"} => Verified
  <2>1. SUFFICES ASSUME k[1] \in {"add", "update"} PROVE Verified
    OBVIOUS
  <2>2. w.pc = "receipt"
    BY <1>2, <1>3, <2>1 DEF Settling, Kinds
  <2>3. Receipted("receipt", w.scope)
    BY <1>2, <2>2 DEF LedgersInv, WalkOK
  <2>4. w.scope \in Nat /\ Projected("receipt", w.scope)
    BY <2>3, Scoped DEF ArtifactsInTurn, Kinds
  <2>5. QED
    BY <2>4 DEF DraftOK
<1>6. k[1] = "upload" => op.there[1] # "none"
  <2>1. SUFFICES ASSUME k[1] = "upload" PROVE op.there[1] # "none"
    OBVIOUS
  <2>2. w.pc = "image" /\ k = <<"upload", w.scope>>
    BY <1>3, <2>1 DEF Settling
  <2>3. Sent(k)
    BY <1>2, <2>2 DEF StandsOK
  <2>4. QED
    BY <1>4, <2>3 DEF Sent
<1>7. PICK o \in Outcomes : SetOp(k, [op EXCEPT !.tries = IF o = "failed" THEN @ ELSE [@ EXCEPT ![Len(@)] = "ok"]])
  BY <1>1, <1>4 DEF Settle
<1>8. CASE o = "failed"
  <2>1. [op EXCEPT !.tries = IF o = "failed" THEN @ ELSE [@ EXCEPT ![Len(@)] = "ok"]] = op
    BY <1>8 DEF OpRecords
  <2>2. SetOp(k, op)
    BY <1>7, <2>1
  <2>3. LastOf(op.tries) \in {"open", "ok"} /\ Alive(k)
    BY <1>3, <1>4 DEF Settling, Alive
  <2>4. QED
    BY <1>2, <1>3, <1>4, <1>5, <1>6, <2>2, <2>3, ResultDraft
<1>9. CASE o # "failed"
  <2> DEFINE new == [op EXCEPT !.tries[Len(op.tries)] = "ok"]
  <2>1. SetOp(k, new)
    BY <1>7, <1>9
  <2>2. new.there = op.there /\ new.value = op.value /\ Len(new.tries) = Len(op.tries) /\ LastOf(new.tries) = "ok"
    BY <1>4, TriedOp DEF TryStates
  <2> HIDE DEF new
  <2>3. Alive(k)
    BY <1>3 DEF Settling
  <2>4. QED
    BY <1>2, <1>3, <1>4, <1>5, <1>6, <2>1, <2>2, <2>3, ResultDraft
<1>10. QED
  BY <1>8, <1>9

\* An answer is recorded.
LEMMA AnswerDraft ==
  ASSUME LedgersInv, CallsMade, OperationsOK, DraftOK, AddsOK, StandsOK, AnswerCall
  PROVE  DraftStays /\ AddsOK'
<1>1. PICK k : k = OpOf(w.pc)
  OBVIOUS
<1>2. /\ UNCHANGED <<d1, main, wechat>> /\ w.run = "live" /\ w.pc \in Calls /\ w.sub = "wait" /\ Walking
      /\ k \in DOMAIN ops /\ w.try \in Nat
  BY <1>1 DEF AnswerCall, At, Walking, CallsMade, LedgersInv, Typed, Instances
<1>3. CASE ops' = ops
  BY <1>2, <1>3, NothingAsked DEF DraftOK
<1>4. CASE ops' # ops
  <2>1. PICK op \in OpRecords : op = ops[k] /\ Op(k) = op /\ Len(op.tries) = Len(op.there) /\ Len(op.tries) \in 1..3
    BY <1>2, OperationsHave DEF LedgersInv, Typed
  <2>2. PICK try \in Nat : try = w.try
    BY <1>2
  <2>3. PICK result \in {"ok", "retryable", "failed"} :
          /\ result = "ok" => w.pc \in {"map", "find", "findNow"}
          /\ result # "ok" => op.there[try] \in Refused
          /\ LastOf(op.tries) \in {"open", result}
          /\ SetOp(k, [op EXCEPT !.tries[Len(op.tries)] = result])
    <3>1. \/ op.there[try] = "ok" /\ w.pc \in {"map", "find", "findNow"} /\ Record(k, "ok", Answered(k))
          \/ op.there[try] = "again" /\ Record(k, "retryable", IF Len(Op(k).tries) < 3 THEN Then("ask") ELSE Fail)
          \/ op.there[try] = "rejected" /\ Record(k, "failed", Rejected)
          \/ op.there[try] = "denied" /\ Record(k, "failed", Hold(NoAccount))
      BY <1>1, <1>4, <2>1, <2>2 DEF AnswerCall
    <3>2. QED
      BY <1>4, <2>1, <3>1 DEF Record, Refused
  <2>4. Asking
    BY <1>2 DEF StandsOK
  <2>5. Alive(k) /\ (LastOf(op.tries) = "open" => try = Len(op.tries))
    BY <1>1, <1>2, <2>1, <2>2, <2>4 DEF Asking
  <2>6. result # "ok" => try = Len(op.tries) /\ op.there[Len(op.tries)] \in Refused
    BY <2>1, <2>3, <2>5 DEF Alive
  <2> DEFINE new == [op EXCEPT !.tries[Len(op.tries)] = result]
  <2>7. SetOp(k, new) /\ result \in TryStates
    BY <2>3 DEF TryStates
  <2>8. new.there = op.there /\ new.value = op.value /\ Len(new.tries) = Len(op.tries) /\ LastOf(new.tries) = result
    BY <2>1, <2>7, TriedOp
  <2> HIDE DEF new
  <2>9. k[1] \in {"add", "update", "upload"} => result # "ok"
    BY <1>1, <1>2, <2>3, OpOfIs
  <2>10. k[1] = "upload" /\ result # "open" => op.there[1] # "none"
    <3>1. SUFFICES ASSUME k[1] = "upload" PROVE op.there[1] # "none"
      OBVIOUS
    <3>2. OperationOK(k, op)
      BY <1>2, <2>1 DEF OperationsOK
    <3>3. CASE Len(op.tries) > 1
      BY <3>1, <3>2, <3>3 DEF OperationOK
    <3>4. CASE Len(op.tries) = 1
      <4>1. op.there[Len(op.tries)] \in Refused
        BY <2>6, <2>9, <3>1
      <4>2. op.there[1] \in Refused
        BY <3>4, <4>1
      <4>3. QED
        BY <4>2 DEF Refused
    <3>5. Len(op.tries) > 1 \/ Len(op.tries) = 1
      <4>1. PICK m \in 1..3 : m = Len(op.tries)
        BY <2>1
      <4>2. QED
        BY <4>1
    <3>6. QED
      BY <3>3, <3>4, <3>5
  <2>11. QED
    BY <1>2, <2>1, <2>5, <2>6, <2>7, <2>8, <2>9, <2>10, ResultDraft
<1>5. QED
  BY <1>3, <1>4

\* What is known of the draft stays true.
LEMMA DraftKept ==
  ASSUME LedgersInv, CallsMade, HoldsOK', RecoveriesOK, ResumesOK, OperationsOK, DraftOK, AddsOK, StandsOK, [DraftNext]_draftVars
  PROVE  DraftStays /\ AddsOK'
<1>1. CASE Ask
  BY <1>1, AskDraft
<1>2. CASE Send
  BY <1>2, SendDraft
<1>3. CASE AnswerCall
  BY <1>3, AnswerDraft
<1>4. CASE Settle
  BY <1>4, SettleDraft
<1>5. CASE Provider
  BY <1>5, ProviderDraft
<1>6. CASE EditDraft
  BY <1>6, EditDraftDraft
<1>7. CASE UNCHANGED <<ops, wechat>>
  BY <1>7, D1Steps, MainSteps, QuietDraft
<1>8. QED
  BY <1>1, <1>2, <1>3, <1>4, <1>5, <1>6, <1>7 DEF DraftNext, Step, Enter, Keep, Commit, Receipt, SyncD1, SyncMain, Verify, ReadyD1,
     ReadyMain, HoldD1, HoldMain, FailD1, FailMain, StopD1, StopMain, ResumeReceipts, ResumeReconciled, ResumeRetrying, ResumeResumed,
     ResumeStep, ResumeMain, EngineRestart, Restart, App, external, draftVars

-----------------------------------------------------------------------------
(* Where the Workflow stands.                                              *)

LEMMA StandsAside ==
  ASSUME w'.run # "live" \/ w'.pc \notin Kinds \cup Calls \cup {"sync"}
  PROVE  StandsOK'
BY DEF StandsOK

LEMMA StandsAtKind ==
  ASSUME w'.pc \in Kinds, w'.sub \in {"keep", "event", "co", "settle"}, NEW s, s = w'.scope, NEW c, c = w'.cycle, s \in {0, c},
         c # 0 => Known(c)', NEW k, k = w'.settle, k = <<>> \/ Settling(k)',
         \/ w'.pc \in {"template", "renderqa", "readback"} \/ (w'.pc = "receipt" /\ w'.sub \in {"co", "settle"})
         \/ Target(s)' = "draft_verifying" \/ (Announced(s)' /\ ~ Verified'),
         w'.pc \in {"receipt", "readback"} => wechat'.mapped, w'.pc = "image" => Sent(<<"upload", s>>)'
  PROVE  StandsOK'
<1>1. w'.pc \notin Calls \cup {"sync"}
  BY DEF Calls, Kinds
<1>2. Target(s)' = Target(w.scope)' /\ (Announced(s)' <=> Announced(w.scope)') /\ (Sent(<<"upload", s>>)' <=> Sent(<<"upload", w.scope>>)')
      /\ (Known(c)' <=> Known(w.cycle)') /\ (Settling(k)' <=> Settling(w.settle)')
  BY DEF Target, Announced, Has, Sent, Known, Settling, Alive, LastOf
<1>3. Past' => w'.pc \notin {"template", "renderqa", "readback"} /\ ~ (w'.pc = "receipt" /\ w'.sub \in {"co", "settle"})
  BY <1>1 DEF Past
<1>4. /\ w'.scope \in {0, w'.cycle} /\ (w'.cycle # 0 => Known(w.cycle)')
      /\ w'.settle = <<>> \/ Settling(w.settle)'
  BY <1>2
<1>5. Past' => Target(w.scope)' = "draft_verifying" \/ (Announced(w.scope)' /\ ~ Verified')
  BY <1>2, <1>3
<1>6. /\ w'.pc \in {"receipt", "read", "readback"} => wechat'.mapped
      /\ w'.pc = "image" => Sent(<<"upload", w.scope>>)'
  BY <1>1, <1>2 DEF Calls
<1>7. /\ (w.pc = "sync")' => FALSE
      /\ (w.pc \in Calls)' => FALSE
  BY <1>1
<1>8. QED
  BY <1>4, <1>5, <1>6, <1>7 DEF StandsOK

LEMMA StandsAtCall ==
  ASSUME w'.pc \in Calls, NEW s, s = w'.scope, NEW c, c = w'.cycle, s \in {0, c},
         c # 0 => Known(c)', NEW k, k = w'.settle, k = <<>> \/ Settling(k)',
         w'.pc = "read" \/ Target(s)' = "draft_verifying" \/ (Announced(s)' /\ ~ Verified'),
         w'.pc = "read" => wechat'.mapped, Asking'
  PROVE  StandsOK'
<1>1. w'.pc \notin Kinds \cup {"sync"}
  BY DEF Calls, Kinds
<1>2. Target(s)' = Target(w.scope)' /\ (Announced(s)' <=> Announced(w.scope)') /\ (Known(c)' <=> Known(w.cycle)')
      /\ (Settling(k)' <=> Settling(w.settle)')
  BY DEF Target, Announced, Has, Known, Settling, Alive, LastOf
<1>3. Past' => w'.pc # "read"
  BY <1>1 DEF Past, Kinds
<1>4. w'.pc \notin {"receipt", "readback", "image"}
  BY <1>1 DEF Kinds
<1>5. QED
  BY <1>1, <1>2, <1>3, <1>4 DEF StandsOK

LEMMA StandsAtSync ==
  ASSUME w'.pc = "sync", w'.sub \in {"d1", "main", "again"}, NEW s, s = w'.scope, NEW c, c = w'.cycle, s \in {0, c},
         c # 0 => Known(c)', w'.settle = <<>>, w'.sub # "d1" => Has(d1, <<"sync", "none", s>>)' /\ ~ Verified'
  PROVE  StandsOK'
<1>1. w'.pc \notin Kinds \cup Calls
  BY DEF Calls, Kinds
<1>2. (Has(d1, <<"sync", "none", s>>)' <=> Has(d1, <<"sync", "none", w.scope>>)') /\ (Known(c)' <=> Known(w.cycle)')
  BY DEF Has, Known
<1>3. ~ Past'
  BY <1>1 DEF Past, Kinds, Calls
<1>4. QED
  BY <1>1, <1>2, <1>3 DEF StandsOK, Kinds, Calls

LEMMA MappedStays ==
  ASSUME LedgersInv, [DraftNext]_draftVars
  PROVE  wechat.mapped => wechat'.mapped
<1>1. CASE Provider
  <2>1. PICK k \in DOMAIN ops :
          wechat' \in {wechat, Wrote(k), IF Writes(k) THEN [Wrote(k) EXCEPT !.mapped = wechat.mapped] ELSE wechat}
    BY <1>1 DEF Provider
  <2>2. wechat \in [drafts : Nat, content : Contents, mapped : BOOLEAN]
    BY DEF LedgersInv, Typed
  <2>3. \/ Wrote(k) = [drafts |-> wechat.drafts + 1, content |-> "package", mapped |-> TRUE]
        \/ Wrote(k) = [wechat EXCEPT !.content = "package"] \/ Wrote(k) = [wechat EXCEPT !.mapped = TRUE] \/ Wrote(k) = wechat
    BY DEF Wrote
  <2>4. wechat.mapped => Wrote(k).mapped
    BY <2>2, <2>3
  <2>5. wechat.mapped => [Wrote(k) EXCEPT !.mapped = wechat.mapped].mapped
    BY <2>2, <2>3
  <2>6. QED
    BY <2>1, <2>4, <2>5
<1>2. CASE EditDraft
  BY <1>2 DEF EditDraft, LedgersInv, Typed
<1>3. CASE UNCHANGED wechat
  BY <1>3
<1>4. QED
  BY <1>1, <1>2, <1>3
  DEF DraftNext, Step, Enter, Keep, Commit, Receipt, SyncD1, SyncMain, Verify, ReadyD1, ReadyMain, HoldD1, HoldMain, FailD1,
      FailMain, StopD1, StopMain, ResumeReceipts, ResumeReconciled, ResumeRetrying, ResumeResumed, ResumeStep, ResumeMain,
      EngineRestart, Restart, App, external, draftVars, Ask, Send, AnswerCall, Settle

LEMMA StepLasts ==
  ASSUME LedgersInv, HoldsOK', RecoveriesOK, ResumesOK, SentStay, [DraftNext]_draftVars
  PROVE  Lasts
<1>1. D1Step /\ MainStep
  BY D1Steps, MainSteps
<1>2. \A key : Has(d1, key) => Has(d1, key)'
  BY <1>1, D1Grows
<1>3. \A key : Has(main, key) => Has(main, key)'
  BY <1>1, MainGrows
<1>4. \A s : Announced(s) => Announced(s)'
  BY <1>2, <1>3, AnnouncedStays
<1>5. d1'.last = d1.last => (Verified' <=> Verified)
  BY DEF Verified
<1>6. QED
  BY <1>1, <1>2, <1>4, <1>5, TargetStays, MappedStays DEF Lasts

LEMMA SettlingStays ==
  ASSUME NEW k, Settling(k), w'.pc = w.pc, w'.scope = w.scope, k \in DOMAIN ops', LastOf(ops'[k].tries) \in {"open", "ok"}
  PROVE  Settling(k)'
BY DEF Settling, Alive, LastOf

\* Others act.
LEMMA StandsStill ==
  ASSUME LedgersInv, StandsOK, Lasts, w' = w, main' = main, Verified' => Verified, DOMAIN ops' = DOMAIN ops,
         \A k \in DOMAIN ops :
           /\ ops'[k].tries = ops[k].tries /\ DOMAIN ops'[k].there = DOMAIN ops[k].there
           /\ \A n \in DOMAIN ops[k].there : ops[k].there[n] = "none" => ops'[k].there[n] = "none"
  PROVE  StandsOK'
<1>1. CASE w.run # "live" \/ w.pc \notin Kinds \cup Calls \cup {"sync"}
  BY <1>1, StandsAside
<1>2. CASE w.run = "live" /\ w.pc \in Kinds \cup Calls \cup {"sync"}
  <2>1. PICK s : s = w.scope
    OBVIOUS
  <2>2. PICK c : c = w.cycle
    OBVIOUS
  <2>3. PICK k : k = w.settle
    OBVIOUS
  <2>4. s \in {0, c} /\ (c # 0 => Known(c)')
    BY <1>2, <2>1, <2>2 DEF StandsOK, Lasts
  <2>5. k = <<>> \/ Settling(k)'
    <3>1. SUFFICES ASSUME k # <<>> PROVE Settling(k)'
      OBVIOUS
    <3>2. Settling(k)
      BY <1>2, <2>3, <3>1 DEF StandsOK
    <3>3. LastOf(ops'[k].tries) \in {"open", "ok"} /\ k \in DOMAIN ops'
      BY <3>2 DEF Settling, Alive, LastOf
    <3>4. QED
      BY <3>2, <3>3, SettlingStays
  <2>6. CASE w.pc \in Kinds
    <3>1. w.sub \in {"keep", "event", "co", "settle"} /\ (w.pc \in {"receipt", "readback"} => wechat'.mapped)
          /\ (w.pc = "image" => Sent(<<"upload", s>>)')
      BY <1>2, <2>1, <2>6 DEF StandsOK, Lasts, SentStay
    <3>2. \/ w.pc \in {"template", "renderqa", "readback"} \/ (w.pc = "receipt" /\ w.sub \in {"co", "settle"})
          \/ Target(s)' = "draft_verifying" \/ (Announced(s)' /\ ~ Verified')
      <4>1. Past \/ w.pc \in {"template", "renderqa", "readback"} \/ (w.pc = "receipt" /\ w.sub \in {"co", "settle"})
        BY <2>6, <3>1 DEF Past, Kinds
      <4>2. Past => Target(s)' = "draft_verifying" \/ (Announced(s)' /\ ~ Verified')
        BY <1>2, <2>1 DEF StandsOK, Lasts
      <4>3. QED
        BY <4>1, <4>2
    <3>3. QED
      BY <2>1, <2>2, <2>3, <2>4, <2>5, <2>6, <3>1, <3>2, StandsAtKind
  <2>7. CASE w.pc \in Calls
    <3>1. Asking /\ (w.pc = "read" => wechat'.mapped)
      BY <1>2, <2>7 DEF StandsOK, Lasts
    <3>2. w.pc = "read" \/ Target(s)' = "draft_verifying" \/ (Announced(s)' /\ ~ Verified')
      <4>1. Past \/ w.pc = "read"
        BY <2>7 DEF Past
      <4>2. QED
        BY <1>2, <2>1, <4>1 DEF StandsOK, Lasts
    <3>3. Asking'
      <4>1. PICK key : key = OpOf(w.pc)
        OBVIOUS
      <4>2. OpOf(w.pc)' = key
        BY <4>1 DEF OpOf
      <4>3. w.sub # "ask" =>
              /\ key \in DOMAIN ops' /\ Alive(key)' /\ w.try \in DOMAIN ops'[key].there
              /\ LastOf(ops'[key].tries) = "open" => w.try = Len(ops'[key].tries)
              /\ w.sub = "send" => ops'[key].there[w.try] = "none" /\ LastOf(ops'[key].tries) = "open"
        BY <3>1, <4>1 DEF Asking, Alive, LastOf
      <4>4. \A j \in Adds' : j \in Adds /\ (Alive(j)' => Alive(j))
        BY DEF Adds, Alive, LastOf
      <4>5. w.pc = "write" /\ w.mutation = "add" /\ w.sub = "ask" => \A j \in Adds' : ~ Alive(j)'
        BY <3>1, <4>4 DEF Asking
      <4>6. w.sub \in {"ask", "send", "query", "wait"} /\ (w.pc = "write" /\ w.mutation = "update" => wechat'.mapped)
        BY <3>1 DEF Asking, Lasts
      <4>7. QED
        BY <4>2, <4>3, <4>5, <4>6 DEF Asking
    <3>4. QED
      BY <2>1, <2>2, <2>3, <2>4, <2>5, <2>7, <3>1, <3>2, <3>3, StandsAtCall
  <2>8. CASE w.pc = "sync"
    <3>1. w.sub \in {"d1", "main", "again"} /\ (w.sub # "d1" => Has(d1, <<"sync", "none", s>>)' /\ ~ Verified')
      BY <1>2, <2>1, <2>8 DEF StandsOK, Lasts
    <3>2. k = <<>>
      BY <1>2, <2>3, <2>8 DEF StandsOK, Settling
    <3>3. QED
      BY <2>1, <2>2, <2>3, <2>4, <2>8, <3>1, <3>2, StandsAtSync
  <2>9. QED
    BY <1>2, <2>6, <2>7, <2>8
<1>3. QED
  BY <1>1, <1>2

LEMMA OthersStand ==
  ASSUME LedgersInv, StandsOK, Lasts, Provider \/ App \/ EditDraft \/ UNCHANGED draftVars
  PROVE  StandsOK'
<1>1. w' = w /\ main' = main
  BY DEF Provider, App, EditDraft, draftVars
<1>2. CASE Provider
  <2>1. PICK k \in DOMAIN ops : \E n \in DOMAIN ops[k].there : ops[k].there[n] = "running" /\
          \/ SetOp(k, [ops[k] EXCEPT !.there[n] = "ok", !.value = Found(k)])
          \/ \E claim \in {"again", "rejected", "stuck", "denied"} : Claim(k, n, claim)
    BY <1>2 DEF Provider
  <2>2. PICK n \in DOMAIN ops[k].there : ops[k].there[n] = "running" /\
          \/ SetOp(k, [ops[k] EXCEPT !.there[n] = "ok", !.value = Found(k)])
          \/ \E claim \in {"again", "rejected", "stuck", "denied"} : Claim(k, n, claim)
    BY <2>1
  <2>3. PICK op \in OpRecords : op = ops[k] /\ Op(k) = op
    BY OperationsHave DEF LedgersInv, Typed
  <2>4. PICK new : SetOp(k, new) /\ new.tries = op.tries /\ DOMAIN new.there = DOMAIN op.there
                   /\ \A m \in DOMAIN op.there : m # n => new.there[m] = op.there[m]
    <3>1. CASE SetOp(k, [ops[k] EXCEPT !.there[n] = "ok", !.value = Found(k)])
      <4> DEFINE new == [op EXCEPT !.there[n] = "ok", !.value = Found(k)]
      <4>1. new.tries = op.tries /\ DOMAIN new.there = DOMAIN op.there /\ \A m \in DOMAIN op.there : m # n => new.there[m] = op.there[m]
        BY <2>3 DEF OpRecords
      <4>2. SetOp(k, new)
        BY <2>3, <3>1
      <4> HIDE DEF new
      <4>3. QED
        BY <4>1, <4>2
    <3>2. ASSUME NEW claim, Claim(k, n, claim)
          PROVE  \E new : SetOp(k, new) /\ new.tries = op.tries /\ DOMAIN new.there = DOMAIN op.there
                   /\ \A m \in DOMAIN op.there : m # n => new.there[m] = op.there[m]
      <4> DEFINE new == [op EXCEPT !.there[n] = claim]
      <4>1. new.tries = op.tries /\ DOMAIN new.there = DOMAIN op.there /\ \A m \in DOMAIN op.there : m # n => new.there[m] = op.there[m]
        BY <2>3 DEF OpRecords
      <4>2. SetOp(k, new)
        BY <2>3, <3>2 DEF Claim
      <4> HIDE DEF new
      <4>3. QED
        BY <4>1, <4>2
    <3>3. QED
      BY <2>2, <3>1, <3>2
  <2>5. DOMAIN ops' = DOMAIN ops /\ \A j \in DOMAIN ops : ops'[j] = IF j = k THEN new ELSE ops[j]
    BY <2>4 DEF SetOp
  <2>6. Verified' => Verified
    BY <1>2 DEF Provider, Verified
  <2>7. op.there[n] # "none"
    BY <2>2, <2>3
  <2>8. \A j \in DOMAIN ops :
           /\ ops'[j].tries = ops[j].tries /\ DOMAIN ops'[j].there = DOMAIN ops[j].there
           /\ \A m \in DOMAIN ops[j].there : ops[j].there[m] = "none" => ops'[j].there[m] = "none"
    BY <2>3, <2>4, <2>5, <2>7
  <2>9. QED
    BY <1>1, <2>5, <2>6, <2>8, StandsStill
<1>3. CASE App
  <2>1. ops' = ops
    BY <1>3 DEF App, external
  <2>2. d1'.last = d1.last
    <3>1. PICK target \in {"cancelled", "retrying", d1.last}, what \in {"cancel", "retry", "resume"} :
            d1' = WithEvent(d1, target, <<"app", what, Len(d1.log)>>, "none")
      BY <1>3, AppWrites
    <3>2. QED
      BY <3>1 DEF WithEvent, ExceptionalStates
  <2>3. Verified' => Verified
    BY <2>2 DEF Verified
  <2>4. QED
    BY <1>1, <2>1, <2>3, StandsStill
<1>4. CASE EditDraft \/ UNCHANGED draftVars
  <2>1. ops' = ops /\ (Verified' => Verified)
    BY <1>4 DEF EditDraft, draftVars, Verified
  <2>2. QED
    BY <1>1, <2>1, StandsStill
<1>5. QED
  BY <1>2, <1>3, <1>4

\* Only a recovery at the last checkpoint skips the one before the uploads.
LEMMA BeyondSyncing ==
  ASSUME HoldsOK, NEW s, artifactState("package", s) # "draft_syncing"
  PROVE  Target(s) = "draft_verifying"
<1>1. StateOf("package") = "draft_syncing"
  BY DEF StateOf
<1>2. Target(s) \in WECHAT_RESUMABLE_STATES /\ Rank(Target(s)) > Rank("draft_syncing")
  BY <1>1, TargetIsCheckpoint DEF artifactState
<1>3. /\ DOMAIN Checkpoints = 1..5 /\ Checkpoints[1] = "visual_ready" /\ Checkpoints[2] = "formatting" /\ Checkpoints[3] = "visual_qa"
      /\ Checkpoints[4] = "draft_syncing" /\ Checkpoints[5] = "draft_verifying"
  BY DEF Checkpoints
<1>4. \A x \in WECHAT_RESUMABLE_STATES : Rank(x) \in 1..5 /\ Checkpoints[Rank(x)] = x
  <2>1. \A x \in WECHAT_RESUMABLE_STATES : \E n \in 1..5 : Checkpoints[n] = x
    BY <1>3 DEF WECHAT_RESUMABLE_STATES
  <2>2. \A x \in WECHAT_RESUMABLE_STATES : Rank(x) \in DOMAIN Checkpoints /\ Checkpoints[Rank(x)] = x
    BY <1>3, <2>1 DEF Rank
  <2>3. QED
    BY <1>3, <2>2
<1>5. "draft_syncing" \in WECHAT_RESUMABLE_STATES
  BY Vocabulary
<1>6. Rank("draft_syncing") = 4
  <2>1. Rank("draft_syncing") \in 1..5 /\ Checkpoints[Rank("draft_syncing")] = "draft_syncing"
    BY <1>4, <1>5
  <2>2. QED
    BY <1>3, <2>1
<1>7. Rank(Target(s)) = 5
  <2>1. Rank(Target(s)) \in 1..5
    BY <1>2, <1>4
  <2>2. QED
    BY <1>2, <1>6, <2>1
<1>8. Checkpoints[Rank(Target(s))] = Target(s)
  BY <1>2, <1>4
<1>9. QED
  BY <1>3, <1>7, <1>8

\* An artifact's stage goes on.
LEMMA KindStays ==
  ASSUME LedgersInv, StandsOK, Lasts, w.run = "live", w.pc \in Kinds, ops' = ops, w'.pc = w.pc, w'.scope = w.scope,
         w'.cycle = w.cycle, w'.settle = w.settle, w'.sub \in {"event", "co", "settle"},
         w.pc = "receipt" /\ w'.sub = "event" => w.sub = "keep", NEW s, s = w.scope,
         \/ d1'.last = d1.last \/ ~ Verified' \/ Target(s) = "draft_verifying"
         \/ w.pc \in {"template", "renderqa", "readback"} \/ (w.pc = "receipt" /\ w'.sub # "event")
  PROVE  StandsOK'
<1>1. PICK c : c = w.cycle
  OBVIOUS
<1>2. PICK k : k = w.settle
  OBVIOUS
<1>3. s \in {0, c} /\ (c # 0 => Known(c)')
  BY <1>1 DEF StandsOK, Lasts
<1>4. k = <<>> \/ Settling(k)'
  <2>1. SUFFICES ASSUME k # <<>> PROVE Settling(k)'
    OBVIOUS
  <2>2. Settling(k)
    BY <1>2, <2>1 DEF StandsOK
  <2>3. LastOf(ops'[k].tries) \in {"open", "ok"} /\ k \in DOMAIN ops'
    BY <2>2 DEF Settling, Alive, LastOf
  <2>4. QED
    BY <2>2, <2>3, SettlingStays
<1>5. (w.pc \in {"receipt", "readback"} => wechat'.mapped) /\ (w.pc = "image" => Sent(<<"upload", s>>)')
  BY DEF StandsOK, Lasts, SentStay
<1>6. \/ w'.pc \in {"template", "renderqa", "readback"} \/ (w'.pc = "receipt" /\ w'.sub \in {"co", "settle"})
      \/ Target(s)' = "draft_verifying" \/ (Announced(s)' /\ ~ Verified')
  <2>1. Past \/ w.pc \in {"template", "renderqa", "readback"} \/ (w.pc = "receipt" /\ w'.sub \in {"co", "settle"})
    BY DEF Past, Kinds
  <2>2. Past => Target(s) = "draft_verifying" \/ (Announced(s) /\ ~ Verified)
    BY DEF StandsOK
  <2>3. Target(s) = "draft_verifying" => Target(s)' = "draft_verifying"
    BY DEF Lasts
  <2>4. Announced(s) /\ ~ Verified => Announced(s)' /\ (d1'.last = d1.last => ~ Verified')
    BY DEF Lasts
  <2>5. QED
    BY <2>1, <2>2, <2>3, <2>4
<1>7. QED
  BY <1>1, <1>2, <1>3, <1>4, <1>5, <1>6, StandsAtKind

\* An artifact is done with, and the call that made it.
LEMMA FollowStands ==
  ASSUME LedgersInv, StandsOK, Lasts, w.run = "live", w.pc \in Kinds, d1' = d1, w'.pc = Following(w.pc),
         w'.sub = FirstSub(w'.pc), w'.scope = w.scope, w'.cycle = w.cycle, w'.settle = <<>>,
         w.pc = "receipt" => w.sub # "keep"
  PROVE  StandsOK'
<1>1. PICK s \in Nat : s = w.scope
  BY DEF LedgersInv, Typed, Instances
<1>2. PICK c : c = w.cycle
  OBVIOUS
<1>3. s \in {0, c} /\ (c # 0 => Known(c)')
  BY <1>1, <1>2 DEF StandsOK, Lasts
<1>4. Past => Target(s)' = "draft_verifying" \/ (Announced(s)' /\ ~ Verified')
  <2>1. Past => Target(s) = "draft_verifying" \/ (Announced(s) /\ ~ Verified)
    BY <1>1 DEF StandsOK
  <2>2. QED
    BY <2>1 DEF Lasts
<1>5. w.pc \in {"receipt", "readback"} => wechat'.mapped
  BY DEF StandsOK, Lasts
<1>6. CASE w.pc = "template"
  <2>1. w'.pc = "renderqa" /\ w'.sub = "keep"
    BY <1>6 DEF Following, FirstSub, Kinds, Calls
  <2>2. QED
    BY <1>1, <1>2, <1>3, <2>1, StandsAtKind DEF Kinds
<1>7. CASE w.pc = "renderqa"
  <2>1. CASE artifactState("package", s) = "draft_syncing"
    <3>1. w'.pc = "sync" /\ w'.sub = "d1"
      BY <1>1, <1>7, <2>1 DEF Following, FirstSub, Kinds, Calls
    <3>2. QED
      BY <1>1, <1>2, <1>3, <3>1, StandsAtSync
  <2>2. CASE artifactState("package", s) # "draft_syncing"
    <3>1. w'.pc = "upload" /\ w'.sub = "ask"
      BY <1>1, <1>7, <2>2 DEF Following, FirstSub, Kinds, Calls
    <3>2. Target(s) = "draft_verifying"
      BY <1>1, <2>2, BeyondSyncing DEF LedgersInv
    <3>3. Target(s)' = "draft_verifying" /\ Asking'
      BY <3>1, <3>2 DEF Asking, Lasts
    <3>4. QED
      BY <1>1, <1>2, <1>3, <3>1, <3>3, StandsAtCall DEF Calls
  <2>3. QED
    BY <2>1, <2>2
<1>8. CASE w.pc = "image"
  <2>1. w'.pc = "package" /\ w'.sub = "keep" /\ Past
    BY <1>8 DEF Following, FirstSub, Kinds, Calls, Past
  <2>2. QED
    BY <1>1, <1>2, <1>3, <1>4, <2>1, StandsAtKind DEF Kinds
<1>9. CASE w.pc = "package"
  <2>1. w'.pc = "preqa" /\ w'.sub = "keep" /\ Past
    BY <1>9 DEF Following, FirstSub, Kinds, Calls, Past
  <2>2. QED
    BY <1>1, <1>2, <1>3, <1>4, <2>1, StandsAtKind DEF Kinds
<1>10. CASE w.pc = "preqa"
  <2>1. w'.pc = "map" /\ w'.sub = "ask" /\ Past
    BY <1>10 DEF Following, FirstSub, Kinds, Calls, Past
  <2>2. Asking'
    BY <2>1 DEF Asking
  <2>3. QED
    BY <1>1, <1>2, <1>3, <1>4, <2>1, <2>2, StandsAtCall DEF Calls
<1>11. CASE w.pc = "receipt"
  <2>1. CASE w'.pc = "readback"
    <3>1. w'.sub = "keep"
      BY <2>1 DEF FirstSub, Kinds, Calls
    <3>2. QED
      BY <1>1, <1>2, <1>3, <1>5, <1>11, <2>1, <3>1, StandsAtKind DEF Kinds
  <2>2. CASE w'.pc = "read"
    <3>1. w'.sub = "ask"
      BY <2>2 DEF FirstSub, Kinds, Calls
    <3>2. Asking'
      BY <2>2, <3>1 DEF Asking
    <3>3. QED
      BY <1>1, <1>2, <1>3, <1>5, <1>11, <2>2, <3>2, StandsAtCall DEF Calls
  <2>3. QED
    BY <1>11, <2>1, <2>2 DEF Following
<1>12. CASE w.pc = "readback"
  <2>1. w'.pc = "verify"
    BY <1>12 DEF Following
  <2>2. QED
    BY <2>1, StandsAside DEF Kinds, Calls
<1>13. QED
  BY <1>6, <1>7, <1>8, <1>9, <1>10, <1>11, <1>12 DEF Kinds

LEMMA CommittedStands ==
  ASSUME LedgersInv, StandsOK, Lasts, w.run = "live", w.pc \in Kinds, d1' = d1, ops' = ops,
         w.sub \in {"event", "co"}, Committed
  PROVE  StandsOK'
<1>1. w \in Instances
  BY DEF LedgersInv, Typed
<1>2. CASE w.pc \in {"image", "receipt", "readback"} /\ w.settle # <<>>
  <2>1. PICK s : s = w.scope
    OBVIOUS
  <2>2. w' = [w EXCEPT !.pc = w.pc, !.sub = "settle"]
    BY <1>2 DEF Committed, Then, Goto
  <2>3. w'.pc = w.pc /\ w'.scope = w.scope /\ w'.cycle = w.cycle /\ w'.settle = w.settle /\ w'.sub = "settle"
    BY <1>1, <2>2 DEF Instances
  <2>4. QED
    BY <2>1, <2>3, KindStays
<1>3. CASE ~ (w.pc \in {"image", "receipt", "readback"} /\ w.settle # <<>>)
  <2>1. w.settle = <<>>
    BY <1>3 DEF StandsOK, Settling, Kinds
  <2>2. Continue
    BY <1>3 DEF Committed
  <2>3. CASE Hold(Mismatch)
    BY <1>1, <2>3, PcAfter, StandsAside DEF Kinds, Calls
  <2>4. CASE Begin(Following(w.pc))
    <3>1. PICK next : next = Following(w.pc)
      OBVIOUS
    <3>2. w' = [w EXCEPT !.pc = next, !.sub = FirstSub(next)]
      BY <2>4, <3>1 DEF Begin, Goto
    <3>3. w'.pc = next /\ w'.scope = w.scope /\ w'.cycle = w.cycle /\ w'.settle = w.settle /\ w'.sub = FirstSub(next)
      BY <1>1, <3>2 DEF Instances
    <3>4. QED
      BY <2>1, <3>1, <3>3, FollowStands
  <2>5. QED
    BY <2>2, <2>3, <2>4 DEF Continue
<1>4. QED
  BY <1>2, <1>3

\* The artifact's steps.
LEMMA KeepStands ==
  ASSUME LedgersInv, StandsOK, Lasts, Keep
  PROVE  StandsOK'
<1>1. w \in Instances /\ w.run = "live" /\ w.pc \in Kinds /\ w.sub = "keep" /\ d1' = d1 /\ ops' = ops
  BY DEF LedgersInv, Typed, Keep, At, external
<1>2. CASE Hold(Unknown)
  BY <1>1, <1>2, PcAfter, StandsAside DEF Kinds, Calls
<1>3. CASE Then("event")
  <2>1. PICK s : s = w.scope
    OBVIOUS
  <2>2. w'.pc = w.pc /\ w'.scope = w.scope /\ w'.cycle = w.cycle /\ w'.settle = w.settle /\ w'.sub = "event"
    BY <1>1, <1>3 DEF Instances, Then, Goto
  <2>3. QED
    BY <1>1, <2>1, <2>2, KindStays
<1>4. QED
  BY <1>2, <1>3 DEF Keep

LEMMA CommitStands ==
  ASSUME LedgersInv, HoldsOK, StandsOK, Lasts, D1Step, Commit
  PROVE  StandsOK'
<1>1. w \in Instances /\ w.run = "live" /\ w.pc \in Kinds /\ w.sub = "event" /\ ops' = ops
  BY DEF LedgersInv, Typed, Commit, At, external
<1>2. PICK s \in Nat : s = w.scope
  BY <1>1 DEF Instances
<1>3. CASE \E code : Hold(code)
  BY <1>1, <1>3, PcAfter, StandsAside DEF Kinds, Calls
<1>4. CASE Committed /\ d1' = d1
  BY <1>1, <1>4, CommittedStands
<1>5. CASE Then("co")
  <2>1. w'.pc = w.pc /\ w'.scope = w.scope /\ w'.cycle = w.cycle /\ w'.settle = w.settle /\ w'.sub = "co"
    BY <1>1, <1>5 DEF Instances, Then, Goto
  <2>2. \/ d1'.last = d1.last \/ ~ Verified' \/ Target(s) = "draft_verifying"
        \/ w.pc \in {"template", "renderqa", "readback", "receipt"}
    <3>1. SUFFICES ASSUME d1'.last # d1.last, Verified', w.pc \notin {"template", "renderqa", "readback", "receipt"}
                   PROVE  Target(s) = "draft_verifying"
      OBVIOUS
    <3>2. CASE Verified
      <4>1. Past
        BY <1>1, <3>1 DEF Past, Kinds
      <4>2. QED
        BY <1>1, <1>2, <3>2, <4>1 DEF StandsOK
    <3>3. CASE ~ Verified
      <4>1. artifactState(w.pc, s) = "draft_verifying"
        BY <1>2, <3>1, <3>3, D1Grows
      <4>2. QED
        BY <1>1, <1>2, <3>1, <4>1, StateOfIs
    <3>4. QED
      BY <3>2, <3>3
  <2>3. QED
    BY <1>1, <1>2, <2>1, <2>2, KindStays
<1>6. QED
  BY <1>1, <1>3, <1>4, <1>5 DEF Commit, TryMain, TryD1

LEMMA ReceiptStands ==
  ASSUME LedgersInv, StandsOK, Lasts, Receipt
  PROVE  StandsOK'
<1>1. w \in Instances /\ w.run = "live" /\ w.pc \in Kinds /\ w.sub = "co" /\ ops' = ops /\ d1' = d1
  BY DEF LedgersInv, Typed, Receipt, At, external
<1>2. CASE \E code : Hold(code)
  BY <1>1, <1>2, PcAfter, StandsAside DEF Kinds, Calls
<1>3. CASE Committed
  BY <1>1, <1>3, CommittedStands
<1>4. QED
  BY <1>2, <1>3 DEF Receipt, TryMain

LEMMA SettleStands ==
  ASSUME LedgersInv, StandsOK, Lasts, Settle
  PROVE  StandsOK'
<1>1. w \in Instances /\ w.run = "live" /\ w.pc \in Kinds /\ w.sub = "settle" /\ d1' = d1
  BY DEF LedgersInv, Typed, Settle, At
<1>2. CASE \E code : Hold(code)
  BY <1>1, <1>2, PcAfter, StandsAside DEF Kinds, Calls
<1>3. CASE w' = [w EXCEPT !.pc = Following(w.pc), !.sub = FirstSub(Following(w.pc)), !.settle = <<>>]
  <2>1. PICK next : next = Following(w.pc)
    OBVIOUS
  <2>2. w' = [w EXCEPT !.pc = next, !.sub = FirstSub(next), !.settle = <<>>]
    BY <1>3, <2>1
  <2>3. w'.pc = next /\ w'.scope = w.scope /\ w'.cycle = w.cycle /\ w'.settle = <<>> /\ w'.sub = FirstSub(next)
    BY <1>1, <2>2 DEF Instances
  <2>4. QED
    BY <1>1, <2>1, <2>3, FollowStands
<1>4. QED
  BY <1>2, <1>3 DEF Settle

\* The checkpoint before the uploads.
LEMMA SyncD1Stands ==
  ASSUME LedgersInv, StandsOK, Lasts, SyncD1
  PROVE  StandsOK'
<1>1. w \in Instances /\ w.run = "live" /\ w.pc = "sync" /\ w.sub = "d1"
  BY DEF LedgersInv, Typed, SyncD1, At
<1>2. PICK s \in Nat : s = w.scope
  BY <1>1 DEF Instances
<1>3. PICK key : key = <<"sync", "none", s>>
  OBVIOUS
<1>4. CASE \E code : Hold(code)
  BY <1>1, <1>4, PcAfter, StandsAside DEF Kinds, Calls
<1>5. CASE Then("main") /\ Has(d1, key)' /\ ~ Verified'
  <2>1. PICK c : c = w.cycle
    OBVIOUS
  <2>2. w'.pc = "sync" /\ w'.scope = s /\ w'.cycle = c /\ w'.settle = w.settle /\ w'.sub = "main"
    BY <1>1, <1>2, <1>5, <2>1 DEF Instances, Then, Goto
  <2>3. s \in {0, c} /\ (c # 0 => Known(c)') /\ w.settle = <<>>
    BY <1>1, <1>2, <2>1 DEF StandsOK, Lasts, Settling
  <2>4. QED
    BY <1>3, <1>5, <2>2, <2>3, StandsAtSync
<1>6. CASE ~ \E code : Hold(code)
  <2>1. MaySync(key)
    BY <1>2, <1>3, <1>6 DEF SyncD1
  <2>2. CASE Has(d1, key)
    <3>1. d1.state = "draft_syncing" /\ d1' = d1 /\ Then("main")
      BY <1>2, <1>3, <1>6, <2>1, <2>2 DEF SyncD1, MaySync
    <3>2. d1.last = "draft_syncing"
      BY <3>1 DEF LedgersInv, RowsOK, D1Row, Moving, WECHAT_RESUMABLE_STATES, Checkpoints
    <3>3. Has(d1, key)' /\ ~ Verified'
      BY <2>2, <3>1, <3>2 DEF Lasts, Verified
    <3>4. QED
      BY <1>5, <3>1, <3>3
  <2>3. CASE ~ Has(d1, key)
    <3>1. \E o \in Outcomes : WriteD1("draft_syncing", key, "none", TRUE, o) /\ o = "done" /\ Then("main")
      BY <1>2, <1>3, <1>6, <2>1, <2>3 DEF SyncD1, TryD1
    <3>2. d1' = WithEvent(d1, "draft_syncing", key, "none") /\ Then("main")
      BY <3>1 DEF WriteD1
    <3>3. d1'.last = "draft_syncing" /\ d1'.log = Append(d1.log, key)
      BY <3>2 DEF WithEvent, ExceptionalStates
    <3>4. key \in LogKeys /\ d1 \in Rows
      BY <1>3, KeysAreKeys DEF LedgersInv, Typed
    <3>5. Has(d1, key)'
      BY <3>3, <3>4, D1Log
    <3>6. QED
      BY <1>5, <3>2, <3>3, <3>5 DEF Verified
  <2>4. QED
    BY <2>2, <2>3
<1>7. QED
  BY <1>4, <1>6

LEMMA SyncMainStands ==
  ASSUME LedgersInv, StandsOK, Lasts, SyncMain
  PROVE  StandsOK'
<1>1. w \in Instances /\ w.run = "live" /\ w.pc = "sync" /\ w.sub # "d1" /\ d1' = d1 /\ main \in Rows /\ Walking
  BY DEF LedgersInv, Typed, SyncMain, At, Walking
<1>2. PICK s \in Nat : s = w.scope
  BY <1>1 DEF Instances
<1>3. PICK key \in LogKeys : key = <<"sync", "none", s>>
  BY KeysAreKeys
<1>4. PICK c : c = w.cycle
  OBVIOUS
<1>5. s \in {0, c} /\ (c # 0 => Known(c)') /\ w.settle = <<>> /\ Has(d1, key) /\ ~ Verified
  BY <1>1, <1>2, <1>3, <1>4 DEF StandsOK, Lasts, Settling
<1>6. Has(d1, key)' /\ ~ Verified'
  BY <1>1, <1>5 DEF Lasts
<1>7. CASE \E code : Hold(code)
  BY <1>1, <1>7, PcAfter, StandsAside DEF Kinds, Calls
<1>8. CASE Then("again")
  <2>1. w'.pc = "sync" /\ w'.scope = s /\ w'.cycle = c /\ w'.settle = w.settle /\ w'.sub = "again"
    BY <1>1, <1>2, <1>4, <1>8 DEF Instances, Then, Goto
  <2>2. QED
    BY <1>3, <1>5, <1>6, <2>1, StandsAtSync
<1>9. CASE Begin("upload") /\ Has(main, key)'
  <2>1. w'.pc = "upload" /\ w'.scope = s /\ w'.cycle = c /\ w'.settle = w.settle /\ w'.sub = "ask"
    BY <1>1, <1>2, <1>4, <1>9 DEF Instances, Begin, Goto, FirstSub, Calls
  <2>2. Announced(s)'
    BY <1>3, <1>6, <1>9 DEF Announced
  <2>3. Asking'
    BY <2>1 DEF Asking
  <2>4. QED
    BY <1>5, <1>6, <2>1, <2>2, <2>3, StandsAtCall DEF Calls
<1>10. CASE ~ (\E code : Hold(code)) /\ ~ Then("again")
  <2>1. CASE Has(main, key) /\ main.state = "draft_syncing"
    <3>1. Begin("upload") /\ main' = main
      BY <1>2, <1>3, <2>1 DEF SyncMain
    <3>2. Has(main, key)'
      BY <2>1, <3>1 DEF Has
    <3>3. QED
      BY <1>9, <3>1, <3>2
  <2>2. CASE ~ (Has(main, key) /\ main.state = "draft_syncing")
    <3>1. \E o \in Outcomes : WriteMain("draft_syncing", key, "none", o) /\ o # "failed" /\ Begin("upload")
      BY <1>2, <1>3, <1>10, <2>2 DEF SyncMain, TryMain
    <3>2. main' = WithEvent(main, "draft_syncing", key, "none") /\ Begin("upload")
      BY <3>1 DEF WriteMain
    <3>3. main'.log = Append(main.log, key)
      BY <3>2 DEF WithEvent
    <3>4. Has(main, key)'
      BY <1>1, <3>3, MainLog
    <3>5. QED
      BY <1>9, <3>2, <3>4
  <2>3. QED
    BY <2>1, <2>2
<1>11. QED
  BY <1>7, <1>8, <1>10

\* The phase begins, and the rest of the run.
LEMMA BegunStands ==
  ASSUME w \in Instances, NEW state, NEW scope, NEW cycle, StartInner(state, scope, cycle), scope \in {0, cycle},
         cycle # 0 => Known(cycle)'
  PROVE  StandsOK'
<1>1. CASE w'.pc = "verify"
  BY <1>1, StandsAside DEF Kinds, Calls
<1>2. CASE w'.pc # "verify"
  <2>1. w' = [w EXCEPT !.pc = "template", !.sub = "keep", !.scope = scope, !.cycle = cycle,
                       !.draft = "none", !.mutation = "add", !.settle = <<>>]
    BY <1>2 DEF StartInner, Instances
  <2>2. w'.pc = "template" /\ w'.sub = "keep" /\ w'.scope = scope /\ w'.cycle = cycle /\ w'.settle = <<>>
    BY <2>1 DEF Instances
  <2>3. QED
    BY <2>2, StandsAtKind DEF Kinds
<1>3. QED
  BY <1>1, <1>2

LEMMA EnterStands ==
  ASSUME LedgersInv, Enter
  PROVE  StandsOK'
<1>1. w \in Instances /\ w.run = "live"
  BY DEF LedgersInv, Typed, Enter, At
<1>2. CASE \E state : StartInner(state, 0, 0)
  BY <1>1, <1>2, BegunStands
<1>3. CASE (\E how \in {"done", "errored"} : Stop(how)) \/ (\E code : Hold(code))
  BY <1>1, <1>3, PcAfter, StandsAside DEF Kinds, Calls
<1>4. CASE w'.pc \in {"ready", "resume"}
  BY <1>4, StandsAside DEF Kinds, Calls
<1>5. QED
  <2>1. \/ \E state : StartInner(state, 0, 0)
        \/ \E how \in {"done", "errored"} : Stop(how)
        \/ \E code : Hold(code)
        \/ w' = [w EXCEPT !.pc = "ready", !.sub = "main", !.scope = TheOne(Passing)]
        \/ w' = [w EXCEPT !.pc = "resume", !.sub = "receipts", !.code = main.code]
    BY DEF Enter
  <2>2. QED
    BY <1>1, <1>2, <1>3, <1>4, <2>1 DEF Instances

LEMMA ResumeMainStands ==
  ASSUME LedgersInv, ResumesOK, ResumeMain
  PROVE  StandsOK'
<1>1. w \in Instances /\ w.run = "live" /\ Resuming /\ w.sub = "main" /\ w.code \in HoldCodes /\ d1' = d1
  BY DEF LedgersInv, Typed, ResumeMain, At, Resuming, Instances
<1>2. PICK cycle : cycle = cycleOf(w.code)
  OBVIOUS
<1>3. CASE \E code : Hold(code)
  BY <1>1, <1>3, PcAfter, StandsAside DEF Kinds, Calls
<1>4. CASE StartInner(d1.last, IF RequiresFreshEpoch(w.code) THEN cycle ELSE 0, cycle)
  <2>1. HoldsWith(w.code) # {}
    BY <1>1 DEF LedgersInv, ScopesOK
  <2>2. Latest(w.code, cycle) /\ cycle \in 1..Holds /\ Holds \in Nat
    BY <1>1, <1>2, <2>1, CycleIsLatest, HoldsCounted DEF LedgersInv
  <2>3. cycle \in Nat
    BY <2>2
  <2>4. Has(d1, <<"resumed", d1.last, cycle>>)
    BY <1>1, <2>2, <2>3 DEF ResumesOK
  <2>5. <<"resumed", d1.last, cycle>> \in ResumedKeys
    <3>1. PICK key : key = <<"resumed", d1.last, cycle>>
      OBVIOUS
    <3>2. Has(d1, key) /\ key[1] = "resumed"
      BY <2>4, <3>1
    <3>3. key \in ResumedKeys
      BY <3>2 DEF Has, ResumedKeys, Tagged
    <3>4. QED
      BY <3>1, <3>3
  <2>6. Known(cycle)
    BY <2>5 DEF Known
  <2>7. Known(cycle)'
    BY <1>1, <2>6, D1Facts
  <2>8. QED
    BY <1>1, <1>4, <2>7, BegunStands
<1>5. QED
  BY <1>2, <1>3, <1>4 DEF ResumeMain, TryMain

LEMMA RestStands ==
  ASSUME LedgersInv,
         \/ Verify \/ ReadyD1 \/ ReadyMain \/ HoldD1 \/ HoldMain \/ FailD1 \/ FailMain
         \/ ResumeReceipts \/ ResumeReconciled \/ ResumeRetrying \/ ResumeResumed \/ EngineRestart \/ Restart
  PROVE  StandsOK'
<1>1. w \in Instances
  BY DEF LedgersInv, Typed
<1>2. CASE w' = Instance
  BY <1>2, StandsAside DEF Instance, Kinds, Calls
<1>3. CASE \E how \in {"done", "errored"} : Stop(how)
  BY <1>1, <1>3, PcAfter, StandsAside
<1>4. CASE (\E code : Hold(code)) \/ Begin("ready")
  BY <1>1, <1>4, PcAfter, StandsAside DEF Kinds, Calls
<1>5. CASE w.pc \in {"ready", "hold", "fail", "resume"} /\ \E sub : Then(sub)
  BY <1>1, <1>5, PcAfter, StandsAside DEF Kinds, Calls
<1>6. CASE EngineRestart \/ Restart
  BY <1>2, <1>6 DEF EngineRestart, Restart
<1>7. CASE Verify
  BY <1>4, <1>7 DEF Verify
<1>8. CASE ReadyD1 \/ ReadyMain
  BY <1>3, <1>4, <1>5, <1>8 DEF ReadyD1, ReadyMain, TryD1, At
<1>9. CASE HoldD1 \/ HoldMain \/ FailD1 \/ FailMain
  BY <1>3, <1>4, <1>5, <1>9 DEF HoldD1, HoldMain, FailD1, FailMain, StopD1, StopMain, TryD1, At
<1>10. CASE ResumeReceipts
  BY <1>4, <1>5, <1>10 DEF ResumeReceipts, TryMain, At
<1>11. CASE ResumeReconciled \/ ResumeRetrying \/ ResumeResumed
  BY <1>4, <1>5, <1>11 DEF ResumeReconciled, ResumeRetrying, ResumeResumed, ResumeStep, At
<1>12. QED
  BY <1>6, <1>7, <1>8, <1>9, <1>10, <1>11

\* A call goes on.
LEMMA OpOfStays ==
  ASSUME NEW k, k = OpOf(w.pc), main' = main, w'.pc = w.pc, w'.scope = w.scope, w'.cycle = w.cycle, w'.mutation = w.mutation
  PROVE  OpOf(w.pc)' = k
BY DEF OpOf

LEMMA CallStands ==
  ASSUME LedgersInv, StandsOK, Lasts, w.run = "live", w.pc \in Calls, d1' = d1, w'.pc = w.pc, w'.scope = w.scope,
         w'.cycle = w.cycle, w'.settle = w.settle, Asking',
         \A k \in DOMAIN ops : Settling(k) => k \in DOMAIN ops' /\ LastOf(ops'[k].tries) \in {"open", "ok"}
  PROVE  StandsOK'
<1>1. PICK s : s = w.scope
  OBVIOUS
<1>2. PICK c : c = w.cycle
  OBVIOUS
<1>3. PICK k : k = w.settle
  OBVIOUS
<1>4. s \in {0, c} /\ (c # 0 => Known(c)')
  BY <1>1, <1>2 DEF StandsOK, Lasts
<1>5. k = <<>> \/ Settling(k)'
  <2>1. SUFFICES ASSUME k # <<>> PROVE Settling(k)'
    OBVIOUS
  <2>2. Settling(k) /\ k \in DOMAIN ops
    BY <1>3, <2>1 DEF StandsOK, Settling
  <2>3. k \in DOMAIN ops' /\ LastOf(ops'[k].tries) \in {"open", "ok"}
    BY <2>2
  <2>4. QED
    BY <2>2, <2>3, SettlingStays
<1>6. w.pc = "read" => wechat'.mapped
  BY DEF StandsOK, Lasts
<1>7. w.pc = "read" \/ Target(s)' = "draft_verifying" \/ (Announced(s)' /\ ~ Verified')
  <2>1. w.pc = "read" \/ Past
    BY DEF Past
  <2>2. Past => Target(s) = "draft_verifying" \/ (Announced(s) /\ ~ Verified)
    BY <1>1 DEF StandsOK
  <2>3. QED
    BY <2>1, <2>2 DEF Lasts
<1>8. QED
  BY <1>1, <1>2, <1>3, <1>4, <1>5, <1>6, <1>7, StandsAtCall

LEMMA AskStands ==
  ASSUME LedgersInv, CallsMade, StandsOK, Lasts, Ask
  PROVE  StandsOK'
<1>1. PICK k : k = OpOf(w.pc)
  OBVIOUS
<1>2. PICK op \in OpRecords : op = Op(k) /\ Len(op.tries) = Len(op.there) /\ Len(op.tries) \in 0..3
                              /\ (k \in DOMAIN ops => op = ops[k] /\ Len(op.tries) \in 1..3)
  BY OperationsHave DEF LedgersInv, Typed
<1>3. UNCHANGED <<d1, main, wechat>> /\ w.run = "live" /\ w.pc \in Calls /\ w.sub = "ask" /\ w \in Instances
  BY DEF Ask, At, LedgersInv, Typed
<1>4. Asking /\ (w.pc = "write" /\ w.mutation = "update" => wechat'.mapped)
  BY <1>3 DEF StandsOK, Asking
<1>5. CASE (\E code : Hold(code)) \/ Fail
  BY <1>3, <1>5, PcAfter, StandsAside DEF Kinds, Calls
<1>6. ASSUME NEW sub \in {"send", "query"}, NEW n, w' = [w EXCEPT !.sub = sub, !.try = n],
             k \in DOMAIN ops', Alive(k)', n \in DOMAIN ops'[k].there,
             LastOf(ops'[k].tries) = "open" => n = Len(ops'[k].tries),
             sub = "send" => ops'[k].there[n] = "none" /\ LastOf(ops'[k].tries) = "open",
             \A j \in DOMAIN ops : j # k => j \in DOMAIN ops' /\ ops'[j] = ops[j]
      PROVE  StandsOK'
  <2>1. /\ w'.pc = w.pc /\ w'.scope = w.scope /\ w'.cycle = w.cycle /\ w'.settle = w.settle /\ w'.mutation = w.mutation
        /\ w'.sub = sub /\ w'.try = n
    BY <1>3, <1>6 DEF Instances
  <2>2. OpOf(w.pc)' = k
    BY <1>1, <1>3, <2>1, OpOfStays
  <2>3. Asking'
    BY <1>4, <1>6, <2>1, <2>2 DEF Asking
  <2>4. \A j \in DOMAIN ops : Settling(j) => j \in DOMAIN ops' /\ LastOf(ops'[j].tries) \in {"open", "ok"}
    BY <1>6 DEF Settling, Alive, LastOf
  <2>5. QED
    BY <1>3, <2>1, <2>3, <2>4, CallStands
<1>7. CASE LastOf(op.tries) \in {"open", "ok"} /\ ops' = ops
           /\ w' = [w EXCEPT !.sub = "query", !.try = IF LastOf(op.tries) = "ok" THEN 1 ELSE Len(op.tries)]
  <2>1. PICK n : n = IF LastOf(op.tries) = "ok" THEN 1 ELSE Len(op.tries)
    OBVIOUS
  <2>2. k \in DOMAIN ops
    BY <1>2, <1>7 DEF Op, NoOp, LastOf
  <2>3. op = ops[k] /\ n \in 1..Len(op.tries)
    <3>1. PICK m \in 1..3 : m = Len(op.tries)
      BY <1>2, <2>2
    <3>2. 1 \in 1..m /\ m \in 1..m
      <4>1. m \in Int /\ 1 <= m
        OBVIOUS
      <4>2. QED
        BY <4>1
    <3>3. n = 1 \/ n = m
      BY <2>1, <3>1
    <3>4. QED
      BY <1>2, <2>2, <3>1, <3>2, <3>3
  <2>4. DOMAIN op.there = 1..Len(op.tries)
    BY <1>2 DEF OpRecords
  <2>5. Alive(k)'
    BY <1>7, <2>3 DEF Alive, LastOf
  <2>6. QED
    BY <1>6, <1>7, <2>1, <2>2, <2>3, <2>4, <2>5
<1>8. CASE ops' # ops /\ w' = [w EXCEPT !.sub = "send", !.try = Len(op.tries) + 1]
  <2> DEFINE new == [op EXCEPT !.tries = Append(@, "open"), !.there = Append(@, "none")]
  <2>1. SetOp(k, new)
    BY <1>1, <1>2, <1>8 DEF Ask
  <2>2. /\ Len(new.tries) = Len(op.tries) + 1 /\ LastOf(new.tries) = "open" /\ DOMAIN new.there = 1..(Len(op.tries) + 1)
        /\ new.there[Len(op.tries) + 1] = "none" /\ Len(op.tries) \in Nat
    BY <1>2, AskedOp
  <2> HIDE DEF new
  <2>3. k \in DOMAIN ops' /\ ops'[k] = new /\ \A j \in DOMAIN ops : j # k => j \in DOMAIN ops' /\ ops'[j] = ops[j]
    BY <2>1 DEF SetOp
  <2>4. Alive(k)'
    BY <2>2, <2>3 DEF Alive, LastOf
  <2>5. Len(op.tries) + 1 \in 1..(Len(op.tries) + 1)
    BY <2>2
  <2>6. PICK n : n = Len(op.tries) + 1
    OBVIOUS
  <2>7. QED
    BY <1>6, <1>8, <2>2, <2>3, <2>4, <2>5, <2>6
<1>9. QED
  <2>1. \/ LastOf(op.tries) \in {"open", "ok"} /\ ops' = ops
           /\ w' = [w EXCEPT !.sub = "query", !.try = IF LastOf(op.tries) = "ok" THEN 1 ELSE Len(op.tries)]
        \/ (\E code : Hold(code)) \/ Fail
        \/ /\ SetOp(k, [op EXCEPT !.tries = Append(@, "open"), !.there = Append(@, "none")])
           /\ w' = [w EXCEPT !.sub = "send", !.try = Len(op.tries) + 1]
    BY <1>1, <1>2 DEF Ask
  <2>2. SetOp(k, [op EXCEPT !.tries = Append(@, "open"), !.there = Append(@, "none")]) => ops' # ops
    <3> DEFINE new == [op EXCEPT !.tries = Append(@, "open"), !.there = Append(@, "none")]
    <3>1. SUFFICES ASSUME SetOp(k, new), ops' = ops PROVE FALSE
      OBVIOUS
    <3>2. k \in DOMAIN ops /\ ops[k] = new
      BY <3>1 DEF SetOp
    <3>3. Len(new.tries) = Len(op.tries) + 1 /\ Len(op.tries) \in Nat
      BY <1>2, AskedOp
    <3>4. op = new
      BY <1>2, <3>2
    <3> HIDE DEF new
    <3>5. QED
      BY <3>3, <3>4
  <2>3. QED
    BY <1>5, <1>7, <1>8, <2>1, <2>2

LEMMA NotKnownStands ==
  ASSUME LedgersInv, CallsMade, StandsOK, Lasts, w.run = "live", w.pc \in Calls, w.sub \in {"send", "query", "wait"}, d1' = d1, ops' = ops,
         NEW k, k = OpOf(w.pc), NotKnown(k)
  PROVE  StandsOK'
<1>1. w \in Instances
  BY DEF LedgersInv, Typed
<1>2. CASE k[1] # "add"
  <2>1. Hold(Unknown)
    BY <1>2 DEF NotKnown
  <2>2. QED
    BY <1>1, <2>1, PcAfter, StandsAside DEF Kinds, Calls
<1>3. CASE k[1] = "add"
  <2>1. PICK s : s = w.scope
    OBVIOUS
  <2>2. PICK c : c = w.cycle
    OBVIOUS
  <2>3. w' = [w EXCEPT !.pc = "findNow", !.sub = "ask", !.settle = k]
    BY <1>3 DEF NotKnown
  <2>4. w'.pc = "findNow" /\ w'.sub = "ask" /\ w'.settle = k /\ w'.scope = s /\ w'.cycle = c
    BY <1>1, <2>1, <2>2, <2>3 DEF Instances
  <2>5. k \in DOMAIN ops /\ Alive(k)
    BY DEF StandsOK, Asking
  <2>6. Settling(k)'
    BY <1>3, <2>4, <2>5 DEF Settling, Alive, LastOf
  <2>7. w.pc = "write"
    BY <1>3, OpOfIs DEF CallsMade, Walking
  <2>8. s \in {0, c} /\ (c # 0 => Known(c)')
    BY <2>1, <2>2 DEF StandsOK, Lasts
  <2>9. Target(s)' = "draft_verifying" \/ (Announced(s)' /\ ~ Verified')
    <3>1. Past
      BY <2>7 DEF Past, Calls
    <3>2. QED
      BY <2>1, <3>1 DEF StandsOK, Lasts
  <2>10. Asking'
    BY <2>4 DEF Asking
  <2>11. QED
    BY <2>4, <2>6, <2>8, <2>9, <2>10, StandsAtCall DEF Calls
<1>4. QED
  BY <1>2, <1>3

LEMMA SendStands ==
  ASSUME LedgersInv, CallsMade, StandsOK, Lasts, Send
  PROVE  StandsOK'
<1>1. PICK k : k = OpOf(w.pc)
  OBVIOUS
<1>2. /\ UNCHANGED <<d1, main, wechat>> /\ w.run = "live" /\ w.pc \in Calls /\ w.sub \in {"send", "query"} /\ Walking
      /\ k \in DOMAIN ops /\ w.try \in Nat /\ w \in Instances
  BY <1>1 DEF Send, At, Walking, CallsMade, LedgersInv, Typed, Instances
<1>3. CASE NotKnown(k) /\ ops' = ops
  BY <1>1, <1>2, <1>3, NotKnownStands
<1>4. CASE Then("wait")
  <2>1. /\ w'.pc = w.pc /\ w'.scope = w.scope /\ w'.cycle = w.cycle /\ w'.settle = w.settle /\ w'.mutation = w.mutation
        /\ w'.sub = "wait" /\ w'.try = w.try
    BY <1>2, <1>4 DEF Instances, Then, Goto
  <2>2. OpOf(w.pc)' = k
    BY <1>1, <1>2, <2>1, OpOfStays
  <2>3. PICK op \in OpRecords : op = ops[k] /\ Op(k) = op
    BY <1>2, OperationsHave DEF LedgersInv, Typed
  <2>4. ops' = ops \/ SetOp(k, [op EXCEPT !.there[w.try] = "running"])
    BY <1>1, <1>2, <2>3 DEF Send, Claim
  <2>5. k \in DOMAIN ops' /\ ops'[k].tries = op.tries /\ DOMAIN ops'[k].there = DOMAIN op.there
        /\ \A j \in DOMAIN ops : j \in DOMAIN ops' /\ ops'[j].tries = ops[j].tries
    <3>1. [op EXCEPT !.there[w.try] = "running"].tries = op.tries /\ DOMAIN [op EXCEPT !.there[w.try] = "running"].there = DOMAIN op.there
      BY <2>3 DEF OpRecords
    <3>2. CASE ops' = ops
      BY <1>2, <2>3, <3>2
    <3>3. CASE SetOp(k, [op EXCEPT !.there[w.try] = "running"])
      <4> DEFINE new == [op EXCEPT !.there[w.try] = "running"]
      <4>1. new.tries = op.tries /\ DOMAIN new.there = DOMAIN op.there /\ SetOp(k, new)
        BY <3>1, <3>3
      <4> HIDE DEF new
      <4>2. QED
        BY <1>2, <2>3, <4>1 DEF SetOp
    <3>4. QED
      BY <2>4, <3>2, <3>3
  <2>6. Asking
    BY <1>2 DEF StandsOK
  <2>7. Asking'
    BY <1>1, <1>2, <2>1, <2>2, <2>3, <2>5, <2>6 DEF Asking, Alive, LastOf
  <2>8. \A j \in DOMAIN ops : Settling(j) => j \in DOMAIN ops' /\ LastOf(ops'[j].tries) \in {"open", "ok"}
    BY <2>5 DEF Settling, Alive, LastOf
  <2>9. QED
    BY <1>2, <2>1, <2>7, <2>8, CallStands
<1>5. QED
  BY <1>1, <1>3, <1>4 DEF Send

\* A call's result takes the Workflow on.
LEMMA AnsweredStands ==
  ASSUME LedgersInv, CallsMade, RecoveriesOK, OperationsOK, AddsOK, StandsOK, Lasts, UNCHANGED <<d1, main, wechat>>,
         w.run = "live", w.pc \in Calls, w.sub = "wait", NEW k, k = OpOf(w.pc), k \in DOMAIN ops,
         NEW op \in OpRecords, op = ops[k], Op(k) = op, Len(op.tries) = Len(op.there), NEW try \in DOMAIN op.there, try = w.try,
         op.there[try] = "ok", DOMAIN ops' = DOMAIN ops, \A j \in DOMAIN ops : j # k => ops'[j] = ops[j],
         w.pc \in {"upload", "write", "read"} => ops'[k] = ops[k], Answered(k)
  PROVE  StandsOK'
<1>1. w \in Instances
  BY DEF LedgersInv, Typed
<1>2. PICK s \in Nat : s = w.scope
  BY <1>1 DEF Instances
<1>3. PICK c : c = w.cycle
  OBVIOUS
<1>4. s \in {0, c} /\ (c # 0 => Known(c)')
  BY <1>2, <1>3 DEF StandsOK, Lasts
<1>5. Asking /\ Alive(k) /\ (LastOf(op.tries) = "open" => try = Len(op.tries)) /\ OperationOK(k, op)
  BY DEF StandsOK, Asking, OperationsOK
<1>6. w.pc # "read" => Target(s)' = "draft_verifying" \/ (Announced(s)' /\ ~ Verified')
  <2>1. w.pc # "read" => Past
    BY DEF Past
  <2>2. QED
    BY <1>2, <2>1 DEF StandsOK, Lasts
<1>7. /\ k[1] = "map" => w.pc = "map" /\ k[2] = c
      /\ k[1] \in {"add", "update"} => w.pc = "write"
      /\ w.pc = "upload" => k = <<"upload", s>>
      /\ w.pc = "write" => k[1] = w.mutation /\ w.mutation \in {"add", "update"}
      /\ w.pc \in {"find", "findNow", "read", "map", "upload"} => k[1] = w.pc
  BY <1>2, <1>3, OpOfIs DEF CallsMade, Walking
<1>8. CASE w.pc = "upload"
  <2>1. w' = [w EXCEPT !.pc = "image", !.sub = "keep", !.settle = k]
    BY <1>8 DEF Answered, Following
  <2>2. w'.pc = "image" /\ w'.sub = "keep" /\ w'.settle = k /\ w'.scope = s /\ w'.cycle = c
    BY <1>1, <1>2, <1>3, <2>1 DEF Instances
  <2>3. Settling(k)'
    BY <1>2, <1>5, <1>7, <1>8, <2>2 DEF Settling, Alive, LastOf
  <2>4. op.there[1] # "none"
    <3>1. try \in 1..Len(op.tries) /\ Len(op.tries) \in Nat
      BY DEF OpRecords
    <3>2. CASE Len(op.tries) > 1 \/ LastOf(op.tries) # "open"
      BY <1>7, <1>8, <1>5, <3>2 DEF OperationOK
    <3>3. CASE ~ (Len(op.tries) > 1) /\ LastOf(op.tries) = "open"
      <4>1. try = 1
        BY <3>1, <3>3
      <4>2. QED
        BY <4>1
    <3>4. QED
      BY <3>2, <3>3
  <2>5. Sent(k)
    BY <2>4 DEF Sent
  <2>6. Sent(<<"upload", s>>)'
    <3>1. Sent(k)'
      BY <2>5 DEF Lasts, SentStay
    <3>2. QED
      BY <1>7, <1>8, <3>1
  <2>7. QED
    BY <1>4, <1>6, <1>8, <2>2, <2>3, <2>6, StandsAtKind DEF Kinds
<1>9. CASE w.pc = "write"
  <2>1. w' = [w EXCEPT !.pc = "receipt", !.sub = "keep", !.settle = k]
    BY <1>9 DEF Answered, Following
  <2>2. w'.pc = "receipt" /\ w'.sub = "keep" /\ w'.settle = k /\ w'.scope = s /\ w'.cycle = c
    BY <1>1, <1>2, <1>3, <2>1 DEF Instances
  <2>3. Settling(k)'
    BY <1>5, <1>7, <1>9, <2>2 DEF Settling, Alive, LastOf
  <2>4. wechat'.mapped
    <3>1. CASE w.mutation = "update"
      BY <1>5, <1>9, <3>1 DEF Asking
    <3>2. CASE w.mutation = "add"
      BY <1>5, <1>7, <1>9, <3>2 DEF OperationOK
    <3>3. QED
      BY <1>7, <1>9, <3>1, <3>2
  <2>5. QED
    BY <1>4, <1>6, <1>9, <2>2, <2>3, <2>4, StandsAtKind DEF Kinds
<1>10. CASE w.pc = "read"
  <2>1. w' = [w EXCEPT !.pc = "readback", !.sub = "keep", !.settle = k, !.draft = op.value]
    BY <1>10 DEF Answered
  <2>2. w'.pc = "readback" /\ w'.sub = "keep" /\ w'.settle = k /\ w'.scope = s /\ w'.cycle = c
    BY <1>1, <1>2, <1>3, <2>1 DEF Instances
  <2>3. Settling(k)'
    BY <1>5, <1>7, <1>10, <2>2 DEF Settling, Alive, LastOf
  <2>4. wechat'.mapped
    BY <1>10 DEF StandsOK
  <2>5. QED
    BY <1>4, <2>2, <2>3, <2>4, StandsAtKind DEF Kinds
<1>11. CASE w.pc = "findNow"
  <2>1. PICK j : j = w.settle
    OBVIOUS
  <2>2. w' = [w EXCEPT !.pc = "receipt", !.sub = "keep"]
    BY <1>11 DEF Answered
  <2>3. w'.pc = "receipt" /\ w'.sub = "keep" /\ w'.settle = j /\ w'.scope = s /\ w'.cycle = c
    BY <1>1, <1>2, <1>3, <2>1, <2>2 DEF Instances
  <2>4. j = <<>> \/ Settling(j)'
    <3>1. SUFFICES ASSUME j # <<>> PROVE Settling(j)'
      OBVIOUS
    <3>2. Settling(j) /\ j[1] \in {"add", "update"}
      BY <1>11, <2>1, <3>1 DEF StandsOK, Settling
    <3>3. j # k
      BY <1>7, <1>11, <3>2
    <3>4. QED
      BY <2>3, <3>2, <3>3 DEF Settling, Alive, LastOf
  <2>5. wechat'.mapped
    BY <1>5, <1>7, <1>11 DEF OperationOK
  <2>6. QED
    BY <1>4, <1>6, <1>11, <2>3, <2>4, <2>5, StandsAtKind DEF Kinds
<1>12. CASE w.pc = "find"
  <2>1. PICK j : j = TheOne(OpenWrites)
    OBVIOUS
  <2>2. w' = [w EXCEPT !.pc = "receipt", !.sub = "keep", !.mutation = "found", !.draft = op.value, !.settle = j]
    BY <1>12, <2>1 DEF Answered
  <2>3. w'.pc = "receipt" /\ w'.sub = "keep" /\ w'.settle = j /\ w'.scope = s /\ w'.cycle = c
    BY <1>1, <1>2, <1>3, <2>2 DEF Instances
  <2>4. j \in OpenWrites
    BY <1>12, <2>1, OneOf DEF CallsMade, Walking
  <2>5. j \in DOMAIN ops /\ LastOf(ops[j].tries) = "open" /\ j[1] \in {"add", "update"}
    BY <2>4 DEF OpenWrites, Open
  <2>6. Settling(j)'
    <3>1. j # k
      BY <1>7, <1>12, <2>5
    <3>2. QED
      BY <2>3, <2>5, <3>1 DEF Settling, Alive, LastOf
  <2>7. wechat'.mapped
    BY <1>5, <1>7, <1>12 DEF OperationOK
  <2>8. QED
    BY <1>4, <1>6, <1>12, <2>3, <2>6, <2>7, StandsAtKind DEF Kinds
<1>13. CASE w.pc = "map"
  <2>1. w.settle = <<>>
    BY <1>13 DEF StandsOK, Settling
  <2>2. CASE op.value = "package"
    <3>1. w' = [w EXCEPT !.pc = "receipt", !.sub = "keep", !.mutation = "noop", !.draft = op.value]
      BY <1>13, <2>2 DEF Answered
    <3>2. w'.pc = "receipt" /\ w'.sub = "keep" /\ w'.settle = <<>> /\ w'.scope = s /\ w'.cycle = c
      BY <1>1, <1>2, <1>3, <2>1, <3>1 DEF Instances
    <3>3. wechat'.mapped
      BY <1>5, <1>7, <1>13, <2>2 DEF OperationOK
    <3>4. QED
      BY <1>4, <1>6, <1>13, <3>2, <3>3, StandsAtKind DEF Kinds
  <2>3. CASE op.value = "none" /\ OpenWrites # {}
    <3>1. w' = [w EXCEPT !.pc = "find", !.sub = "ask"]
      BY <1>13, <2>3 DEF Answered, Begin, Goto, FirstSub, Calls
    <3>2. w'.pc = "find" /\ w'.sub = "ask" /\ w'.settle = <<>> /\ w'.scope = s /\ w'.cycle = c
      BY <1>1, <1>2, <1>3, <2>1, <3>1 DEF Instances
    <3>3. Asking'
      BY <3>2 DEF Asking
    <3>4. QED
      BY <1>4, <1>6, <1>13, <3>2, <3>3, StandsAtCall DEF Calls
  <2>4. CASE op.value # "package" /\ ~ (op.value = "none" /\ OpenWrites # {})
    <3>1. PICK mutation : mutation = IF op.value = "none" THEN "add" ELSE "update"
      OBVIOUS
    <3>2. w' = [w EXCEPT !.pc = "write", !.sub = "ask", !.mutation = mutation]
      BY <1>13, <2>4, <3>1 DEF Answered
    <3>3. w'.pc = "write" /\ w'.sub = "ask" /\ w'.settle = <<>> /\ w'.scope = s /\ w'.cycle = c /\ w'.mutation = mutation
      BY <1>1, <1>2, <1>3, <2>1, <3>2 DEF Instances
    <3>4. mutation = "update" => wechat'.mapped
      BY <1>5, <1>7, <1>13, <3>1 DEF OperationOK
    <3>5. ASSUME mutation = "add", NEW j \in Adds
          PROVE  ~ Alive(j)
      <4>1. op.value = "none" /\ OpenWrites = {}
        BY <2>4, <3>1, <3>5
      <4>2. LastOf(ops[j].tries) # "open"
        BY <4>1 DEF OpenWrites, Open, Adds
      <4>3. ASSUME LastOf(ops[j].tries) = "ok" PROVE FALSE
        <5>1. j[1] = "add" /\ j \in DOMAIN ops
          BY DEF Adds
        <5>2. Verified
          <6>1. PICK other : other = ops[j]
            OBVIOUS
          <6>2. OperationOK(j, other)
            BY <5>1, <6>1 DEF OperationsOK
          <6>3. QED
            BY <4>3, <5>1, <6>1, <6>2 DEF OperationOK
        <5>3. Target(s) = "draft_verifying"
          <6>1. Past
            BY <1>13 DEF Past, Calls
          <6>2. QED
            BY <1>2, <5>2, <6>1 DEF StandsOK
        <5>4. s # 0 /\ s = c
          BY <1>4, <5>3, TargetVerified DEF LedgersInv
        <5>5. k[1] = "map" /\ k[2] = s
          BY <1>7, <1>13, <5>4
        <5>6. QED
          BY <1>5, <4>1, <5>3, <5>5 DEF OperationOK
      <4>4. QED
        BY <4>2, <4>3 DEF Alive
    <3>6. mutation = "add" => \A j \in Adds' : ~ Alive(j)'
      <4>1. ASSUME mutation = "add", NEW j \in Adds'
            PROVE  ~ Alive(j)'
        <5>1. j \in Adds /\ j # k
          BY <1>7, <1>13, <4>1 DEF Adds
        <5>2. ops'[j] = ops[j] /\ ~ Alive(j)
          BY <3>5, <4>1, <5>1 DEF Adds
        <5>3. QED
          BY <5>2 DEF Alive, LastOf
      <4>2. QED
        BY <4>1
    <3>7. Asking'
      BY <3>3, <3>4, <3>6 DEF Asking
    <3>8. QED
      BY <1>4, <1>6, <1>13, <3>3, <3>7, StandsAtCall DEF Calls
  <2>5. QED
    BY <2>2, <2>3, <2>4
<1>14. QED
  BY <1>8, <1>9, <1>10, <1>11, <1>12, <1>13 DEF Calls

LEMMA AnswerStands ==
  ASSUME LedgersInv, CallsMade, RecoveriesOK, OperationsOK, AddsOK, StandsOK, Lasts, AnswerCall
  PROVE  StandsOK'
<1>1. PICK k : k = OpOf(w.pc)
  OBVIOUS
<1>2. /\ UNCHANGED <<d1, main, wechat>> /\ w.run = "live" /\ w.pc \in Calls /\ w.sub = "wait" /\ Walking
      /\ k \in DOMAIN ops /\ w \in Instances
  BY <1>1 DEF AnswerCall, At, Walking, CallsMade, LedgersInv, Typed
<1>3. PICK op \in OpRecords : op = ops[k] /\ Op(k) = op /\ Len(op.tries) = Len(op.there) /\ Len(op.tries) \in 1..3
  BY <1>2, OperationsHave DEF LedgersInv, Typed
<1>4. Asking /\ Alive(k) /\ w.try \in DOMAIN op.there
  BY <1>1, <1>2, <1>3 DEF StandsOK, Asking
<1>5. PICK try \in DOMAIN op.there : try = w.try
  BY <1>4
<1>6. CASE NotKnown(k) /\ ops' = ops
  BY <1>1, <1>2, <1>6, NotKnownStands
<1>7. CASE (\E code : Hold(code)) \/ Fail
  BY <1>2, <1>7, PcAfter, StandsAside DEF Kinds, Calls
<1>8. ASSUME NEW result, SetOp(k, [op EXCEPT !.tries[Len(op.tries)] = result])
      PROVE  /\ DOMAIN ops' = DOMAIN ops /\ \A j \in DOMAIN ops : j # k => ops'[j] = ops[j]
             /\ result \in TryStates => LastOf(ops'[k].tries) = result
  <2> DEFINE new == [op EXCEPT !.tries[Len(op.tries)] = result]
  <2>1. result \in TryStates => LastOf(new.tries) = result
    BY <1>3, TriedOp
  <2>2. SetOp(k, new)
    BY <1>8
  <2> HIDE DEF new
  <2>3. DOMAIN ops' = DOMAIN ops /\ ops'[k] = new /\ \A j \in DOMAIN ops : j # k => ops'[j] = ops[j]
    BY <1>2, <2>2 DEF SetOp
  <2>4. QED
    BY <2>1, <2>3
<1>9. CASE op.there[try] = "ok" /\ Answered(k) /\ ops' = ops
  BY <1>1, <1>2, <1>3, <1>5, <1>9, AnsweredStands
<1>10. CASE /\ op.there[try] = "ok" /\ Answered(k) /\ w.pc \in {"map", "find", "findNow"}
            /\ SetOp(k, [op EXCEPT !.tries[Len(op.tries)] = "ok"])
  <2>1. DOMAIN ops' = DOMAIN ops /\ \A j \in DOMAIN ops : j # k => ops'[j] = ops[j]
    BY <1>8, <1>10
  <2>2. w.pc \notin {"upload", "write", "read"}
    BY <1>10
  <2>3. QED
    BY <1>1, <1>2, <1>3, <1>5, <1>10, <2>1, <2>2, AnsweredStands
<1>11. CASE Then("ask") /\ SetOp(k, [op EXCEPT !.tries[Len(op.tries)] = "retryable"])
  <2>1. /\ DOMAIN ops' = DOMAIN ops /\ \A j \in DOMAIN ops : j # k => ops'[j] = ops[j]
        /\ LastOf(ops'[k].tries) = "retryable"
    BY <1>8, <1>11 DEF TryStates
  <2>2. /\ w'.pc = w.pc /\ w'.scope = w.scope /\ w'.cycle = w.cycle /\ w'.settle = w.settle /\ w'.mutation = w.mutation
        /\ w'.sub = "ask"
    BY <1>2, <1>11 DEF Instances, Then, Goto
  <2>3. w.pc = "write" => k[1] = w.mutation
    BY <1>1, <1>2, OpOfIs DEF CallsMade
  <2>4. w.pc = "write" /\ w.mutation = "add" => \A j \in Adds' : ~ Alive(j)'
    <3>1. ASSUME w.pc = "write", w.mutation = "add", NEW j \in Adds' PROVE ~ Alive(j)'
      <4>1. j \in Adds /\ k \in Adds
        BY <1>2, <2>1, <2>3, <3>1 DEF Adds
      <4>2. CASE j = k
        BY <2>1, <4>2 DEF Alive, LastOf
      <4>3. CASE j # k
        <5>1. ~ Alive(j)
          BY <1>4, <4>1, <4>3 DEF AddsOK
        <5>2. ops'[j] = ops[j]
          BY <2>1, <4>1, <4>3 DEF Adds
        <5>3. QED
          BY <5>1, <5>2 DEF Alive, LastOf
      <4>4. QED
        BY <4>2, <4>3
    <3>2. QED
      BY <3>1
  <2>5. Asking'
    BY <1>2, <1>4, <2>2, <2>4 DEF Asking
  <2>6. \A j \in DOMAIN ops : Settling(j) => j \in DOMAIN ops' /\ LastOf(ops'[j].tries) \in {"open", "ok"}
    <3>1. ASSUME NEW j \in DOMAIN ops, Settling(j) PROVE j \in DOMAIN ops' /\ LastOf(ops'[j].tries) \in {"open", "ok"}
      <4>1. j[1] \in {"add", "update"} /\ w.pc = "findNow"
        BY <1>2, <3>1 DEF Settling, Calls
      <4>2. k[1] = "findNow"
        BY <1>1, <1>2, <4>1, OpOfIs DEF CallsMade
      <4>3. ops'[j] = ops[j]
        BY <2>1, <4>1, <4>2
      <4>4. QED
        BY <2>1, <3>1, <4>3 DEF Settling, Alive
    <3>2. QED
      BY <3>1
  <2>7. QED
    BY <1>2, <2>2, <2>5, <2>6, CallStands
<1>12. \/ NotKnown(k) /\ ops' = ops
       \/ op.there[try] = "ok" /\ (IF w.pc \in {"map", "find", "findNow"} THEN Record(k, "ok", Answered(k)) ELSE Answered(k) /\ ops' = ops)
       \/ Record(k, "retryable", IF Len(op.tries) < 3 THEN Then("ask") ELSE Fail)
       \/ Record(k, "failed", Rejected)
       \/ Record(k, "failed", Hold(NoAccount))
  BY <1>1, <1>3, <1>5 DEF AnswerCall
<1>13. Rejected => (\E code : Hold(code)) \/ Fail
  BY DEF Rejected
<1>14. CASE op.there[try] = "ok" /\ w.pc \in {"map", "find", "findNow"} /\ Record(k, "ok", Answered(k))
  <2>1. (\E code : Hold(code)) \/ (Answered(k) /\ SetOp(k, [op EXCEPT !.tries[Len(op.tries)] = "ok"]))
    BY <1>3, <1>14 DEF Record
  <2>2. QED
    BY <1>7, <1>10, <1>14, <2>1
<1>15. CASE Record(k, "retryable", IF Len(op.tries) < 3 THEN Then("ask") ELSE Fail)
  <2>1. (\E code : Hold(code)) \/ Fail \/ (Then("ask") /\ SetOp(k, [op EXCEPT !.tries[Len(op.tries)] = "retryable"]))
    BY <1>3, <1>15 DEF Record
  <2>2. QED
    BY <1>7, <1>11, <2>1
<1>16. CASE Record(k, "failed", Rejected) \/ Record(k, "failed", Hold(NoAccount))
  BY <1>7, <1>13, <1>16 DEF Record
<1>17. QED
  BY <1>6, <1>9, <1>12, <1>14, <1>15, <1>16

\* Where the Workflow stands stays true.
LEMMA StandsKept ==
  ASSUME LedgersInv, CallsMade, HoldsOK', RecoveriesOK, ResumesOK, OperationsOK, AddsOK, StandsOK, SentStay, [DraftNext]_draftVars
  PROVE  StandsOK'
<1>1. Lasts /\ D1Step /\ HoldsOK
  BY StepLasts, D1Steps DEF LedgersInv
<1>2. CASE Enter \/ ResumeMain
  BY <1>2, EnterStands, ResumeMainStands
<1>3. CASE Keep \/ Commit \/ Receipt \/ Settle
  BY <1>1, <1>3, KeepStands, CommitStands, ReceiptStands, SettleStands
<1>4. CASE SyncD1 \/ SyncMain
  BY <1>1, <1>4, SyncD1Stands, SyncMainStands
<1>5. CASE Ask \/ Send \/ AnswerCall
  BY <1>1, <1>5, AskStands, SendStands, AnswerStands
<1>6. CASE \/ Verify \/ ReadyD1 \/ ReadyMain \/ HoldD1 \/ HoldMain \/ FailD1 \/ FailMain
           \/ ResumeReceipts \/ ResumeReconciled \/ ResumeRetrying \/ ResumeResumed \/ EngineRestart \/ Restart
  BY <1>6, RestStands
<1>7. CASE Provider \/ App \/ EditDraft \/ UNCHANGED draftVars
  BY <1>1, <1>7, OthersStand
<1>8. QED
  BY <1>2, <1>3, <1>4, <1>5, <1>6, <1>7 DEF DraftNext, Step

-----------------------------------------------------------------------------
(* After a cancellation.                                                   *)

\* A cancelled row takes no event but the App's.
LEMMA CancelledStays ==
  ASSUME LedgersInv, D1Step, d1.state = "cancelled"
  PROVE  d1'.state = "cancelled" /\ \A kind, s : Projected(kind, s)' => Projected(kind, s)
<1>1. CASE d1' = d1
  BY <1>1 DEF Projected, Has
<1>2. CASE d1' # d1
  <2>1. PICK target \in Targets, key \in LogKeys, code \in HoldCodes :
          D1Allows(target, TRUE) /\ D1Event(target, key) /\ d1' = WithEvent(d1, target, key, code)
    BY <1>2 DEF D1Step
  <2>2. d1'.log = Append(d1.log, key) /\ d1'.state = target /\ d1 \in Rows
    BY <2>1 DEF WithEvent, LedgersInv, Typed
  <2>3. target = "cancelled"
    <3>1. ALLOWED_PROJECTION_TRANSITIONS("cancelled") = {}
      BY Successors DEF Targets, ExceptionalStates
    <3>2. QED
      BY <2>1, <3>1 DEF D1Allows
  <2>4. ~ ArtifactEvent(target, key)
    <3>1. SUFFICES ASSUME ArtifactEvent(target, key) PROVE FALSE
      OBVIOUS
    <3>2. w.pc \in Kinds /\ target = artifactState(w.pc, w.scope)
      BY <3>1 DEF ArtifactEvent
    <3>3. artifactState(w.pc, w.scope) \in WECHAT_RESUMABLE_STATES
      BY <3>2, TargetIsCheckpoint DEF LedgersInv
    <3>4. QED
      BY <2>3, <3>2, <3>3, Vocabulary
  <2>5. key[1] # "artifact"
    BY <2>1, <2>4 DEF D1Event, SyncEvent, ReadyEvent, HoldEvent, FailEvent, RecoveryEvent, AppEvent, LedgersInv, ScopesOK, Resuming
  <2>6. ASSUME NEW kind, NEW s, Projected(kind, s)' PROVE Projected(kind, s)
    <3>1. PICK k : k = Artifact(kind, s)
      OBVIOUS
    <3>2. Has(d1, k)'
      BY <2>6, <3>1 DEF Projected, Artifact
    <3>3. k # key
      BY <2>5, <3>1 DEF Artifact
    <3>4. Has(d1, k)
      BY <2>2, <3>2, <3>3, D1Log
    <3>5. QED
      BY <3>1, <3>4 DEF Projected
  <2>7. QED
    BY <2>2, <2>3, <2>6
<1>3. QED
  BY <1>1, <1>2

LEMMA SpentAside ==
  ASSUME \/ w'.run # "live"
         \/ w'.pc \in {"enter", "hold", "fail", "resume", "receipt", "findNow", "read", "readback", "verify", "ready"}
         \/ w'.pc \in {"template", "renderqa"} /\ w'.scope = 0
         \/ w'.pc = "sync" /\ w'.sub = "d1"
  PROVE  Spent'
BY DEF Spent

LEMMA SpentStays ==
  ASSUME Spent, SentStay, \A kind, s : Projected(kind, s)' => Projected(kind, s), w'.run = w.run, w'.pc = w.pc,
         w'.scope = w.scope, w'.mutation = w.mutation, w.pc = "sync" /\ w.sub = "d1" => w'.sub = "d1"
  PROVE  Spent'
<1>1. PICK s : s = w.scope
  OBVIOUS
<1>2. PICK mutation : mutation = w.mutation
  OBVIOUS
<1>3. (Sent(<<"upload", s>>) => Sent(<<"upload", s>>)') /\ (Sent(<<mutation, s>>) => Sent(<<mutation, s>>)')
      /\ (Projected("image", s)' => Projected("image", s))
  BY DEF SentStay
<1>4. /\ Sent(<<"upload", s>>)' <=> Sent(<<"upload", w.scope>>)'
      /\ Sent(<<mutation, s>>)' <=> Sent(<<w.mutation, w.scope>>)'
      /\ Projected("image", s)' <=> Projected("image", w.scope)'
  BY <1>1, <1>2 DEF Sent, Projected, Has, Artifact
<1>5. CASE w.pc = "upload"
  BY <1>1, <1>3, <1>4, <1>5 DEF Spent
<1>6. CASE w.pc = "image"
  BY <1>1, <1>3, <1>4, <1>6 DEF Spent
<1>7. CASE w.pc = "write"
  BY <1>1, <1>2, <1>3, <1>4, <1>7 DEF Spent
<1>8. QED
  BY <1>5, <1>6, <1>7 DEF Spent

LEMMA RestSpent ==
  ASSUME LedgersInv, d1.state = "cancelled",
         \/ Enter \/ Verify \/ ReadyD1 \/ ReadyMain \/ HoldD1 \/ HoldMain \/ FailD1 \/ FailMain \/ SyncD1
         \/ ResumeReceipts \/ ResumeReconciled \/ ResumeRetrying \/ ResumeResumed \/ ResumeMain \/ EngineRestart \/ Restart
  PROVE  Spent'
<1>1. w \in Instances
  BY DEF LedgersInv, Typed
<1>2. CASE w' = Instance
  BY <1>2, SpentAside DEF Instance
<1>3. CASE \E how \in {"done", "errored"} : Stop(how)
  BY <1>1, <1>3, PcAfter, SpentAside
<1>4. CASE (\E code : Hold(code)) \/ Begin("ready")
  BY <1>1, <1>4, PcAfter, SpentAside
<1>5. CASE w.pc \in {"ready", "hold", "fail", "resume"} /\ \E sub : Then(sub)
  BY <1>1, <1>5, PcAfter, SpentAside
<1>6. CASE EngineRestart \/ Restart
  BY <1>2, <1>6 DEF EngineRestart, Restart
<1>7. CASE Verify
  BY <1>4, <1>7 DEF Verify
<1>8. CASE ReadyD1 \/ ReadyMain
  BY <1>3, <1>4, <1>5, <1>8 DEF ReadyD1, ReadyMain, TryD1, At
<1>9. CASE HoldD1 \/ HoldMain \/ FailD1 \/ FailMain
  BY <1>3, <1>4, <1>5, <1>9 DEF HoldD1, HoldMain, FailD1, FailMain, StopD1, StopMain, TryD1, At
<1>10. CASE ResumeReceipts
  BY <1>4, <1>5, <1>10 DEF ResumeReceipts, TryMain, At
<1>11. CASE ResumeReconciled \/ ResumeRetrying \/ ResumeResumed
  BY <1>4, <1>5, <1>11 DEF ResumeReconciled, ResumeRetrying, ResumeResumed, ResumeStep, At
<1>12. CASE SyncD1
  BY <1>4, <1>12 DEF SyncD1, MaySync
<1>13. CASE ResumeMain
  <2>1. d1.last # "cancelled"
    BY DEF LedgersInv, RowsOK, D1Row, Moving, WECHAT_RESUMABLE_STATES, Checkpoints
  <2>2. QED
    BY <1>4, <1>13, <2>1 DEF ResumeMain
<1>14. CASE Enter
  <2>1. CASE \E state : StartInner(state, 0, 0)
    <3>1. w'.pc = "verify" \/ (w'.pc = "template" /\ w'.scope = 0)
      BY <1>1, <2>1 DEF StartInner, Instances
    <3>2. QED
      BY <3>1, SpentAside
  <2>2. \/ \E state : StartInner(state, 0, 0)
        \/ \E how \in {"done", "errored"} : Stop(how)
        \/ \E code : Hold(code)
        \/ w'.pc \in {"ready", "resume"}
    <3>1. \/ \E state : StartInner(state, 0, 0)
          \/ \E how \in {"done", "errored"} : Stop(how)
          \/ \E code : Hold(code)
          \/ w' = [w EXCEPT !.pc = "ready", !.sub = "main", !.scope = TheOne(Passing)]
          \/ w' = [w EXCEPT !.pc = "resume", !.sub = "receipts", !.code = main.code]
      BY <1>14 DEF Enter
    <3>2. QED
      BY <1>1, <3>1 DEF Instances
  <2>3. QED
    BY <1>3, <1>4, <2>1, <2>2, SpentAside
<1>15. QED
  BY <1>6, <1>7, <1>8, <1>9, <1>10, <1>11, <1>12, <1>13, <1>14

LEMMA CommittedSpent ==
  ASSUME LedgersInv, Spent, w.run = "live", w.pc \in {"template", "renderqa", "receipt", "readback"},
         \/ Committed \/ Then("co") \/ Then("event") \/ \E code : Hold(code)
         \/ w' = [w EXCEPT !.pc = Following(w.pc), !.sub = FirstSub(Following(w.pc)), !.settle = <<>>]
  PROVE  Spent'
<1>1. w \in Instances
  BY DEF LedgersInv, Typed
<1>2. CASE \E code : Hold(code)
  BY <1>1, <1>2, PcAfter, SpentAside
<1>3. CASE \E sub : Then(sub)
  <2>1. w'.pc = w.pc /\ w'.scope = w.scope
    BY <1>1, <1>3 DEF Then, Goto, Instances
  <2>2. w.pc \in {"template", "renderqa"} => w.scope = 0
    BY DEF Spent
  <2>3. QED
    BY <2>1, <2>2, SpentAside
<1>4. ASSUME NEW next, next = Following(w.pc), w'.pc = next, w'.sub = FirstSub(next), w'.scope = w.scope
      PROVE  Spent'
  <2>1. CASE w.pc = "template"
    <3>1. next = "renderqa" /\ w.scope = 0
      BY <1>4, <2>1 DEF Following, Spent
    <3>2. QED
      BY <1>4, <3>1, SpentAside
  <2>2. CASE w.pc = "renderqa"
    <3>1. w.scope = 0
      BY <2>2 DEF Spent
    <3>2. artifactState("package", 0) = "draft_syncing"
      BY DEF artifactState, StateOf
    <3>3. next = "sync"
      BY <1>4, <2>2, <3>1, <3>2 DEF Following
    <3>4. w'.sub = "d1"
      BY <1>4, <3>3 DEF FirstSub, Kinds, Calls
    <3>5. QED
      BY <1>4, <3>3, <3>4, SpentAside
  <2>3. CASE w.pc \in {"receipt", "readback"}
    <3>1. next \in {"read", "readback", "verify"}
      BY <1>4, <2>3 DEF Following
    <3>2. QED
      BY <1>4, <3>1, SpentAside
  <2>4. QED
    BY <2>1, <2>2, <2>3
<1>5. CASE w' = [w EXCEPT !.pc = Following(w.pc), !.sub = FirstSub(Following(w.pc)), !.settle = <<>>]
  <2>1. PICK next : next = Following(w.pc)
    OBVIOUS
  <2>2. w' = [w EXCEPT !.pc = next, !.sub = FirstSub(next), !.settle = <<>>]
    BY <1>5, <2>1
  <2>3. w'.pc = next /\ w'.sub = FirstSub(next) /\ w'.scope = w.scope
    BY <1>1, <2>2 DEF Instances
  <2>4. QED
    BY <1>4, <2>1, <2>3
<1>6. CASE Begin(Following(w.pc))
  <2>1. PICK next : next = Following(w.pc)
    OBVIOUS
  <2>2. w' = [w EXCEPT !.pc = next, !.sub = FirstSub(next)]
    BY <1>6, <2>1 DEF Begin, Goto
  <2>3. w'.pc = next /\ w'.sub = FirstSub(next) /\ w'.scope = w.scope
    BY <1>1, <2>2 DEF Instances
  <2>4. QED
    BY <1>4, <2>1, <2>3
<1>7. CASE Committed
  BY <1>2, <1>3, <1>6, <1>7 DEF Committed, Continue
<1>8. QED
  BY <1>2, <1>3, <1>5, <1>7

\* An image that D1 does not have yet is not committed any more.
LEMMA ImageSpent ==
  ASSUME LedgersInv, d1.state = "cancelled", w.run = "live", w.pc = "image", ~ Projected("image", w.scope),
         Commit \/ Receipt \/ Settle
  PROVE  Spent'
<1>1. w \in Instances /\ Walking /\ w.pc \in Kinds
  BY DEF LedgersInv, Typed, Walking, Kinds
<1>2. PICK s \in Nat : s = w.scope
  BY <1>1 DEF Instances
<1>3. ~ Projected("image", s) /\ ~ Receipted("image", s)
  BY <1>1, <1>2 DEF LedgersInv, ArtifactsInTurn
<1>4. w.sub \notin {"co", "settle"}
  BY <1>1, <1>2, <1>3 DEF LedgersInv, WalkOK
<1>5. Commit
  BY <1>4 DEF Receipt, Settle, At
<1>6. PICK key : key = Artifact("image", s)
  OBVIOUS
<1>7. ~ Has(main, key) /\ ~ Has(d1, key)
  BY <1>3, <1>6 DEF Receipted, Projected
<1>8. PICK state \in WECHAT_RESUMABLE_STATES : state = artifactState("image", s)
  BY TargetIsCheckpoint DEF LedgersInv, Kinds
<1>9. TryD1(state, key, "none", TRUE, Then("co"), Hold(Unknown))
  BY <1>2, <1>5, <1>6, <1>7, <1>8 DEF Commit
<1>10. ~ D1Allows(state, TRUE)
  <2>1. ALLOWED_PROJECTION_TRANSITIONS("cancelled") = {}
    BY Successors DEF Targets, ExceptionalStates
  <2>2. state # "cancelled"
    BY <1>8, Vocabulary
  <2>3. QED
    BY <2>1, <2>2 DEF D1Allows
<1>11. Hold(Unknown)
  BY <1>9, <1>10 DEF TryD1, WriteD1
<1>12. QED
  BY <1>1, <1>11, PcAfter, SpentAside

LEMMA ArtifactSpent ==
  ASSUME LedgersInv, Spent, SentStay, \A kind, s : Projected(kind, s)' => Projected(kind, s), d1.state = "cancelled",
         Keep \/ Commit \/ Receipt \/ Settle
  PROVE  Spent'
<1>1. w \in Instances /\ w.run = "live" /\ w.pc \in Kinds
  BY DEF LedgersInv, Typed, Keep, Commit, Receipt, Settle, At
<1>2. w.pc \in {"template", "renderqa", "receipt", "readback", "image"}
  BY <1>1 DEF Spent, Kinds
<1>3. CASE w.pc = "image"
  <2>1. ~ Projected("image", w.scope)
    BY <1>1, <1>3 DEF Spent
  <2>2. CASE Commit \/ Receipt \/ Settle
    BY <1>1, <1>3, <2>1, <2>2, ImageSpent
  <2>3. CASE Keep
    <3>1. CASE \E code : Hold(code)
      BY <1>1, <3>1, PcAfter, SpentAside
    <3>2. CASE Then("event")
      <4>1. w'.run = w.run /\ w'.pc = w.pc /\ w'.scope = w.scope /\ w'.mutation = w.mutation
        BY <1>1, <3>2 DEF Then, Goto, Instances
      <4>2. QED
        BY <1>3, <4>1, SpentStays
    <3>3. QED
      BY <2>3, <3>1, <3>2 DEF Keep
  <2>4. QED
    BY <2>2, <2>3
<1>4. CASE w.pc # "image"
  <2>1. CASE Keep
    BY <1>1, <1>2, <1>4, <2>1, CommittedSpent DEF Keep
  <2>2. CASE Commit
    BY <1>1, <1>2, <1>4, <2>2, CommittedSpent DEF Commit, TryMain, TryD1
  <2>3. CASE Receipt
    BY <1>1, <1>2, <1>4, <2>3, CommittedSpent DEF Receipt, TryMain
  <2>4. CASE Settle
    BY <1>1, <1>2, <1>4, <2>4, CommittedSpent DEF Settle
  <2>5. QED
    BY <2>1, <2>2, <2>3, <2>4
<1>5. QED
  BY <1>3, <1>4

LEMMA CallSpent ==
  ASSUME LedgersInv, Spent, SentStay, \A kind, s : Projected(kind, s)' => Projected(kind, s), Ask \/ Send \/ AnswerCall
  PROVE  Spent'
<1>1. w \in Instances /\ w.run = "live" /\ w.pc \in Calls
  BY DEF LedgersInv, Typed, Ask, Send, AnswerCall, At
<1>2. w.pc \in {"upload", "write", "findNow", "read"}
  BY <1>1 DEF Spent, Calls
<1>3. PICK k : k = OpOf(w.pc)
  OBVIOUS
<1>4. CASE (\E code : Hold(code)) \/ Fail \/ NotKnown(k)
  BY <1>1, <1>4, PcAfter, SpentAside
<1>5. ASSUME w'.run = w.run, w'.pc = w.pc, w'.scope = w.scope, w'.mutation = w.mutation
      PROVE  Spent'
  BY <1>1, <1>5, SpentStays DEF Calls
<1>6. CASE \E sub : Then(sub)
  BY <1>1, <1>5, <1>6 DEF Then, Goto, Instances
<1>7. CASE Ask
  <2>1. ASSUME NEW sub, NEW n, w' = [w EXCEPT !.sub = sub, !.try = n]
        PROVE  Spent'
    BY <1>1, <1>5, <2>1 DEF Instances
  <2>2. (\E code : Hold(code)) \/ Fail \/ \E sub, n : w' = [w EXCEPT !.sub = sub, !.try = n]
    BY <1>7 DEF Ask
  <2>3. QED
    BY <1>4, <2>1, <2>2
<1>8. CASE Send
  BY <1>3, <1>4, <1>6, <1>8 DEF Send
<1>9. CASE Answered(k)
  <2>1. PICK value : value = Op(k).value
    OBVIOUS
  <2>2. CASE w.pc = "upload"
    <3>1. w' = [w EXCEPT !.pc = "image", !.sub = "keep", !.settle = k]
      BY <1>9, <2>2 DEF Answered, Following
    <3>2. w'.pc = "image" /\ w'.scope = w.scope
      BY <1>1, <3>1 DEF Instances
    <3>3. PICK s : s = w.scope
      OBVIOUS
    <3>4. ~ Projected("image", s)'
      BY <1>1, <2>2, <3>3 DEF Spent
    <3>5. ~ Projected("image", w.scope)'
      BY <3>2, <3>3, <3>4 DEF Projected, Has, Artifact
    <3>6. QED
      BY <3>2, <3>5 DEF Spent
  <2>3. CASE w.pc = "write"
    <3>1. w'.pc = "receipt"
      BY <1>1, <1>9, <2>3 DEF Answered, Following, Instances
    <3>2. QED
      BY <3>1, SpentAside
  <2>4. CASE w.pc = "findNow"
    <3>1. w'.pc = "receipt"
      BY <1>1, <1>9, <2>4 DEF Answered, Instances
    <3>2. QED
      BY <3>1, SpentAside
  <2>5. CASE w.pc = "read"
    <3>1. w'.pc = "readback"
      BY <1>1, <1>9, <2>5 DEF Answered, Instances
    <3>2. QED
      BY <3>1, SpentAside
  <2>6. QED
    BY <1>2, <2>2, <2>3, <2>4, <2>5
<1>10. CASE AnswerCall
  <2>1. Rejected => (\E code : Hold(code)) \/ Fail
    BY DEF Rejected
  <2>2. (\E code : Hold(code)) \/ Fail \/ NotKnown(k) \/ Answered(k) \/ (\E sub : Then(sub))
    BY <1>3, <1>10, <2>1 DEF AnswerCall, Record
  <2>3. QED
    BY <1>4, <1>6, <1>9, <2>2
<1>11. QED
  BY <1>7, <1>8, <1>10

\* A request is counted late once: it was the first of its call, and the call is spent.
LEMMA LateSend ==
  ASSUME LedgersInv, CallsMade, DraftOK, StandsOK, Send, late' # late
  PROVE  late' = late + 1 /\ d1.state = "cancelled" /\ (Spent => FALSE) /\ Spent'
<1>1. PICK k : k = OpOf(w.pc)
  OBVIOUS
<1>2. /\ d1' = d1 /\ w.run = "live" /\ w.pc \in Calls /\ Walking /\ k \in DOMAIN ops /\ w \in Instances
      /\ w.sub = "send" /\ Claim(k, w.try, "running") /\ Then("wait") /\ w.try = 1 /\ Writes(k)
      /\ late' = late + 1 /\ d1.state = "cancelled"
  <2>1. /\ w.run = "live" /\ w.pc \in Calls /\ w.sub \in {"send", "query"} /\ d1' = d1 /\ w \in Instances
    BY DEF Send, At, LedgersInv, Typed
  <2>2. /\ ~ (w.sub = "query" /\ Writes(k)) /\ Claim(k, w.try, "running") /\ Then("wait")
        /\ late' = IF Writes(k) /\ w.try = 1 /\ d1.state = "cancelled" THEN late + 1 ELSE late
    BY <1>1 DEF Send
  <2>3. Writes(k) /\ w.try = 1 /\ d1.state = "cancelled" /\ late' = late + 1
    BY <2>2
  <2>4. Walking /\ k \in DOMAIN ops
    BY <1>1, <2>1 DEF Walking, CallsMade
  <2>5. QED
    BY <2>1, <2>2, <2>3, <2>4
<1>3. PICK s \in Nat : s = w.scope
  BY <1>2 DEF Instances
<1>4. PICK op \in OpRecords : op = ops[k] /\ Op(k) = op
  BY <1>2, OperationsHave DEF LedgersInv, Typed
<1>5. op.there[1] = "none" /\ 1 \in DOMAIN op.there
  BY <1>1, <1>2, <1>4 DEF StandsOK, Asking
<1>6. ~ Sent(k)
  BY <1>4, <1>5 DEF Sent
<1>7. (w.pc = "upload" /\ k = <<"upload", s>>) \/ (w.pc = "write" /\ k = <<w.mutation, s>>)
  BY <1>1, <1>2, <1>3, OpOfIs DEF CallsMade
<1>8. ~ Spent
  BY <1>2, <1>3, <1>6, <1>7 DEF Spent
<1>9. Sent(k)'
  <2> DEFINE new == [op EXCEPT !.there[1] = "running"]
  <2>1. SetOp(k, new)
    BY <1>2, <1>4 DEF Claim
  <2>2. new.there[1] = "running"
    BY <1>5 DEF OpRecords
  <2> HIDE DEF new
  <2>3. QED
    BY <2>1, <2>2 DEF SetOp, Sent
<1>10. PICK mutation : mutation = w.mutation
  OBVIOUS
<1>11. w'.pc = w.pc /\ w'.scope = s /\ w'.mutation = mutation /\ w'.run = "live"
  BY <1>2, <1>3, <1>10 DEF Then, Goto, Instances
<1>12. CASE w.pc = "upload" /\ k = <<"upload", s>>
  <2>1. ~ Projected("image", s)
    BY <1>3, <1>6, <1>12 DEF DraftOK
  <2>2. ~ Projected("image", s)'
    BY <1>2, <2>1, D1Facts
  <2>3. Sent(<<"upload", s>>)'
    BY <1>9, <1>12
  <2>4. Sent(<<"upload", w.scope>>)' /\ ~ Projected("image", w.scope)'
    BY <1>11, <2>2, <2>3 DEF Sent, Projected, Has, Artifact
  <2>5. QED
    BY <1>2, <1>8, <1>11, <1>12, <2>4 DEF Spent
<1>13. CASE w.pc = "write" /\ k = <<w.mutation, s>>
  <2>1. Sent(<<mutation, s>>)'
    BY <1>9, <1>10, <1>13
  <2>2. Sent(<<w.mutation, w.scope>>)'
    BY <1>11, <2>1 DEF Sent
  <2>3. QED
    BY <1>2, <1>8, <1>11, <1>13, <2>2 DEF Spent
<1>14. QED
  BY <1>7, <1>12, <1>13

LEMMA LateKept ==
  ASSUME LedgersInv, CallsMade, DraftOK, StandsOK, LateOK, SentStay, [DraftNext]_draftVars
  PROVE  LateOK'
<1>1. D1Step /\ late \in Nat
  BY D1Steps DEF LedgersInv, Typed
<1>2. CASE late' # late
  <2>1. Send
    BY <1>2
    DEF DraftNext, Step, Enter, Keep, Commit, Receipt, Settle, SyncD1, SyncMain, Ask, AnswerCall, Verify, ReadyD1, ReadyMain,
        HoldD1, HoldMain, FailD1, FailMain, StopD1, StopMain, ResumeReceipts, ResumeReconciled, ResumeRetrying, ResumeResumed,
        ResumeStep, ResumeMain, EngineRestart, Restart, Provider, App, EditDraft, external, draftVars
  <2>2. late' = late + 1 /\ d1.state = "cancelled" /\ ~ Spent /\ Spent'
    BY <1>2, <2>1, LateSend
  <2>3. late = 0
    BY <2>2 DEF LateOK
  <2>4. d1' = d1
    BY <2>1 DEF Send
  <2>5. QED
    BY <2>2, <2>3, <2>4 DEF LateOK
<1>3. CASE late' = late /\ late = 0
  BY <1>3 DEF LateOK
<1>4. CASE late' = late /\ late = 1 /\ d1.state = "cancelled" /\ Spent
  <2>1. d1'.state = "cancelled" /\ \A kind, s : Projected(kind, s)' => Projected(kind, s)
    BY <1>1, <1>4, CancelledStays
  <2>2. Spent'
    <3>1. CASE \/ Enter \/ Verify \/ ReadyD1 \/ ReadyMain \/ HoldD1 \/ HoldMain \/ FailD1 \/ FailMain \/ SyncD1
               \/ ResumeReceipts \/ ResumeReconciled \/ ResumeRetrying \/ ResumeResumed \/ ResumeMain \/ EngineRestart \/ Restart
      BY <1>4, <3>1, RestSpent
    <3>2. CASE Keep \/ Commit \/ Receipt \/ Settle
      BY <1>4, <2>1, <3>2, ArtifactSpent
    <3>3. CASE Ask \/ Send \/ AnswerCall
      BY <1>4, <2>1, <3>3, CallSpent
    <3>4. CASE SyncMain
      BY <1>4, <3>4 DEF SyncMain, At, Spent
    <3>5. CASE Provider \/ App \/ EditDraft \/ UNCHANGED draftVars
      <4>1. w' = w
        BY <3>5 DEF Provider, App, EditDraft, draftVars
      <4>2. QED
        BY <1>4, <2>1, <4>1, SpentStays
    <3>6. QED
      BY <3>1, <3>2, <3>3, <3>4, <3>5 DEF DraftNext, Step
  <2>3. QED
    BY <1>4, <2>1, <2>2 DEF LateOK
<1>5. QED
  BY <1>2, <1>3, <1>4 DEF LateOK

-----------------------------------------------------------------------------
LEMMA WritesKept ==
  ASSUME LedgersInv, CallsMade, WritesInv, [DraftNext]_draftVars
  PROVE  WritesInv'
<1>1. LedgersInv' /\ HoldsOK'
  BY LedgersKept DEF LedgersInv
<1>2. D1Step
  BY D1Steps
<1>3. RecoveriesOK'
  BY <1>2, RecoveriesKept DEF WritesInv
<1>4. ResumesOK'
  BY ResumesKept DEF WritesInv
<1>5. DraftStays /\ AddsOK'
  BY <1>1, DraftKept DEF WritesInv
<1>6. OperationsOK' /\ DraftOK' /\ SentStay
  BY <1>5 DEF DraftStays
<1>7. StandsOK'
  BY <1>1, <1>6, StandsKept DEF WritesInv
<1>8. LateOK'
  BY <1>6, LateKept DEF WritesInv
<1>9. QED
  BY <1>3, <1>4, <1>5, <1>6, <1>7, <1>8 DEF WritesInv

LEMMA WritesBegin ==
  ASSUME DraftInit
  PROVE  WritesInv
<1>1. d1 = Fresh /\ main = Fresh /\ DOMAIN ops = {} /\ w = Instance /\ late = 0
      /\ wechat = [drafts |-> 0, content |-> "none", mapped |-> FALSE]
  BY DEF DraftInit
<1>2. DOMAIN d1.log = {} /\ d1.last = "visual_ready" /\ main.state = "visual_ready"
  BY <1>1 DEF Fresh
<1>3. (\A key : ~ Has(d1, key)) /\ ResumedKeys = {}
  BY <1>2 DEF Has, ResumedKeys, Tagged
<1>4. RecoveriesOK
  BY <1>3 DEF RecoveriesOK
<1>5. w.pc = "enter"
  BY <1>1 DEF Instance
<1>6. ResumesOK
  BY <1>2, <1>5 DEF ResumesOK, Resuming
<1>7. OperationsOK
  BY <1>1 DEF OperationsOK
<1>8. DraftOK
  BY <1>1, <1>2, <1>3 DEF DraftOK, Verified, Projected
<1>9. AddsOK
  BY <1>1 DEF AddsOK, Adds
<1>10. StandsOK
  BY <1>5 DEF StandsOK, Kinds, Calls
<1>11. LateOK
  BY <1>1 DEF LateOK
<1>12. QED
  BY <1>4, <1>6, <1>7, <1>8, <1>9, <1>10, <1>11 DEF WritesInv

LEMMA WritesAreSafe ==
  ASSUME LedgersInv, WritesInv
  PROVE  DraftWritesSafe
<1>1. OneDraft
  BY DEF WritesInv, AddsOK, OneDraft
<1>2. CheckpointFirst
  <2>1. ASSUME NEW k \in DOMAIN ops, Writes(k)
        PROVE  (Has(d1, <<"sync", "none", k[2]>>) /\ Has(main, <<"sync", "none", k[2]>>)) \/ Target(k[2]) = "draft_verifying"
    BY <2>1 DEF WritesInv, OperationsOK, OperationOK, MaySend, Announced
  <2>2. QED
    BY <2>1 DEF CheckpointFirst
<1>3. LateByOne
  BY DEF WritesInv, LateOK, LateByOne
<1>4. QED
  BY <1>1, <1>2, <1>3 DEF DraftWritesSafe

\* The article never gets a second draft, whatever answers were lost and however often the phase
\* was run again; nothing that changes the account is asked before both ledgers have the scope's
\* checkpoint, or had passed it when the scope began; and a cancelled run asks for at most one
\* more change.
THEOREM WritesCorrect ==
  DraftSpec => []DraftWritesSafe
<1>1. DraftInit => LedgersInv /\ CallsMade /\ WritesInv
  BY LedgersBegin, CallsBegin, WritesBegin
<1>2. LedgersInv /\ CallsMade /\ WritesInv /\ [DraftNext]_draftVars => LedgersInv' /\ CallsMade' /\ WritesInv'
  BY LedgersKept, CallsMadeKept, WritesKept
<1>3. LedgersInv /\ WritesInv => DraftWritesSafe
  BY WritesAreSafe
<1>4. QED
  BY <1>1, <1>2, <1>3, PTL DEF DraftSpec

==============================================================================
