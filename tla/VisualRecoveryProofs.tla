------------------------- MODULE VisualRecoveryProofs -------------------------
(***************************************************************************)
(* Proofs of the safety of the visual phase, for every set of executions,  *)
(* any number of slots, tries and faults, whatever may get lost and        *)
(* wherever an execution may die: the Coordinator never runs ahead of D1,  *)
(* what was achieved is kept, no hold is called reconciled while the       *)
(* outcome of a call is unknown, and, as long as nothing but answers is    *)
(* lost, no run fails without a failure and both ledgers say how the phase *)
(* ended. An execution acts on what it read before its last await, so the  *)
(* invariant says for each position what is still true of the stores by    *)
(* then.                                                                   *)
(***************************************************************************)
EXTENDS VisualRecovery, TLAPS

-----------------------------------------------------------------------------
(* The inductive invariant: the ledgers and the executions' positions.     *)

Stages == {"content_frozen", "visual_planning", "visual_generating", "visual_ready"}
Targets == {"visual_planning", "visual_generating"}

Writing == {"begin", "project", "write", "record"}
Resuming == {"resuming", "mark", "requeue", "return", "repair"}
Positions == {"ledger", "planned", "slots", "call", "qa", "exact"} \cup Writing \cup Resuming
Jobs == {"none", "artifact", "visual_planning", "visual_generating", "visual_ready", "failed", "needs_action"}

Work ==
  [pc : Positions, job : Jobs, phase : Units \cup {0, 11, 13}, try : 1..StepTries, seen : SUBSET Units,
   carried : Units \cup {0}, co : [state : PUBLICATION_STATES \cup {"none"}, revision : Nat],
   expected : Nat, same : BOOLEAN]

\* The units before a phase.
Before(phase) == {u \in Units : u < phase}

\* The Coordinator's run has got as far as the slots.
Generating == coordinator.last \in {"visual_generating", "visual_ready"}

\* The row in D1 is what its state and its last event say.
RunOK ==
  /\ run.state \in SUCCESSFUL_STATES => run.last = run.state
  /\ run.state = "retrying" => run.resume = run.last
  /\ run.event.key \in log \/ run.event.key[1] \in {"retry", "cancel"}
  /\ run.event.key[1] = "artifact" => run.event.key[2] \in Units /\ run.state = Stage(run.event.key[2])
  /\ run.event.key[1] \in {"visual_planning", "visual_generating", "visual_ready"} => run.state = run.event.key[1]

\* The Coordinator is not ahead of the row, nor in the slots without a plan.
CoordinatorOK ==
  /\ coordinator.last \in Stages /\ coordinator.revision >= 1
  /\ coordinator.state \in SUCCESSFUL_STATES => coordinator.last = coordinator.state
  /\ publicationProgress(coordinator.last) <= publicationProgress(run.last)
  /\ Generating => 12 \in Receipts

\* Calls are made in order, and a receipt is for a known result.
CallsOK ==
  /\ evidence[20] = "none"
  /\ \A u \in Calls : evidence[u] # "none" => Before(u) \subseteq Receipts /\ (u >= 15 => Generating)
  /\ \A u \in Calls : u \in Receipts => evidence[u] = "known"

\* What a worker is about to write, and on what it rests.
WritingOK(k) ==
  /\ k.job # "none"
  /\ k.job = "artifact" => k.phase \in Units /\ (k.phase \in Calls => evidence[k.phase] = "known")
  /\ k.job = "visual_generating" => k.phase = 13
  /\ k.job = "visual_ready" => Receipts = Units

\* What a worker has in D1 and is about to record in the Coordinator.
TargetOf(k) == IF k.job = "artifact" THEN Stage(k.phase) ELSE k.job
RecordOK(k) ==
  /\ <<k.job, k.phase, IF k.job = "needs_action" THEN k.expected ELSE 0>> \in log
  /\ TargetOf(k) \in SUCCESSFUL_STATES =>
       /\ publicationProgress(TargetOf(k)) <= publicationProgress(run.last)
       /\ k.co.revision = coordinator.revision => publicationProgress(coordinator.last) <= publicationProgress(TargetOf(k))

\* What a worker relies on where it stands.
PlaceOK(k) ==
  /\ k.seen \subseteq Receipts /\ Before(k.phase) \subseteq Receipts
  /\ k.phase >= 15 => Generating
  /\ k.pc \in {"planned", "slots"} => 12 \in Receipts
  /\ k.pc = "slots" => Generating
  /\ k.pc = "call" => k.job = "artifact" /\ k.phase \in Calls
  /\ k.pc \in {"qa", "exact"} => k.phase = 20
  /\ k.pc \in Writing => WritingOK(k)
  /\ k.pc \in {"project", "write", "record"} \cup Resuming => k.co.revision \in 1..coordinator.revision
  /\ k.pc \in {"write", "record"} \cup Resuming => k.expected <= run.revision
  /\ k.pc = "record" => RecordOK(k)
  /\ k.pc \in Resuming => k.job \in Targets
  /\ k.pc \in Resuming /\ k.co.revision = coordinator.revision =>
       coordinator.state = "needs_action" /\ coordinator.last = k.job
  /\ k.pc = "repair" => <<"resumed", k.job, 0>> \in log

Working(w) == worker[w] = Idle \/ (worker[w] \in Work /\ PlaceOK(worker[w]))

\* What TypeOK says of the stores.
StoresTyped ==
  /\ run.state \in PUBLICATION_STATES /\ run.revision \in Nat /\ run.last \in SUCCESSFUL_STATES
  /\ run.resume \in SUCCESSFUL_STATES \cup {"none"}
  /\ run.code \in {"none", "unknown", "reconciled", "failed"}
  /\ run.event.key[1] \in Keys /\ \A key \in log : key[1] \in Keys
  /\ coordinator.state \in PUBLICATION_STATES /\ coordinator.revision \in Nat
  /\ coordinator.code \in {"none", "unknown", "failed"}
  /\ evidence \in [Units -> {"none", "open", "known", "failed"}]
  /\ receipt \in [Units -> Nat]

Ledgers == StoresTyped /\ RunOK /\ CoordinatorOK /\ CallsOK /\ CoordinatorFollows /\ ReadyIsComplete

IInv ==
  /\ Ledgers /\ faults \in FaultCounts
  /\ worker \in [Workers -> {Idle} \cup Work]
  /\ \A w \in Workers : Working(w)

-----------------------------------------------------------------------------
(* Numbers: the units, the least of them, and the progress of the states.  *)

LEMMA UnitsAre ==
  /\ Units \subseteq 12..20 /\ Calls = Units \ {20} /\ 12 \in Units /\ 20 \in Units
  /\ \A u \in Units : u = 12 \/ u >= 15
BY VisualRecoveryOK DEF VisualRecoveryAssumption, Units, Calls

\* The units before the phases that are no slots.
LEMMA BeforePhases ==
  /\ Before(0) = {} /\ Before(11) = {} /\ Before(12) = {} /\ Before(13) = {12} /\ Before(20) = Units \ {20}
<1>1. \A u \in Units : u \in Int /\ (u = 12 \/ (u >= 15 /\ u <= 20))
  BY UnitsAre
<1>2. \A u \in Units : ~(u < 0) /\ ~(u < 11) /\ ~(u < 12) /\ (u < 13 <=> u = 12) /\ (u < 20 <=> u # 20)
  BY <1>1
<1>3. QED
  BY <1>2, UnitsAre DEF Before

LEMMA LeastUnit ==
  ASSUME NEW S, S \subseteq Units, S # {}
  PROVE  Min(S) \in S /\ \A v \in S : Min(S) <= v
<1>1. S \subseteq 12..20
  BY UnitsAre
<1>2. \E u \in S : \A v \in S : u <= v
  <2>1. CASE 12 \in S
    BY <1>1, <2>1
  <2>2. CASE 12 \notin S /\ 13 \notin S /\ 14 \notin S /\ 15 \in S
    BY <1>1, <2>2
  <2>3. CASE 12 \notin S /\ 13 \notin S /\ 14 \notin S /\ 15 \notin S
    <3>1. S \subseteq 16..20
      BY <1>1, <2>3
    <3>2. CASE 16 \in S
      BY <3>1, <3>2
    <3>3. CASE 16 \notin S /\ 17 \in S
      BY <3>1, <3>3
    <3>4. CASE 16 \notin S /\ 17 \notin S /\ 18 \in S
      BY <3>1, <3>4
    <3>5. CASE 16 \notin S /\ 17 \notin S /\ 18 \notin S
      <4>1. CASE 19 \in S
        BY <3>1, <3>5, <4>1
      <4>2. CASE 19 \notin S
        <5>1. \A v \in S : v = 20
          BY <3>1, <3>5, <4>2
        <5>2. 20 \in S
          BY <5>1
        <5>3. QED
          BY <5>1, <5>2
      <4>3. QED
        BY <4>1, <4>2
    <3>6. QED
      BY <3>2, <3>3, <3>4, <3>5
  <2>4. 13 \notin S /\ 14 \notin S
    BY UnitsAre
  <2>5. QED
    BY <2>1, <2>2, <2>3, <2>4
<1>3. QED
  BY <1>2 DEF Min

LEMMA ProgressIsNumber == \A s : publicationProgress(s) \in Nat
BY DEF publicationProgress

LEMMA StageProgress ==
  /\ publicationProgress("content_frozen") = 62 /\ publicationProgress("visual_planning") = 68
  /\ publicationProgress("visual_generating") = 74 /\ publicationProgress("visual_ready") = 80
BY DEF publicationProgress

LEMMA StagesAreStates == Stages \subseteq SUCCESSFUL_STATES /\ Targets \subseteq Stages /\ \A u : Stage(u) \in Targets
BY DEF Stages, Targets, SUCCESSFUL_STATES, Stage

LEMMA SuccessorsProgress ==
  ASSUME NEW s \in SUCCESSFUL_STATES, NEW t \in PipelineSuccessors(s)
  PROVE  t \in SUCCESSFUL_STATES /\ publicationProgress(s) <= publicationProgress(t)
BY DEF SUCCESSFUL_STATES, PipelineSuccessors, publicationProgress

\* Where the transition table leads to from a successful state.
LEMMA TableProgress ==
  ASSUME NEW s \in SUCCESSFUL_STATES, NEW t \in ALLOWED_PROJECTION_TRANSITIONS(s), t \in SUCCESSFUL_STATES
  PROVE  publicationProgress(s) <= publicationProgress(t)
<1>1. t \in PipelineSuccessors(s)
  BY DEF ALLOWED_PROJECTION_TRANSITIONS, SUCCESSFUL_STATES
<1>2. QED
  BY <1>1, SuccessorsProgress

-----------------------------------------------------------------------------
(* Executions and their frame. *)

LEMMA IdleIsIdle == Idle.pc = "idle" /\ Idle \notin Work
BY DEF Idle, Work, Positions, Writing, Resuming

LEMMA AtWork ==
  ASSUME IInv, NEW w \in Workers, worker[w].pc # "idle"
  PROVE  worker[w] \in Work /\ PlaceOK(worker[w])
BY IdleIsIdle DEF IInv, Working

\* How the stores change: what an execution relies on is still there.
Grows ==
  /\ log \subseteq log' /\ Receipts \subseteq Receipts'
  /\ \A u \in Calls : evidence[u] = "known" => evidence'[u] = "known"
  /\ run.revision <= run'.revision
  /\ publicationProgress(run.last) <= publicationProgress(run'.last)
  /\ publicationProgress(coordinator.last) <= publicationProgress(coordinator'.last)
  /\ coordinator' = coordinator \/ coordinator'.revision > coordinator.revision
  /\ Generating => Generating'

LEMMA PlaceKept ==
  ASSUME StoresTyped, StoresTyped', CoordinatorOK, Grows, NEW k \in Work, PlaceOK(k)
  PROVE  PlaceOK(k)'
<1>1. /\ run.revision \in Nat /\ run'.revision \in Nat /\ coordinator.revision \in Nat /\ coordinator'.revision \in Nat
      /\ k.expected \in Nat /\ k.co.revision \in Nat
  BY DEF StoresTyped, Work
<1>2. Receipts' \subseteq Units
  BY DEF Receipts
<1>3. k.pc \in Writing => WritingOK(k)'
  BY <1>2 DEF Grows, PlaceOK, WritingOK
<1>4. k.pc \in {"project", "write", "record"} \cup Resuming => k.co.revision \in 1..coordinator'.revision
  BY <1>1 DEF Grows, PlaceOK
<1>5. k.pc \in {"write", "record"} \cup Resuming => k.expected <= run'.revision
  BY <1>1 DEF Grows, PlaceOK
<1>6. k.pc \in {"record"} \cup Resuming /\ k.co.revision = coordinator'.revision => coordinator' = coordinator
  BY <1>1 DEF Grows, PlaceOK
<1>7. k.pc = "record" => RecordOK(k)'
  <2> SUFFICES ASSUME k.pc = "record" PROVE RecordOK(k)'
    OBVIOUS
  <2>1. RecordOK(k)
    BY DEF PlaceOK
  <2>2. publicationProgress(TargetOf(k)) <= publicationProgress(run.last) =>
          publicationProgress(TargetOf(k)) <= publicationProgress(run'.last)
    BY ProgressIsNumber DEF Grows
  <2>3. QED
    BY <1>6, <2>1, <2>2 DEF RecordOK, TargetOf, Grows
<1>8. k.pc = "repair" => <<"resumed", k.job, 0>> \in log'
  BY DEF Grows, PlaceOK
<1>9. k.pc \in Resuming /\ k.co.revision = coordinator'.revision =>
        coordinator'.state = "needs_action" /\ coordinator'.last = k.job
  BY <1>6 DEF PlaceOK
<1>10. /\ k.seen \subseteq Receipts' /\ Before(k.phase) \subseteq Receipts'
       /\ k.phase >= 15 => Generating'
       /\ k.pc \in {"planned", "slots"} => 12 \in Receipts'
       /\ k.pc = "slots" => Generating'
  BY DEF Grows, PlaceOK
<1>11. QED
  BY <1>3, <1>4, <1>5, <1>7, <1>8, <1>9, <1>10 DEF PlaceOK, Before

\* A step of one execution.
LEMMA StepKeeps ==
  ASSUME IInv, Grows, NEW w \in Workers, NEW x \in {Idle} \cup Work, Become(w, x), x # Idle => PlaceOK(x)',
         Ledgers', faults' \in FaultCounts
  PROVE  IInv' /\ Grows
<1>1. worker' \in [Workers -> {Idle} \cup Work] /\ worker'[w] = x
  BY DEF IInv, Become
<1>2. ASSUME NEW v \in Workers PROVE Working(v)'
  <2>1. CASE v = w
    BY <1>1, <2>1 DEF Working
  <2>2. CASE v # w
    <3>1. worker'[v] = worker[v]
      BY <2>2 DEF IInv, Become
    <3>2. PICK k \in {Idle} \cup Work : worker[v] = k
      BY DEF IInv
    <3>3. CASE k = Idle
      BY <3>1, <3>2, <3>3 DEF Working
    <3>4. CASE k \in Work
      <4>1. PlaceOK(k)
        BY <3>2, <3>4, IdleIsIdle DEF IInv, Working
      <4>2. PlaceOK(k)'
        BY <3>4, <4>1, PlaceKept DEF IInv, Ledgers
      <4>3. QED
        BY <3>1, <3>2, <3>4, <4>2 DEF Working
    <3>5. QED
      BY <3>3, <3>4
  <2>3. QED
    BY <2>1, <2>2
<1>3. QED
  BY <1>1, <1>2 DEF IInv

\* A step nobody takes part in.
LEMMA NobodyMoves ==
  ASSUME IInv, Grows, worker' = worker, Ledgers', faults' \in FaultCounts
  PROVE  IInv' /\ Grows
<1>1. ASSUME NEW v \in Workers PROVE Working(v)'
  <2>1. PICK k \in {Idle} \cup Work : worker[v] = k
    BY DEF IInv
  <2>2. CASE k = Idle
    BY <2>1, <2>2 DEF Working
  <2>3. CASE k \in Work
    <3>1. PlaceOK(k)
      BY <2>1, <2>3, IdleIsIdle DEF IInv, Working
    <3>2. PlaceOK(k)'
      BY <2>3, <3>1, PlaceKept DEF IInv, Ledgers
    <3>3. QED
      BY <2>1, <2>3, <3>2 DEF Working
  <2>4. QED
    BY <2>2, <2>3
<1>2. QED
  BY <1>1 DEF IInv

LEMMA StoresStay ==
  ASSUME IInv, UNCHANGED <<stores, units>>
  PROVE  Ledgers' /\ Grows
<1>1. run.revision \in Nat /\ \A s : publicationProgress(s) \in Nat
  BY ProgressIsNumber DEF IInv, Ledgers, StoresTyped
<1>2. Receipts' = Receipts /\ Generating' = Generating
  BY DEF stores, units, Receipts, Generating
<1>3. Grows
  BY <1>1, <1>2 DEF Grows, stores, units
<1>4. Ledgers'
  BY DEF stores, units, IInv, Ledgers, StoresTyped, RunOK, CoordinatorOK, CallsOK, CoordinatorFollows, ReadyIsComplete,
         Receipts, Generating
<1>5. QED
  BY <1>3, <1>4

\* A step within an execution, that leaves the stores alone.
LEMMA LocalStep ==
  ASSUME IInv, NEW w \in Workers, NEW x \in {Idle} \cup Work, Become(w, x), x # Idle => PlaceOK(x),
         UNCHANGED <<stores, units>>, faults' \in FaultCounts
  PROVE  IInv' /\ Grows
<1>1. Ledgers' /\ Grows
  BY StoresStay
<1>2. PICK k \in {Idle} \cup Work : k = x
  OBVIOUS
<1>3. k # Idle => PlaceOK(k)'
  <2>1. CASE k \in Work
    BY <1>1, <1>2, <2>1, PlaceKept DEF IInv, Ledgers
  <2>2. CASE k = Idle
    BY <2>2
  <2>3. QED
    BY <1>2, <2>1, <2>2
<1>4. QED
  BY <1>1, <1>2, <1>3, StepKeeps

-----------------------------------------------------------------------------
(* Where an execution goes.                                                *)

LEMMA WorkerIsWork ==
  ASSUME NEW pc \in Positions, NEW job \in Jobs, NEW phase \in Units \cup {0, 11, 13}, NEW seen \in SUBSET Units,
         NEW carried \in Units \cup {0}, NEW try \in 1..StepTries
  PROVE  /\ Worker(pc, job, phase, seen, carried) \in Work
         /\ [Worker(pc, job, phase, seen, carried) EXCEPT !.try = try] \in Work
<1>1. 1 \in 1..StepTries
  BY VisualRecoveryOK DEF VisualRecoveryAssumption
<1>2. Nothing \in [state : PUBLICATION_STATES \cup {"none"}, revision : Nat]
  BY DEF Nothing
<1>3. QED
  BY <1>1, <1>2 DEF Worker, Work

\* An execution that has nothing to write yet.
LEMMA GoesMoves ==
  ASSUME NEW w \in Workers, worker[w] \in Work, NEW pc \in {"ledger", "planned", "slots"}, Goes(w, pc)
  PROVE  \E x \in Work : Become(w, x) /\ x.pc = pc /\ x.job = "none" /\ x.phase = 0 /\ x.seen = {}
<1> DEFINE x == Worker(pc, "none", 0, {}, worker[w].carried)
<1>1. worker[w].carried \in Units \cup {0} /\ worker[w].try \in 1..StepTries
  BY DEF Work
<1>2. x \in Work
  BY <1>1, WorkerIsWork DEF Positions, Jobs
<1>3. x.pc = pc /\ x.job = "none" /\ x.phase = 0 /\ x.seen = {}
  BY DEF Worker
<1>4. QED
  BY <1>2, <1>3 DEF Goes

LEMMA BeginsMoves ==
  ASSUME NEW w \in Workers, worker[w] \in Work, NEW job \in Jobs, NEW phase \in Units \cup {0, 11, 13}, Begins(w, job, phase)
  PROVE  \E x \in Work : Become(w, x) /\ x.pc = "begin" /\ x.job = job /\ x.phase = phase /\ x.seen = worker[w].seen
<1> DEFINE x == [Worker("begin", job, phase, worker[w].seen, worker[w].carried) EXCEPT !.try = worker[w].try]
<1>1. worker[w].carried \in Units \cup {0} /\ worker[w].try \in 1..StepTries /\ worker[w].seen \in SUBSET Units
  BY DEF Work
<1>2. x \in Work
  BY <1>1, WorkerIsWork DEF Positions, Writing
<1>3. x.pc = "begin" /\ x.job = job /\ x.phase = phase /\ x.seen = worker[w].seen
  BY DEF Worker
<1>4. QED
  BY <1>2, <1>3 DEF Begins

\* The loop goes to the first unit after a phase without a receipt it saw.
LEMMA NextUnitMoves ==
  ASSUME NEW w \in Workers, worker[w] \in Work, NEW phase \in Nat, phase < 20, NEW seen \in SUBSET Units,
         NextUnit(w, phase, seen)
  PROVE  \E u \in Units : \E x \in Work :
           /\ Become(w, x) /\ x.job = "artifact" /\ x.phase = u /\ x.seen = seen
           /\ u > phase /\ \A v \in Units : v > phase /\ v < u => v \in seen
           /\ x.pc = IF u = 20 THEN "qa" ELSE "call"
<1> DEFINE S == {v \in Units : v > phase /\ (v \notin seen \/ v = 20)}
           u == Min(S)
           x == Worker(IF u = 20 THEN "qa" ELSE "call", "artifact", u, seen, worker[w].carried)
<1>1. 20 \in S /\ S \subseteq Units
  BY UnitsAre
<1>2. u \in S /\ \A v \in S : u <= v
  BY <1>1, LeastUnit
<1>3. u \in Units /\ u > phase /\ \A v \in Units : v > phase /\ v < u => v \in seen
  <2>1. \A v \in Units : v \in Nat
    BY UnitsAre
  <2>2. QED
    BY <1>2, <2>1
<1>4. worker[w].carried \in Units \cup {0} /\ worker[w].try \in 1..StepTries
  BY DEF Work
<1>5. Become(w, x)
  BY DEF NextUnit
<1>6. x \in Work /\ x.job = "artifact" /\ x.phase = u /\ x.seen = seen /\ x.pc = IF u = 20 THEN "qa" ELSE "call"
  <2> HIDE DEF u
  <2>1. (IF u = 20 THEN "qa" ELSE "call") \in Positions /\ "artifact" \in Jobs
    BY DEF Positions, Jobs
  <2>2. x \in Work
    BY <1>3, <1>4, <2>1, WorkerIsWork
  <2>3. QED
    BY <2>2 DEF Worker
<1> HIDE DEF u, x
<1>7. QED
  BY <1>3, <1>5, <1>6

\* Where a failed step or write leads.
Retreats(w, x) ==
  /\ x.pc \in {"begin", "call"} /\ x.phase = worker[w].phase /\ x.seen = worker[w].seen
  /\ x.pc = "begin" => x.job \in {"failed", "needs_action"}
  /\ x.pc = "call" => x.job = "artifact" /\ x.phase \in Calls

LEMMA StepFailsMoves ==
  ASSUME NEW w \in Workers, worker[w] \in Work, worker[w].phase \in Units, NEW outcome, StepFails(w, outcome)
  PROVE  \E x \in Work : Become(w, x) /\ Retreats(w, x)
<1>1. /\ worker[w].try \in 1..StepTries /\ worker[w].seen \in SUBSET Units /\ StepTries \in Nat
      /\ worker[w].phase \in Units \cup {0, 11, 13} /\ 0 \in Units \cup {0}
  BY VisualRecoveryOK DEF Work, VisualRecoveryAssumption
<1>2. CASE worker[w].try < StepTries /\ worker[w].phase # 20
  <2> DEFINE x == [Worker("call", "artifact", worker[w].phase, worker[w].seen, 0) EXCEPT !.try = worker[w].try + 1]
  <2>1. Become(w, x)
    BY <1>2 DEF StepFails
  <2>2. worker[w].try + 1 \in 1..StepTries
    BY <1>1, <1>2
  <2>3. x \in Work
    BY <1>1, <2>2, WorkerIsWork DEF Positions, Jobs
  <2>4. Retreats(w, x)
    BY <1>2, UnitsAre DEF Retreats, Worker
  <2>5. QED
    BY <2>1, <2>3, <2>4
<1>3. CASE ~(worker[w].try < StepTries /\ worker[w].phase # 20)
  <2>1. PICK job \in {"needs_action", "failed"} : Begins(w, job, worker[w].phase)
    BY <1>3 DEF StepFails
  <2>2. job \in Jobs
    BY DEF Jobs
  <2>3. \E x \in Work : Become(w, x) /\ x.pc = "begin" /\ x.job = job /\ x.phase = worker[w].phase /\ x.seen = worker[w].seen
    BY <1>1, <2>1, <2>2, BeginsMoves
  <2>4. QED
    BY <2>3 DEF Retreats
<1>4. QED
  BY <1>2, <1>3

LEMMA WriteFailsMoves ==
  ASSUME NEW w \in Workers, worker[w] \in Work, WritingOK(worker[w]), NEW outcome, WriteFails(w, outcome)
  PROVE  \E x \in {Idle} \cup Work : Become(w, x) /\ (x # Idle => Retreats(w, x))
<1>1. CASE worker[w].job = "artifact"
  <2>1. worker[w].phase \in Units /\ StepFails(w, outcome)
    BY <1>1 DEF WritingOK, WriteFails
  <2>2. QED
    BY <2>1, StepFailsMoves
<1>2. CASE worker[w].job \in {"needs_action", "failed"}
  BY <1>2 DEF WriteFails
<1>3. CASE worker[w].job \notin {"artifact", "needs_action", "failed"}
  <2>1. Begins(w, "failed", worker[w].phase)
    BY <1>3 DEF WriteFails
  <2>2. worker[w].phase \in Units \cup {0, 11, 13} /\ "failed" \in Jobs
    BY DEF Work, Jobs
  <2>3. \E x \in Work : Become(w, x) /\ x.pc = "begin" /\ x.job = "failed" /\ x.phase = worker[w].phase /\ x.seen = worker[w].seen
    BY <2>1, <2>2, BeginsMoves
  <2>4. QED
    BY <2>3 DEF Retreats
<1>4. QED
  BY <1>1, <1>2, <1>3

\* A retreat rests on no more than the place it leaves.
LEMMA RetreatPlace ==
  ASSUME NEW w \in Workers, PlaceOK(worker[w]), NEW x, Retreats(w, x)
  PROVE  PlaceOK(x)
BY DEF Retreats, PlaceOK, Writing, Resuming, WritingOK

-----------------------------------------------------------------------------
(* The steps that leave the stores alone.                                  *)

LEMMA FaultsBounded == ASSUME IInv, NEW kind, Strikes(kind) PROVE faults' \in FaultCounts
BY DEF Strikes, Fault

LEMMA StartsBounded == ASSUME IInv, NEW w \in Workers, Starts(w) PROVE faults' \in FaultCounts
BY DEF IInv, Starts, Fault

\* The phase starts in content_frozen, or goes on behind it.
LEMMA EnterKeeps ==
  ASSUME IInv, NEW w \in Workers, Enter(w)
  PROVE  IInv' /\ Grows
<1> DEFINE begin == Worker("begin", "visual_planning", 11, {}, 0)
           ledger == Worker("ledger", "none", 0, {}, 0)
<1>1. begin \in Work /\ ledger \in Work
  <2>1. 1 \in 1..StepTries
    BY VisualRecoveryOK DEF VisualRecoveryAssumption
  <2>2. QED
    BY <2>1, WorkerIsWork DEF Positions, Writing, Jobs
<1>2. PlaceOK(begin) /\ PlaceOK(ledger)
  BY BeforePhases DEF Worker, PlaceOK, Writing, Resuming, WritingOK
<1>3. UNCHANGED <<stores, units>> /\ Starts(w) /\ (Become(w, begin) \/ Become(w, ledger))
  BY DEF Enter
<1> HIDE DEF begin, ledger
<1>4. QED
  BY <1>1, <1>2, <1>3, StartsBounded, LocalStep

\* An execution that goes to a place of the loop that rests on what is recorded.
LEMMA RestPlace ==
  ASSUME NEW x \in Work, x.pc \in {"ledger", "planned", "slots"}, x.phase = 0, x.seen = {},
         x.pc \in {"planned", "slots"} => 12 \in Receipts, x.pc = "slots" => Generating
  PROVE  PlaceOK(x)
BY BeforePhases DEF PlaceOK, Writing, Resuming

LEMMA ReadLedgerKeeps ==
  ASSUME IInv, NEW w \in Workers, ReadLedger(w)
  PROVE  IInv' /\ Grows
<1>1. worker[w] \in Work /\ UNCHANGED <<stores, units, faults>> /\ faults \in FaultCounts
  BY AtWork DEF ReadLedger, IInv
<1>2. CASE receipt[12] = 0
  <2> DEFINE x == Worker("call", "artifact", 12, {}, worker[w].carried)
  <2>1. worker[w].carried \in Units \cup {0} /\ 1 \in 1..StepTries
    BY <1>1, VisualRecoveryOK DEF Work, VisualRecoveryAssumption
  <2>2. x \in Work
    BY <2>1, UnitsAre, WorkerIsWork DEF Positions, Jobs
  <2>3. PlaceOK(x)
    BY UnitsAre, BeforePhases DEF Worker, PlaceOK, Writing, Resuming
  <2>4. Become(w, x)
    BY <1>2 DEF ReadLedger
  <2> HIDE DEF x
  <2>5. QED
    BY <1>1, <2>2, <2>3, <2>4, LocalStep
<1>3. CASE receipt[12] # 0
  <2>1. Goes(w, "planned") /\ 12 \in Receipts
    BY <1>3, UnitsAre DEF ReadLedger, Receipts
  <2>2. PICK x \in Work : Become(w, x) /\ x.pc = "planned" /\ x.phase = 0 /\ x.seen = {}
    BY <1>1, <2>1, GoesMoves
  <2>3. PlaceOK(x)
    BY <2>1, <2>2, RestPlace
  <2>4. QED
    BY <1>1, <2>2, <2>3, LocalStep
<1>4. QED
  BY <1>2, <1>3

LEMMA ReadStageKeeps ==
  ASSUME IInv, NEW w \in Workers, ReadStage(w)
  PROVE  IInv' /\ Grows
<1>1. /\ worker[w] \in Work /\ PlaceOK(worker[w]) /\ UNCHANGED <<stores, units, faults>> /\ faults \in FaultCounts
      /\ 12 \in Receipts
  BY AtWork DEF ReadStage, IInv, PlaceOK
<1>2. CASE Begins(w, "visual_generating", 13)
  <2>1. PICK x \in Work : /\ Become(w, x) /\ x.pc = "begin" /\ x.job = "visual_generating" /\ x.phase = 13
                          /\ x.seen = worker[w].seen
    BY <1>1, <1>2, BeginsMoves DEF Jobs
  <2>2. PlaceOK(x)
    BY <1>1, <2>1, BeforePhases DEF PlaceOK, Writing, Resuming, WritingOK
  <2>3. QED
    BY <1>1, <2>1, <2>2, LocalStep
<1>3. CASE coordinator.state = "visual_generating" /\ Goes(w, "slots")
  <2>1. Generating
    BY <1>3, StagesAreStates DEF IInv, Ledgers, CoordinatorOK, Generating, Stages
  <2>2. PICK x \in Work : Become(w, x) /\ x.pc = "slots" /\ x.phase = 0 /\ x.seen = {}
    BY <1>1, <1>3, GoesMoves
  <2>3. PlaceOK(x)
    BY <1>1, <2>1, <2>2, RestPlace
  <2>4. QED
    BY <1>1, <2>2, <2>3, LocalStep
<1>4. CASE Become(w, Idle)
  BY <1>1, <1>4, LocalStep
<1>5. QED
  BY <1>2, <1>3, <1>4 DEF ReadStage

\* Where the loop goes, everything before has its receipt.
LEMMA UnitPlace ==
  ASSUME NEW x \in Work, x.pc = (IF x.phase = 20 THEN "qa" ELSE "call"), x.job = "artifact", x.phase \in Units,
         x.seen \subseteq Receipts, Before(x.phase) \subseteq Receipts, Generating
  PROVE  PlaceOK(x)
BY UnitsAre DEF PlaceOK, Writing, Resuming

LEMMA ReadSlotsKeeps ==
  ASSUME IInv, NEW w \in Workers, ReadSlots(w)
  PROVE  IInv' /\ Grows
<1>1. /\ worker[w] \in Work /\ PlaceOK(worker[w]) /\ UNCHANGED <<stores, units, faults>> /\ faults \in FaultCounts
      /\ 12 \in Receipts /\ Generating /\ Receipts \subseteq Units
  BY AtWork DEF ReadSlots, IInv, PlaceOK, Receipts
<1>2. PICK u \in Units, x \in Work :
        /\ Become(w, x) /\ x.job = "artifact" /\ x.phase = u /\ x.seen = Receipts
        /\ u > 13 /\ \A v \in Units : v > 13 /\ v < u => v \in Receipts
        /\ x.pc = IF u = 20 THEN "qa" ELSE "call"
  BY <1>1, NextUnitMoves DEF ReadSlots
<1>3. Before(u) \subseteq Receipts
  <2>1. \A v \in Units : v \in Int /\ (v = 12 \/ v > 13)
    BY UnitsAre
  <2>2. QED
    BY <1>1, <1>2, <2>1 DEF Before
<1>4. PlaceOK(x)
  BY <1>1, <1>2, <1>3, UnitPlace
<1>5. QED
  BY <1>1, <1>2, <1>4, LocalStep

LEMMA CheckQaKeeps ==
  ASSUME IInv, NEW w \in Workers, CheckQa(w)
  PROVE  IInv' /\ Grows
<1>1. /\ worker[w] \in Work /\ PlaceOK(worker[w]) /\ UNCHANGED <<stores, units, faults>> /\ faults \in FaultCounts
      /\ worker[w].phase = 20
  BY AtWork DEF CheckQa, IInv, PlaceOK
<1>2. PICK job \in {"visual_ready", "artifact"} : Begins(w, job, 20) /\ (job = "visual_ready" => 20 \in Receipts)
  BY DEF CheckQa
<1>3. PICK x \in Work : Become(w, x) /\ x.pc = "begin" /\ x.job = job /\ x.phase = 20 /\ x.seen = worker[w].seen
  BY <1>1, <1>2, UnitsAre, BeginsMoves DEF Jobs
<1>4. job = "visual_ready" => Receipts = Units
  BY <1>1, <1>2, BeforePhases DEF PlaceOK, Receipts
<1>5. PlaceOK(x)
  BY <1>1, <1>3, <1>4, UnitsAre DEF PlaceOK, Writing, Resuming, WritingOK
<1>6. QED
  BY <1>1, <1>3, <1>5, LocalStep

LEMMA StopKeeps ==
  ASSUME IInv, NEW w \in Workers, StopCancelled(w) \/ Crash(w)
  PROVE  IInv' /\ Grows
<1>1. Become(w, Idle) /\ UNCHANGED <<stores, units>>
  BY DEF StopCancelled, Crash
<1>2. faults' \in FaultCounts
  BY DEF StopCancelled, Crash, Fault, IInv
<1>3. QED
  BY <1>1, <1>2, LocalStep

\* What was read of the Coordinator is at most as new as its run.
LEMMA ReadCoordinatorKeeps ==
  ASSUME IInv, NEW w \in Workers, ReadCoordinator(w)
  PROVE  IInv' /\ Grows
<1> DEFINE x == [worker[w] EXCEPT !.pc = "project", !.co = [state |-> coordinator.state, revision |-> coordinator.revision]]
<1>1. /\ worker[w] \in Work /\ PlaceOK(worker[w]) /\ UNCHANGED <<stores, units, faults>> /\ faults \in FaultCounts
      /\ worker[w].pc = "begin" /\ Become(w, x)
  BY AtWork DEF ReadCoordinator, IInv
<1>2. coordinator.revision \in Nat /\ coordinator.revision >= 1 /\ coordinator.state \in PUBLICATION_STATES
  BY DEF IInv, Ledgers, StoresTyped, CoordinatorOK
<1>3. x \in Work
  BY <1>1, <1>2 DEF Work, Positions, Writing
<1>4. /\ x.pc = "project" /\ x.co.revision = coordinator.revision /\ x.job = worker[w].job /\ x.phase = worker[w].phase
      /\ x.seen = worker[w].seen
  BY <1>1 DEF Work
<1> HIDE DEF x
<1>5. PlaceOK(x)
  BY <1>1, <1>2, <1>4 DEF PlaceOK, Writing, Resuming, WritingOK
<1>6. QED
  BY <1>1, <1>3, <1>5, LocalStep

LEMMA ReadProjectionKeeps ==
  ASSUME IInv, NEW w \in Workers, ReadProjection(w)
  PROVE  IInv' /\ Grows
<1> DEFINE same == worker[w].job = "artifact" /\ run.state = Stage(worker[w].phase)
           x == [worker[w] EXCEPT !.pc = "write", !.expected = run.revision, !.same = same]
<1>1. /\ worker[w] \in Work /\ PlaceOK(worker[w]) /\ UNCHANGED <<stores, units, faults>> /\ faults \in FaultCounts
      /\ worker[w].pc = "project"
  BY AtWork DEF ReadProjection, IInv
<1>2. CASE Become(w, Idle)
  BY <1>1, <1>2, LocalStep
<1>3. CASE Become(w, x)
  <2>1. run.revision \in Nat
    BY DEF IInv, Ledgers, StoresTyped
  <2>2. x \in Work
    <3>1. same \in BOOLEAN
      OBVIOUS
    <3> HIDE DEF same
    <3>2. QED
      BY <1>1, <2>1, <3>1 DEF Work, Positions, Writing
  <2>3. /\ x.pc = "write" /\ x.expected = run.revision /\ x.co = worker[w].co /\ x.job = worker[w].job
        /\ x.phase = worker[w].phase /\ x.seen = worker[w].seen
    BY <1>1 DEF Work
  <2> HIDE DEF x
  <2>4. PlaceOK(x)
    BY <1>1, <2>1, <2>3 DEF PlaceOK, Writing, Resuming, WritingOK
  <2>5. QED
    BY <1>1, <1>3, <2>2, <2>4, LocalStep
<1>4. QED
  BY <1>2, <1>3 DEF ReadProjection

LEMMA VerifySetKeeps ==
  ASSUME IInv, NEW w \in Workers, VerifySet(w)
  PROVE  IInv' /\ Grows
<1>1. /\ worker[w] \in Work /\ PlaceOK(worker[w]) /\ UNCHANGED <<stores, units, faults>> /\ faults \in FaultCounts
      /\ worker[w].phase = 20
  BY AtWork DEF VerifySet, IInv, PlaceOK
<1>2. CASE Become(w, Idle)
  BY <1>1, <1>2, LocalStep
<1>3. CASE Begins(w, IF Receipts = Units THEN "visual_ready" ELSE "needs_action", 20)
  <2>1. PICK job \in {"visual_ready", "needs_action"} : Begins(w, job, 20) /\ (job = "visual_ready" => Receipts = Units)
    BY <1>3
  <2>2. PICK x \in Work : Become(w, x) /\ x.pc = "begin" /\ x.job = job /\ x.phase = 20 /\ x.seen = worker[w].seen
    BY <1>1, <2>1, UnitsAre, BeginsMoves DEF Jobs
  <2>3. PlaceOK(x)
    BY <1>1, <2>1, <2>2 DEF PlaceOK, Writing, Resuming, WritingOK
  <2>4. QED
    BY <1>1, <2>2, <2>3, LocalStep
<1>4. QED
  BY <1>2, <1>3 DEF VerifySet

-----------------------------------------------------------------------------
(* Calls: only what the adapter knows changes.                             *)

LEMMA EvidenceStep ==
  ASSUME IInv, UNCHANGED <<stores, receipt>>, NEW u \in Calls, NEW v \in {"none", "open", "known", "failed"},
         evidence' = [evidence EXCEPT ![u] = v], evidence[u] = "known" => v = "known",
         evidence[u] = "none" => Before(u) \subseteq Receipts /\ (u >= 15 => Generating)
  PROVE  Ledgers' /\ Grows /\ evidence'[u] = v
<1>1. run.revision \in Nat /\ \A s : publicationProgress(s) \in Nat
  BY ProgressIsNumber DEF IInv, Ledgers, StoresTyped
<1>2. Receipts' = Receipts /\ Generating' = Generating
  BY DEF stores, Receipts, Generating
<1>3. u \in Units /\ u # 20
  BY UnitsAre
<1>4. evidence'[u] = v /\ \A c \in Units : c # u => evidence'[c] = evidence[c]
  BY <1>3 DEF IInv, Ledgers, StoresTyped
<1>5. Grows
  BY <1>1, <1>2, <1>4, UnitsAre DEF Grows, stores
<1>6. StoresTyped' /\ RunOK' /\ CoordinatorFollows' /\ ReadyIsComplete' /\ CoordinatorOK'
  BY <1>2, <1>3 DEF stores, IInv, Ledgers, StoresTyped, RunOK, CoordinatorOK, CoordinatorFollows, ReadyIsComplete
<1>7. CallsOK'
  <2>1. evidence'[20] = "none"
    BY <1>3, <1>4, UnitsAre DEF IInv, Ledgers, CallsOK
  <2>2. ASSUME NEW c \in Calls, evidence'[c] # "none"
        PROVE  Before(c) \subseteq Receipts /\ (c >= 15 => Generating)
    BY <1>4, <2>2, UnitsAre DEF IInv, Ledgers, CallsOK
  <2>3. ASSUME NEW c \in Calls, c \in Receipts
        PROVE  evidence'[c] = "known"
    BY <1>4, <2>3, UnitsAre DEF IInv, Ledgers, CallsOK
  <2>4. QED
    BY <1>2, <2>1, <2>2, <2>3 DEF CallsOK, Before
<1>8. QED
  BY <1>4, <1>5, <1>6, <1>7 DEF Ledgers

LEMMA CallSucceedsKeeps ==
  ASSUME IInv, NEW w \in Workers, CallSucceeds(w)
  PROVE  IInv' /\ Grows
<1> DEFINE u == worker[w].phase
<1>1. /\ worker[w] \in Work /\ PlaceOK(worker[w]) /\ UNCHANGED <<stores, receipt, faults>> /\ faults \in FaultCounts
      /\ u \in Calls /\ worker[w].job = "artifact" /\ worker[w].pc = "call"
  BY AtWork DEF CallSucceeds, IInv, PlaceOK
<1>2. evidence' = [evidence EXCEPT ![u] = "known"]
  BY DEF CallSucceeds
<1>3. Before(u) \subseteq Receipts /\ (u >= 15 => Generating)
  BY <1>1 DEF PlaceOK
<1>4. Ledgers' /\ Grows /\ evidence'[u] = "known"
  <2> HIDE DEF u
  <2>1. QED
    BY <1>1, <1>2, <1>3, EvidenceStep
<1>5. PICK x : x = [worker[w] EXCEPT !.pc = "begin", !.carried = 0]
  OBVIOUS
<1>6. Become(w, x)
  BY <1>5 DEF CallSucceeds
<1>7. x \in Work
  BY <1>1, <1>5 DEF Work, Positions, Writing
<1>8. x.pc = "begin" /\ x.job = "artifact" /\ x.phase = u /\ x.seen = worker[w].seen
  BY <1>1, <1>5 DEF Work
<1>9. PlaceOK(x)'
  BY <1>1, <1>4, <1>8, UnitsAre DEF PlaceOK, Writing, Resuming, WritingOK, Grows, Before
<1>10. QED
  BY <1>1, <1>4, <1>6, <1>7, <1>9, StepKeeps

\* A call that fails, or whose outcome stays unknown.
LEMMA CallRetreats ==
  ASSUME IInv, NEW w \in Workers, worker[w].pc = "call", NEW outcome, StepFails(w, outcome), NEW v,
         v = evidence[worker[w].phase] \/ (evidence[worker[w].phase] = "none" /\ v \in {"open", "failed"}),
         evidence' = [evidence EXCEPT ![worker[w].phase] = v],
         UNCHANGED <<stores, receipt>>, faults' \in FaultCounts
  PROVE  IInv' /\ Grows
<1> DEFINE u == worker[w].phase
<1>1. /\ worker[w] \in Work /\ PlaceOK(worker[w]) /\ u \in Calls /\ u \in Units
  BY AtWork, UnitsAre DEF IInv, PlaceOK
<1>2. Before(u) \subseteq Receipts /\ (u >= 15 => Generating)
  BY <1>1 DEF PlaceOK
<1>3. evidence[u] \in {"none", "open", "known", "failed"}
  BY <1>1 DEF IInv, Ledgers, StoresTyped
<1>4. Ledgers' /\ Grows
  <2>1. v \in {"none", "open", "known", "failed"} /\ (evidence[u] = "known" => v = "known")
    BY <1>3
  <2> HIDE DEF u
  <2>2. evidence' = [evidence EXCEPT ![u] = v]
    BY DEF u
  <2>3. QED
    BY <1>1, <1>2, <2>1, <2>2, EvidenceStep
<1>5. PICK x \in Work : Become(w, x) /\ Retreats(w, x)
  BY <1>1, StepFailsMoves
<1>6. PlaceOK(x)
  BY <1>1, <1>5, RetreatPlace
<1>7. PlaceOK(x)'
  BY <1>4, <1>6, PlaceKept DEF IInv, Ledgers
<1>8. QED
  BY <1>4, <1>5, <1>7, StepKeeps

LEMMA CallFailsKeeps ==
  ASSUME IInv, NEW w \in Workers, CallFails(w)
  PROVE  IInv' /\ Grows
<1>1. /\ worker[w].pc = "call" /\ StepFails(w, "failed") /\ UNCHANGED <<stores, receipt>> /\ faults' \in FaultCounts
      /\ evidence[worker[w].phase] \in {"none", "failed"}
      /\ evidence' = [evidence EXCEPT ![worker[w].phase] = "failed"]
  BY DEF CallFails, IInv
<1>2. QED
  BY <1>1, CallRetreats

LEMMA CallUnknownKeeps ==
  ASSUME IInv, NEW w \in Workers, CallUnknown(w)
  PROVE  IInv' /\ Grows
<1> DEFINE u == worker[w].phase
           v == IF evidence[u] = "none" THEN "open" ELSE evidence[u]
<1>1. worker[w].pc = "call" /\ StepFails(w, "unknown") /\ UNCHANGED <<stores, receipt>>
  BY DEF CallUnknown
<1>2. evidence' = [evidence EXCEPT ![u] = v]
  BY DEF CallUnknown
<1>3. faults' \in FaultCounts
  BY FaultsBounded DEF CallUnknown, IInv
<1>4. v = evidence[worker[w].phase] \/ (evidence[worker[w].phase] = "none" /\ v \in {"open", "failed"})
  OBVIOUS
<1> HIDE DEF v
<1>5. QED
  BY <1>1, <1>2, <1>3, <1>4, CallRetreats

LEMMA EvidenceArrivesKeeps ==
  ASSUME IInv, NEW u \in Units, EvidenceArrives(u)
  PROVE  IInv' /\ Grows
<1>1. u \in Calls /\ evidence[u] = "open"
  BY UnitsAre DEF EvidenceArrives, IInv, Ledgers, CallsOK
<1>2. PICK v \in {"known", "failed"} : evidence' = [evidence EXCEPT ![u] = v]
  BY DEF EvidenceArrives
<1>3. Ledgers' /\ Grows
  BY <1>1, <1>2, EvidenceStep DEF EvidenceArrives
<1>4. QED
  BY <1>3, NobodyMoves DEF EvidenceArrives, IInv

-----------------------------------------------------------------------------
(* D1: a transition that succeeds.                                         *)

Forward == {"artifact", "visual_planning", "visual_generating", "visual_ready"}

\* A transition as the phase asks for it.
WellFormed(t) ==
  /\ t.target \in PUBLICATION_STATES /\ t.code \in {"none", "unknown", "reconciled", "failed"}
  /\ t.key[1] \in Keys \ {"retry", "cancel"}
  /\ t.key[1] = "artifact" => t.key[2] \in Units /\ t.target = Stage(t.key[2])
  /\ t.key[1] \in {"visual_planning", "visual_generating", "visual_ready"} => t.target = t.key[1]
  /\ t.key = <<"visual_ready", 20, 0>> => Receipts = Units

\* The row's last successful state never goes back.
LEMMA ProjectionProgress ==
  ASSUME IInv, NEW target \in PUBLICATION_STATES, NEW same, TransitionAllowed(target, same), target \in SUCCESSFUL_STATES
  PROVE  publicationProgress(run.last) <= publicationProgress(target)
<1>1. run.last \in SUCCESSFUL_STATES /\ RunOK /\ publicationProgress(run.last) \in Nat
  BY ProgressIsNumber DEF IInv, Ledgers, StoresTyped
<1>2. CASE target = run.state
  BY <1>1, <1>2 DEF RunOK
<1>3. CASE run.state = "retrying"
  <2>1. target = run.resume
    BY <1>3, StagesAreStates DEF TransitionAllowed, SUCCESSFUL_STATES
  <2>2. QED
    BY <1>1, <1>3, <2>1 DEF RunOK
<1>4. CASE run.state # "retrying" /\ target # run.state
  <2>1. target \in ALLOWED_PROJECTION_TRANSITIONS(run.state)
    BY <1>4 DEF TransitionAllowed, SUCCESSFUL_STATES
  <2>2. run.state \in SUCCESSFUL_STATES
    <3>1. run.state \in SUCCESSFUL_STATES \cup {"needs_action", "failed", "cancelled"}
      BY <1>4 DEF IInv, Ledgers, StoresTyped, PUBLICATION_STATES
    <3>2. run.state \in {"needs_action", "failed"} => target \in {"retrying", "cancelled"}
      BY <2>1 DEF ALLOWED_PROJECTION_TRANSITIONS, NotHoldable
    <3>3. run.state # "cancelled"
      BY <2>1 DEF ALLOWED_PROJECTION_TRANSITIONS, NotHoldable
    <3>4. "retrying" \notin SUCCESSFUL_STATES /\ "cancelled" \notin SUCCESSFUL_STATES
      BY DEF SUCCESSFUL_STATES
    <3>5. QED
      BY <3>1, <3>2, <3>3, <3>4
  <2>3. QED
    BY <1>1, <2>1, <2>2, TableProgress DEF RunOK
<1>5. QED
  BY <1>2, <1>3, <1>4

LEMMA RowStep ==
  ASSUME IInv, NEW t, WellFormed(t), TransitionSucceeds(t), UNCHANGED <<coordinator, units>>
  PROVE  /\ Ledgers' /\ Grows /\ t.key \in log'
         /\ t.key[1] \in Forward /\ t.target \in SUCCESSFUL_STATES =>
              /\ publicationProgress(run.last) <= publicationProgress(t.target)
              /\ publicationProgress(t.target) <= publicationProgress(run'.last)
<1>1. /\ run.revision \in Nat /\ run.last \in SUCCESSFUL_STATES /\ RunOK /\ StoresTyped
      /\ \A s : publicationProgress(s) \in Nat
  BY ProgressIsNumber DEF IInv, Ledgers, StoresTyped
<1>2. Receipts' = Receipts /\ Generating' = Generating
  BY DEF units, Receipts, Generating
<1>3. CASE IsReplay(t) /\ UNCHANGED <<run, log>>
  <2>1. run.event.key = t.key
    BY <1>3 DEF IsReplay, EventOf
  <2>2. t.key \in log
    BY <1>1, <2>1 DEF RunOK, WellFormed
  <2>3. t.key[1] \in Forward => run.state = t.target
    BY <1>1, <2>1 DEF RunOK, WellFormed, Forward
  <2>4. Ledgers' /\ Grows
    BY <1>3, StoresStay DEF stores, units
  <2>5. QED
    BY <1>1, <1>3, <2>2, <2>3, <2>4 DEF RunOK
<1>4. CASE /\ run.revision = t.expected /\ TransitionAllowed(t.target, t.same) /\ t.key \notin log
           /\ run' = Projected(t.target, t.code, EventOf(t)) /\ log' = log \cup {t.key}
  <2>1. /\ run'.state = t.target /\ run'.revision = run.revision + 1
        /\ run'.resume = (IF t.target = "retrying" THEN run.last ELSE "none")
        /\ run'.last = (IF t.target \in SUCCESSFUL_STATES THEN t.target ELSE run.last)
        /\ run'.code = (IF t.target \in ExceptionalStates THEN t.code ELSE "none")
        /\ run'.event.key = t.key
    BY <1>4 DEF Projected, EventOf
  <2>2. publicationProgress(run.last) <= publicationProgress(run'.last)
    BY <1>1, <1>4, <2>1, ProjectionProgress DEF WellFormed
  <2>3. StoresTyped'
    BY <1>1, <1>4, <2>1 DEF StoresTyped, WellFormed, units
  <2>4. RunOK'
    BY <1>1, <1>4, <2>1 DEF RunOK, WellFormed, SUCCESSFUL_STATES
  <2>5. CoordinatorOK'
    <3>1. publicationProgress(coordinator.last) <= publicationProgress(run'.last)
      BY <1>1, <2>2 DEF IInv, Ledgers, CoordinatorOK
    <3>2. QED
      BY <1>2, <3>1 DEF IInv, Ledgers, CoordinatorOK
  <2>6. CallsOK' /\ CoordinatorFollows'
    BY <1>2, <1>4 DEF IInv, Ledgers, CallsOK, CoordinatorFollows, units, Before
  <2>7. ReadyIsComplete'
    BY <1>2, <1>4 DEF IInv, Ledgers, ReadyIsComplete, WellFormed
  <2>8. Grows
    BY <1>1, <1>2, <1>4, <2>1, <2>2 DEF Grows, units
  <2>9. t.target \in SUCCESSFUL_STATES => publicationProgress(run.last) <= publicationProgress(t.target)
    BY <2>1, <2>2
  <2>10. QED
    BY <1>1, <1>4, <2>1, <2>3, <2>4, <2>5, <2>6, <2>7, <2>8, <2>9 DEF Ledgers
<1>5. QED
  BY <1>3, <1>4 DEF TransitionSucceeds

LEMMA TransitionWellFormed ==
  ASSUME NEW w \in Workers, worker[w] \in Work, WritingOK(worker[w])
  PROVE  /\ WellFormed(TransitionOf(w)) /\ TransitionOf(w).key[1] = worker[w].job
         /\ TransitionOf(w).key = KeyOf(w) /\ TransitionOf(w).target = TargetOf(worker[w])
         /\ TargetOf(worker[w]) \in SUCCESSFUL_STATES => worker[w].job \in Forward
<1>1. worker[w].job \in Jobs \ {"none"}
  BY DEF Work, WritingOK
<1>2. KeyOf(w)[1] = worker[w].job /\ KeyOf(w)[2] = worker[w].phase
  BY DEF KeyOf
<1>3. Target(w) \in PUBLICATION_STATES
  BY <1>1, StagesAreStates DEF Target, Jobs, PUBLICATION_STATES, SUCCESSFUL_STATES
<1>4. /\ TransitionOf(w).key = KeyOf(w) /\ TransitionOf(w).target = Target(w)
      /\ TransitionOf(w).code = Code(worker[w].job)
  BY DEF TransitionOf
<1>5. Code(worker[w].job) \in {"none", "unknown", "failed"}
  BY <1>1 DEF Code, Jobs
<1>6. worker[w].job \in Keys \ {"retry", "cancel"}
  BY <1>1 DEF Jobs, Keys
<1>7. WellFormed(TransitionOf(w))
  <2>1. KeyOf(w) = <<"visual_ready", 20, 0>> => Receipts = Units
    BY <1>2 DEF WritingOK
  <2>2. worker[w].job = "artifact" => worker[w].phase \in Units /\ Target(w) = Stage(worker[w].phase)
    BY DEF WritingOK, Target
  <2>3. worker[w].job \in {"visual_planning", "visual_generating", "visual_ready"} => Target(w) = worker[w].job
    BY DEF Target
  <2> HIDE DEF WellFormed
  <2>4. QED
    BY <1>2, <1>3, <1>4, <1>5, <1>6, <2>1, <2>2, <2>3 DEF WellFormed
<1>8. TargetOf(worker[w]) \in SUCCESSFUL_STATES => worker[w].job \in Forward
  BY <1>1 DEF TargetOf, Jobs, Forward, SUCCESSFUL_STATES
<1>9. QED
  BY <1>2, <1>4, <1>7, <1>8 DEF Target, TargetOf

LEMMA WriteProjectionKeeps ==
  ASSUME IInv, NEW w \in Workers, WriteProjection(w)
  PROVE  IInv' /\ Grows
<1>1. /\ worker[w] \in Work /\ PlaceOK(worker[w]) /\ worker[w].pc = "write" /\ WritingOK(worker[w])
      /\ UNCHANGED <<coordinator, units, faults>> /\ faults \in FaultCounts
  BY AtWork DEF WriteProjection, IInv, PlaceOK, Writing
<1>2. CASE TransitionSucceeds(TransitionOf(w)) /\ Become(w, [worker[w] EXCEPT !.pc = "record"])
  <2>1. PICK t : t = TransitionOf(w)
    OBVIOUS
  <2>2. /\ WellFormed(t) /\ t.key[1] = worker[w].job /\ t.key = KeyOf(w) /\ t.target = TargetOf(worker[w])
        /\ TargetOf(worker[w]) \in SUCCESSFUL_STATES => worker[w].job \in Forward
    BY <1>1, <2>1, TransitionWellFormed
  <2>3. /\ Ledgers' /\ Grows /\ t.key \in log'
        /\ t.key[1] \in Forward /\ t.target \in SUCCESSFUL_STATES =>
             /\ publicationProgress(run.last) <= publicationProgress(t.target)
             /\ publicationProgress(t.target) <= publicationProgress(run'.last)
    BY <1>1, <1>2, <2>1, <2>2, RowStep
  <2>4. PICK x : x = [worker[w] EXCEPT !.pc = "record"]
    OBVIOUS
  <2>5. x \in Work
    BY <1>1, <2>4 DEF Work, Positions, Writing
  <2>6. /\ x.pc = "record" /\ x.job = worker[w].job /\ x.phase = worker[w].phase /\ x.seen = worker[w].seen
        /\ x.co = worker[w].co /\ x.expected = worker[w].expected
    BY <1>1, <2>4 DEF Work
  <2>7. KeyOf(w) = <<x.job, x.phase, IF x.job = "needs_action" THEN x.expected ELSE 0>> /\ TargetOf(worker[w]) = TargetOf(x)
    BY <2>6 DEF KeyOf, TargetOf
  <2>8. RecordOK(x)'
    <3>1. TargetOf(x) \in SUCCESSFUL_STATES =>
            /\ publicationProgress(run.last) <= publicationProgress(TargetOf(x))
            /\ publicationProgress(TargetOf(x)) <= publicationProgress(run'.last)
      BY <2>2, <2>3, <2>6, <2>7
    <3>2. publicationProgress(coordinator.last) <= publicationProgress(run.last)
      BY DEF IInv, Ledgers, CoordinatorOK
    <3>3. \A s : publicationProgress(s) \in Nat
      BY ProgressIsNumber
    <3>4. TargetOf(x) \in SUCCESSFUL_STATES => publicationProgress(coordinator.last) <= publicationProgress(TargetOf(x))
      BY <3>1, <3>2, <3>3
    <3>5. QED
      BY <1>1, <2>2, <2>3, <2>7, <3>1, <3>4 DEF RecordOK, TargetOf
  <2>9. PlaceOK(x)'
    <3>1. PICK k \in Work : k = worker[w]
      BY <1>1
    <3>2. PlaceOK(k)'
      BY <1>1, <2>3, <3>1, PlaceKept DEF IInv, Ledgers
    <3>3. /\ x.pc = "record" /\ k.pc = "write" /\ x.job = k.job /\ x.phase = k.phase /\ x.seen = k.seen
          /\ x.co = k.co /\ x.expected = k.expected
      BY <1>1, <2>6, <3>1
    <3>4. QED
      BY <2>8, <3>2, <3>3 DEF PlaceOK, Writing, Resuming, WritingOK
  <2>10. QED
    BY <1>1, <1>2, <2>3, <2>4, <2>5, <2>9, StepKeeps
<1>3. CASE TransitionFails(TransitionOf(w)) /\ WriteFails(w, "unknown")
  <2>1. PICK x \in {Idle} \cup Work : Become(w, x) /\ (x # Idle => Retreats(w, x))
    BY <1>1, <1>3, WriteFailsMoves
  <2>2. x # Idle => PlaceOK(x)
    BY <1>1, <2>1, RetreatPlace
  <2>3. UNCHANGED <<stores, units>>
    BY <1>1, <1>3 DEF TransitionFails, stores
  <2>4. QED
    BY <1>1, <2>1, <2>2, <2>3, LocalStep
<1>4. QED
  BY <1>2, <1>3 DEF WriteProjection

-----------------------------------------------------------------------------
(* The Coordinator: a write it takes.                                      *)

LEMMA RecordStep ==
  ASSUME IInv, NEW w \in Workers, worker[w].pc = "record", Recorded(w), UNCHANGED <<run, log, evidence>>
  PROVE  /\ Ledgers' /\ Grows
         /\ worker[w].job = "artifact" => worker[w].phase \in Receipts'
         /\ worker[w].job = "artifact" /\ worker[w].phase >= 15 => Generating'
         /\ worker[w].job = "visual_generating" => Generating'
<1> DEFINE k == worker[w]
           revision == NextRevision(w)
<1>1. /\ k \in Work /\ PlaceOK(k) /\ WritingOK(k) /\ RecordOK(k)
      /\ k.co.revision \in Nat /\ k.co.revision \in 1..coordinator.revision
      /\ coordinator.revision \in Nat /\ run.revision \in Nat /\ \A s : publicationProgress(s) \in Nat
  BY AtWork, ProgressIsNumber DEF IInv, Ledgers, StoresTyped, PlaceOK, Writing, Work
<1>2. /\ revision \in Nat /\ revision >= 1 /\ revision \in {k.co.revision, k.co.revision + 1}
      /\ k.job # "artifact" => revision = k.co.revision + 1
  BY <1>1 DEF NextRevision
<1>3. Target(w) = TargetOf(k)
  BY DEF Target, TargetOf
<1>4. /\ StoresTyped /\ RunOK /\ CoordinatorOK /\ CallsOK /\ CoordinatorFollows /\ ReadyIsComplete
      /\ publicationProgress(coordinator.last) <= publicationProgress(run.last)
  BY DEF IInv, Ledgers, CoordinatorOK
<1>5. ASSUME UNCHANGED <<coordinator, receipt>>
      PROVE  Ledgers' /\ Grows /\ Receipts' = Receipts /\ Generating' = Generating
  <2>1. UNCHANGED <<stores, units>>
    BY <1>5 DEF stores, units
  <2>2. QED
    BY <1>5, <2>1, StoresStay DEF Receipts, Generating
<1>6. CASE k.job = "artifact"
  <2> DEFINE u == k.phase
  <2>1. u \in Units /\ TargetOf(k) = Stage(u) /\ Stage(u) \in Targets /\ Before(u) \subseteq Receipts /\ (u >= 15 => Generating)
    BY <1>1, <1>6, StagesAreStates DEF TargetOf, WritingOK, PlaceOK
  <2>2. RecordReceipt(u, revision)
    BY <1>6 DEF Recorded
  <2>3. CASE receipt[u] = revision /\ UNCHANGED <<receipt, coordinator>>
    <3>1. u \in Receipts
      BY <1>2, <2>1, <2>3 DEF Receipts
    <3>2. QED
      BY <1>5, <1>6, <2>1, <2>3, <3>1
  <2>4. CASE /\ ReceiptAccepted(u, revision)
             /\ receipt' = [receipt EXCEPT ![u] = revision]
             /\ coordinator' = IF coordinator.state = Stage(u) THEN coordinator
                               ELSE Derived(Stage(u), revision, coordinator.code, coordinator.event)
    <3>1. Receipts' = Receipts \cup {u} /\ receipt' \in [Units -> Nat]
      BY <1>2, <1>4, <2>1, <2>4 DEF StoresTyped, Receipts
    <3>2. ASSUME coordinator.state # Stage(u)
          PROVE  /\ coordinator'.state = Stage(u) /\ coordinator'.last = Stage(u)
                 /\ coordinator'.revision = coordinator.revision + 1
                 /\ coordinator'.code = coordinator.code /\ coordinator'.event = coordinator.event
                 /\ publicationProgress(coordinator.last) <= publicationProgress(Stage(u))
                 /\ publicationProgress(Stage(u)) <= publicationProgress(run.last)
      <4>1. coordinator.revision = revision - 1
        BY <2>4, <3>2 DEF ReceiptAccepted
      <4>2. k.co.revision = coordinator.revision /\ revision = coordinator.revision + 1
        BY <1>1, <1>2, <4>1
      <4>3. Stage(u) \in SUCCESSFUL_STATES /\ Stage(u) \notin ExceptionalStates
        BY <2>1, StagesAreStates DEF Targets, ExceptionalStates
      <4>4. QED
        BY <1>1, <2>1, <2>4, <3>2, <4>2, <4>3 DEF Derived, RecordOK
    <3>3. CoordinatorOK' /\ (Generating => Generating') /\ (u >= 15 => Generating')
      <4>1. 12 \in Receipts => 12 \in Receipts'
        BY <3>1
      <4>2. CASE coordinator.state = Stage(u)
        BY <1>4, <2>1, <2>4, <4>1, <4>2 DEF CoordinatorOK, Generating
      <4>3. CASE coordinator.state # Stage(u)
        <5>1. Generating => Stage(u) = "visual_generating"
          BY <1>4, <2>1, <3>2, <4>3, StageProgress DEF Generating, Targets
        <5>2. Stage(u) = "visual_generating" => 12 \in Receipts
          <6>1. \A v \in Units : v = 12 \/ (v >= 15 /\ v <= 20 /\ v \in Int)
            BY UnitsAre
          <6>2. u = 12 => Stage(u) # "visual_generating"
            BY DEF Stage
          <6>3. u >= 15 /\ u <= 20 /\ u \in Int => 12 < u
            OBVIOUS
          <6>4. QED
            BY <2>1, <6>1, <6>2, <6>3, UnitsAre DEF Before
        <5>3. coordinator.revision >= 1
          BY <1>4 DEF CoordinatorOK
        <5>4. u >= 15 => Stage(u) = "visual_generating"
          BY <2>1 DEF Stage
        <5>5. /\ coordinator'.last = Stage(u) /\ Stage(u) \in Stages /\ coordinator'.revision >= 1
              /\ coordinator'.state = Stage(u)
          BY <1>1, <2>1, <3>2, <4>3, <5>3, StagesAreStates
        <5>6. publicationProgress(coordinator'.last) <= publicationProgress(run'.last)
          BY <3>2, <4>3, <5>5
        <5>7. Generating' <=> Stage(u) = "visual_generating"
          BY <2>1, <5>5 DEF Generating, Targets
        <5>8. QED
          BY <3>1, <5>1, <5>2, <5>4, <5>5, <5>6, <5>7 DEF CoordinatorOK
      <4>4. QED
        BY <4>2, <4>3
    <3>4. StoresTyped'
      BY <1>1, <1>4, <2>1, <2>4, <3>1, <3>2, StagesAreStates DEF StoresTyped, PUBLICATION_STATES
    <3>5. CallsOK'
      BY <1>1, <1>4, <1>6, <3>1, <3>3 DEF CallsOK, WritingOK, Before
    <3>6. CoordinatorFollows'
      <4>1. <<"artifact", u, 0>> \in log
        BY <1>1, <1>6 DEF RecordOK
      <4>2. coordinator'.event \in log
        BY <1>4, <2>4, <3>2 DEF CoordinatorFollows
      <4>3. \A v \in Units : v < u => v \in Receipts
        BY <2>1 DEF Before
      <4>4. QED
        BY <1>4, <3>1, <4>1, <4>2, <4>3 DEF CoordinatorFollows
    <3>7. ReadyIsComplete'
      <4>1. Receipts = Units => Receipts' = Units
        BY <2>1, <3>1
      <4>2. coordinator'.state = "visual_ready" => coordinator.state = "visual_ready"
        BY <2>1, <2>4, <3>2 DEF Targets
      <4>3. QED
        BY <1>4, <4>1, <4>2 DEF ReadyIsComplete
    <3>8. Grows
      BY <1>1, <2>4, <3>1, <3>2, <3>3 DEF Grows
    <3>9. QED
      BY <1>4, <1>6, <3>1, <3>3, <3>4, <3>5, <3>6, <3>7, <3>8 DEF Ledgers, RunOK
  <2>5. QED
    BY <2>2, <2>3, <2>4 DEF RecordReceipt
<1>7. CASE k.job # "artifact"
  <2>1. RecordState(TargetOf(k), revision, Code(k.job), KeyOf(w)) /\ receipt' = receipt
    BY <1>3, <1>7 DEF Recorded
  <2>2. k.job = TargetOf(k) /\ k.job \in Jobs \ {"none", "artifact"}
    BY <1>1, <1>7 DEF TargetOf, Work, WritingOK
  <2>3. CASE StateReplayed(TargetOf(k), revision, KeyOf(w)) /\ UNCHANGED coordinator
    <3>1. k.job = "visual_generating" => Generating
      BY <1>4, <2>2, <2>3 DEF StateReplayed, CoordinatorOK, SUCCESSFUL_STATES, Generating
    <3>2. QED
      BY <1>5, <1>7, <2>1, <2>3, <3>1
  <2>4. CASE StateAccepted(TargetOf(k), revision) /\ coordinator' = Derived(TargetOf(k), revision, Code(k.job), KeyOf(w))
    <3>1. k.co.revision = coordinator.revision /\ revision = coordinator.revision + 1
      BY <1>1, <1>2, <1>7, <2>4 DEF StateAccepted
    <3>2. /\ coordinator'.state = k.job /\ coordinator'.revision = coordinator.revision + 1
          /\ coordinator'.event = KeyOf(w) /\ coordinator'.code = Code(k.job)
          /\ coordinator'.last = IF k.job \in ExceptionalStates THEN coordinator.last ELSE k.job
      BY <2>2, <2>4, <3>1 DEF Derived
    <3>3. k.job \in {"visual_planning", "visual_generating", "visual_ready"} \/ k.job \in {"failed", "needs_action"}
      BY <2>2 DEF Jobs
    <3>4. Receipts' = Receipts
      BY <2>1 DEF Receipts
    <3>5. k.job \in {"visual_generating", "visual_ready"} => 12 \in Receipts
      BY <1>1, BeforePhases, UnitsAre DEF WritingOK, PlaceOK
    <3>6. ASSUME k.job \in {"visual_planning", "visual_generating", "visual_ready"}
          PROVE  CoordinatorOK' /\ (Generating => Generating') /\ (k.job = "visual_generating" => Generating')
      <4>1. coordinator'.last = k.job /\ k.job \in SUCCESSFUL_STATES /\ k.job \in Stages
        BY <3>2, <3>6 DEF ExceptionalStates, SUCCESSFUL_STATES, Stages
      <4>2. /\ publicationProgress(coordinator.last) <= publicationProgress(k.job)
            /\ publicationProgress(k.job) <= publicationProgress(run.last)
        BY <1>1, <2>2, <3>1, <4>1 DEF RecordOK
      <4>3. Generating => k.job \in {"visual_generating", "visual_ready"}
        BY <3>6, <4>2, StageProgress DEF Generating
      <4>4. QED
        <5>1. coordinator'.revision >= 1
          BY <1>1, <3>2
        <5>2. publicationProgress(coordinator'.last) <= publicationProgress(run'.last)
          BY <4>1, <4>2
        <5>3. Generating' <=> k.job \in {"visual_generating", "visual_ready"}
          BY <4>1 DEF Generating
        <5>4. coordinator'.last \in Stages /\ coordinator'.last = coordinator'.state
          BY <3>2, <4>1
        <5>5. QED
          BY <3>4, <3>5, <3>6, <4>3, <5>1, <5>2, <5>3, <5>4 DEF CoordinatorOK
    <3>7. ASSUME k.job \in {"failed", "needs_action"}
          PROVE  CoordinatorOK' /\ (Generating => Generating') /\ k.job # "visual_generating"
      <4>1. coordinator'.last = coordinator.last /\ k.job \notin SUCCESSFUL_STATES
        BY <3>2, <3>7 DEF ExceptionalStates, SUCCESSFUL_STATES
      <4>2. CoordinatorOK' /\ (Generating => Generating')
        <5>1. coordinator'.revision >= 1
          BY <1>1, <3>2
        <5>2. publicationProgress(coordinator'.last) <= publicationProgress(run'.last)
          BY <1>4, <4>1
        <5>3. Generating' <=> Generating
          BY <4>1 DEF Generating
        <5>4. coordinator'.last \in Stages /\ coordinator'.state \notin SUCCESSFUL_STATES
          BY <1>4, <3>2, <4>1 DEF CoordinatorOK
        <5>5. QED
          BY <1>4, <3>4, <5>1, <5>2, <5>3, <5>4 DEF CoordinatorOK
      <4>3. QED
        BY <3>7, <4>2
    <3>8. CoordinatorOK' /\ (Generating => Generating') /\ (k.job = "visual_generating" => Generating')
      BY <3>3, <3>6, <3>7
    <3>9. StoresTyped'
      <4>1. Code(k.job) \in {"none", "unknown", "failed"} /\ k.job \in PUBLICATION_STATES
        BY <3>3 DEF Code, PUBLICATION_STATES, SUCCESSFUL_STATES
      <4>2. QED
        BY <1>1, <1>4, <2>1, <3>2, <4>1 DEF StoresTyped
    <3>10. CallsOK'
      BY <1>4, <3>4, <3>8 DEF CallsOK, Before
    <3>11. CoordinatorFollows' /\ ReadyIsComplete'
      <4>1. KeyOf(w) \in log
        BY <1>1 DEF RecordOK, KeyOf
      <4>2. k.job = "visual_ready" => Receipts = Units
        BY <1>1 DEF WritingOK
      <4>3. QED
        BY <1>4, <3>2, <3>4, <4>1, <4>2 DEF CoordinatorFollows, ReadyIsComplete
    <3>12. publicationProgress(coordinator.last) <= publicationProgress(coordinator'.last)
      <4>1. CASE k.job \in {"failed", "needs_action"}
        BY <3>2, <4>1, ProgressIsNumber DEF ExceptionalStates
      <4>2. CASE k.job \in {"visual_planning", "visual_generating", "visual_ready"}
        <5>1. k.job \in SUCCESSFUL_STATES /\ k.job \notin ExceptionalStates
          BY <4>2 DEF ExceptionalStates, SUCCESSFUL_STATES
        <5>2. QED
          BY <1>1, <2>2, <3>1, <3>2, <5>1 DEF RecordOK
      <4>3. QED
        BY <3>3, <4>1, <4>2
    <3>13. Grows
      BY <1>1, <3>2, <3>4, <3>8, <3>12 DEF Grows
    <3>14. QED
      BY <1>4, <1>7, <3>8, <3>9, <3>10, <3>11, <3>13 DEF Ledgers, RunOK
  <2>5. QED
    BY <2>1, <2>3, <2>4 DEF RecordState
<1>8. QED
  BY <1>6, <1>7

LEMMA RecordSucceedsKeeps ==
  ASSUME IInv, NEW w \in Workers, RecordSucceeds(w)
  PROVE  IInv' /\ Grows
<1> DEFINE k == worker[w]
<1>1. /\ k.pc = "record" /\ Recorded(w) /\ UNCHANGED <<run, log, evidence, faults>> /\ Continues(w)
      /\ faults' \in FaultCounts
  BY DEF RecordSucceeds, IInv
<1>2. k \in Work /\ PlaceOK(k) /\ WritingOK(k) /\ k.job \in Jobs \ {"none"} /\ k.seen \in SUBSET Units
  BY <1>1, AtWork DEF PlaceOK, Writing, WritingOK, Work
<1>3. /\ Ledgers' /\ Grows
      /\ k.job = "artifact" => k.phase \in Receipts'
      /\ k.job = "artifact" /\ k.phase >= 15 => Generating'
      /\ k.job = "visual_generating" => Generating'
  BY <1>1, RecordStep
<1>4. CASE k.job = "visual_planning"
  <2>1. PICK x \in Work : Become(w, x) /\ x.pc = "ledger" /\ x.phase = 0 /\ x.seen = {}
    BY <1>1, <1>2, <1>4, GoesMoves DEF Continues
  <2>2. PlaceOK(x)'
    BY <2>1, BeforePhases DEF PlaceOK, Writing, Resuming, Before
  <2>3. QED
    BY <1>1, <1>3, <2>1, <2>2, StepKeeps
<1>5. CASE k.job = "visual_generating"
  <2>1. PICK x \in Work : Become(w, x) /\ x.pc = "slots" /\ x.phase = 0 /\ x.seen = {}
    BY <1>1, <1>2, <1>5, GoesMoves DEF Continues
  <2>2. 12 \in Receipts
    BY <1>2, <1>5, BeforePhases DEF PlaceOK, WritingOK
  <2>3. PlaceOK(x)'
    BY <1>3, <1>5, <2>1, <2>2, BeforePhases DEF PlaceOK, Writing, Resuming, Before, Grows
  <2>4. QED
    BY <1>1, <1>3, <2>1, <2>3, StepKeeps
<1>6. CASE k.job = "artifact" /\ k.phase = 12
  <2>1. PICK x \in Work : Become(w, x) /\ x.pc = "planned" /\ x.phase = 0 /\ x.seen = {}
    BY <1>1, <1>2, <1>6, GoesMoves DEF Continues
  <2>2. PlaceOK(x)'
    BY <1>3, <1>6, <2>1, BeforePhases DEF PlaceOK, Writing, Resuming, Before
  <2>3. QED
    BY <1>1, <1>3, <2>1, <2>2, StepKeeps
<1>7. CASE k.job = "artifact" /\ k.phase = 20
  <2>1. PICK x : x = Worker("exact", "none", 20, k.seen, 0)
    OBVIOUS
  <2>2. x \in Work
    <3>1. 1 \in 1..StepTries /\ 20 \in Units \cup {0, 11, 13}
      BY VisualRecoveryOK, UnitsAre DEF VisualRecoveryAssumption
    <3>2. QED
      BY <1>2, <2>1, <3>1, WorkerIsWork DEF Positions, Jobs
  <2>3. Become(w, x) /\ x.pc = "exact" /\ x.phase = 20 /\ x.seen = k.seen
    BY <1>1, <1>7, <2>1 DEF Continues, Worker
  <2>4. Before(20) \subseteq Receipts' /\ k.seen \subseteq Receipts' /\ Generating'
    BY <1>2, <1>3, <1>7 DEF PlaceOK, Grows
  <2>5. PlaceOK(x)'
    BY <2>3, <2>4 DEF PlaceOK, Writing, Resuming, Before
  <2>6. QED
    BY <1>1, <1>3, <2>2, <2>3, <2>5, StepKeeps
<1>8. CASE k.job = "artifact" /\ k.phase # 12 /\ k.phase # 20
  <2>1. k.phase \in Units /\ k.phase \in Nat /\ k.phase >= 15 /\ k.phase < 20
    <3>1. \A v \in Units : v = 12 \/ v = 20 \/ (v >= 15 /\ v < 20 /\ v \in Nat)
      BY UnitsAre
    <3>2. k.phase \in Units
      BY <1>2, <1>8 DEF WritingOK
    <3>3. QED
      BY <1>8, <3>1, <3>2
  <2>2. NextUnit(w, k.phase, k.seen)
    BY <1>1, <1>8 DEF Continues
  <2>3. PICK u \in Units, x \in Work :
          /\ Become(w, x) /\ x.job = "artifact" /\ x.phase = u /\ x.seen = k.seen
          /\ u > k.phase /\ \A v \in Units : v > k.phase /\ v < u => v \in k.seen
          /\ x.pc = IF u = 20 THEN "qa" ELSE "call"
    <3> HIDE DEF k
    <3>1. worker[w] \in Work
      BY <1>2 DEF k
    <3>2. QED
      BY <1>2, <2>1, <2>2, <3>1, NextUnitMoves
  <2>4. Before(k.phase) \subseteq Receipts' /\ k.seen \subseteq Receipts' /\ k.phase \in Receipts' /\ Generating'
    BY <1>2, <1>3, <1>8, <2>1 DEF PlaceOK, Grows
  <2>5. Before(u) \subseteq Receipts'
    <3>1. \A v \in Units : v \in Int
      BY UnitsAre
    <3>2. \A v \in Units : v < k.phase \/ v = k.phase \/ v > k.phase
      BY <2>1, <3>1
    <3>3. QED
      BY <2>3, <2>4, <3>2 DEF Before
  <2>6. u = 20 \/ u \in Calls
    BY UnitsAre
  <2>7. PlaceOK(x)'
    BY <2>3, <2>4, <2>5, <2>6 DEF PlaceOK, Writing, Resuming, Before
  <2>8. QED
    BY <1>1, <1>3, <2>3, <2>7, StepKeeps
<1>9. CASE k.job \notin {"visual_planning", "visual_generating", "artifact"}
  <2>1. Become(w, Idle)
    BY <1>1, <1>9 DEF Continues
  <2>2. QED
    BY <1>1, <1>3, <2>1, StepKeeps
<1>10. QED
  BY <1>4, <1>5, <1>6, <1>7, <1>8, <1>9

LEMMA RecordFailsKeeps ==
  ASSUME IInv, NEW w \in Workers, RecordFails(w)
  PROVE  IInv' /\ Grows
<1>1. /\ worker[w].pc = "record" /\ UNCHANGED <<run, log, evidence>>
      /\ Recorded(w) \/ UNCHANGED <<coordinator, receipt>>
  BY DEF RecordFails
<1>2. faults' \in FaultCounts
  BY FaultsBounded DEF RecordFails, IInv
<1>3. worker[w] \in Work /\ PlaceOK(worker[w]) /\ WritingOK(worker[w])
  BY <1>1, AtWork DEF PlaceOK, Writing
<1>4. PICK outcome \in {"unknown", "failed"} : WriteFails(w, outcome)
  BY DEF RecordFails
<1>5. PICK x \in {Idle} \cup Work : Become(w, x) /\ (x # Idle => Retreats(w, x))
  BY <1>3, <1>4, WriteFailsMoves
<1>6. x # Idle => PlaceOK(x)
  BY <1>3, <1>5, RetreatPlace
<1>7. Ledgers' /\ Grows
  <2>1. CASE Recorded(w)
    BY <1>1, <2>1, RecordStep
  <2>2. CASE UNCHANGED <<coordinator, receipt>>
    BY <1>1, <2>2, StoresStay DEF stores, units
  <2>3. QED
    BY <1>1, <2>1, <2>2
<1>8. x # Idle => PlaceOK(x)'
  BY <1>5, <1>6, <1>7, PlaceKept DEF IInv, Ledgers
<1>9. QED
  BY <1>2, <1>5, <1>7, <1>8, StepKeeps

-----------------------------------------------------------------------------
(* The way out of a hold.                                                  *)

LEMMA ReenterHoldKeeps ==
  ASSUME IInv, NEW w \in Workers, ReenterHold(w)
  PROVE  IInv' /\ Grows
<1> DEFINE co == [state |-> coordinator.state, revision |-> coordinator.revision]
<1>1. PICK carried \in Units \cup {0} :
        Become(w, [Worker("resuming", coordinator.last, 0, {}, carried) EXCEPT !.co = co])
  <2>1. Pending(coordinator.last) # 20 => Pending(coordinator.last) \in Units
    <3> DEFINE open == {u \in Calls \ {12} : receipt[u] = 0}
    <3>1. open \subseteq Units /\ 12 \in Units
      BY UnitsAre
    <3>2. open # {} => Min(open) \in Units
      BY <3>1, LeastUnit
    <3> HIDE DEF open
    <3>3. Pending(coordinator.last) \in {12, 20} \/ (open # {} /\ Pending(coordinator.last) = Min(open))
      BY DEF Pending, open
    <3>4. QED
      BY <3>1, <3>2, <3>3
  <2> DEFINE u == Pending(coordinator.last)
             c == IF u # 20 /\ evidence[u] = "known" THEN u ELSE 0
  <2>2. c \in Units \cup {0}
    BY <2>1
  <2>3. Become(w, [Worker("resuming", coordinator.last, 0, {}, c) EXCEPT !.co = co])
    BY DEF ReenterHold
  <2> HIDE DEF c
  <2>4. QED
    BY <2>2, <2>3
<1>2. Resumable(coordinator) /\ UNCHANGED <<stores, units>> /\ Starts(w)
  BY DEF ReenterHold
<1> DEFINE x == [Worker("resuming", coordinator.last, 0, {}, carried) EXCEPT !.co = co]
<1>3. /\ coordinator.state = "needs_action" /\ coordinator.last \in Targets /\ coordinator.revision \in Nat
      /\ coordinator.revision >= 1 /\ coordinator.state \in PUBLICATION_STATES
  BY <1>2 DEF Resumable, Targets, IInv, Ledgers, StoresTyped, CoordinatorOK
<1>4. x \in Work
  <2>1. 1 \in 1..StepTries
    BY VisualRecoveryOK DEF VisualRecoveryAssumption
  <2>2. coordinator.last \in Jobs
    BY <1>3 DEF Targets, Jobs
  <2>3. Worker("resuming", coordinator.last, 0, {}, carried) \in Work
    BY <2>1, <2>2, WorkerIsWork DEF Positions, Resuming
  <2>4. QED
    BY <1>3, <2>3 DEF Work
<1>5. /\ x.pc = "resuming" /\ x.job = coordinator.last /\ x.phase = 0 /\ x.seen = {} /\ x.expected = 0
      /\ x.co.revision = coordinator.revision
  BY DEF Worker
<1>6. Become(w, x)
  BY <1>1
<1> HIDE DEF x
<1>7. PlaceOK(x)
  <2>1. run.revision \in Nat
    BY DEF IInv, Ledgers, StoresTyped
  <2>2. QED
    BY <1>3, <1>5, <2>1, BeforePhases DEF PlaceOK, Writing, Resuming
<1>8. QED
  BY <1>2, <1>4, <1>6, <1>7, StartsBounded, LocalStep

\* What a resumption does next about a row.
Resumes(w, x, row, marked) ==
  /\ x.pc \in {"mark", "requeue", "return", "repair"}
  /\ x.expected = row.revision /\ x.job = worker[w].job /\ x.phase = worker[w].phase
  /\ x.seen = worker[w].seen /\ x.co = worker[w].co
  /\ x.pc = "mark" => marked = FALSE
  /\ x.pc = "requeue" => marked # FALSE /\ row.state = "needs_action" /\ row.code = "reconciled"
  /\ x.pc = "return" => row.state = "retrying"
  /\ x.pc = "repair" => row.event.key = <<"resumed", worker[w].job, 0>>

LEMMA ResumeMoves ==
  ASSUME NEW w \in Workers, worker[w] \in Work, NEW row, row.revision \in Nat, NEW marked \in BOOLEAN,
         ResumeWith(w, row, marked)
  PROVE  \E x \in {Idle} \cup Work : Become(w, x) /\ (x # Idle => Resumes(w, x, row, marked))
<1> DEFINE step == ResumeStep(row, worker[w].job, marked)
           x == [worker[w] EXCEPT !.pc = step, !.expected = row.revision]
<1>1. /\ step \in {"mark", "requeue", "return", "repair", "idle"}
      /\ step = "mark" => marked = FALSE
      /\ step = "requeue" => marked # FALSE /\ row.state = "needs_action" /\ row.code = "reconciled"
      /\ step = "return" => row.state = "retrying"
      /\ step = "repair" => row.event.key = <<"resumed", worker[w].job, 0>>
  BY DEF ResumeStep
<1>2. CASE step = "idle"
  <2>1. Become(w, Idle)
    BY <1>2 DEF ResumeWith
  <2>2. QED
    BY <2>1
<1>3. CASE step # "idle"
  <2>1. Become(w, x) /\ step \in {"mark", "requeue", "return", "repair"}
    BY <1>1, <1>3 DEF ResumeWith
  <2> HIDE DEF step
  <2>2. x \in Work
    BY <2>1 DEF Work, Positions, Resuming
  <2>3. /\ x.pc = step /\ x.expected = row.revision /\ x.job = worker[w].job /\ x.phase = worker[w].phase
        /\ x.seen = worker[w].seen /\ x.co = worker[w].co
    BY DEF Work
  <2> HIDE DEF x
  <2>4. Resumes(w, x, row, marked)
    BY <1>1, <2>1, <2>3 DEF Resumes
  <2>5. QED
    BY <2>1, <2>2, <2>4
<1>4. QED
  BY <1>2, <1>3

\* It stays where it was, but for the row it read.
LEMMA ResumePlace ==
  ASSUME StoresTyped, NEW k \in Work, PlaceOK(k), k.pc \in Resuming,
         NEW x \in Work, x.pc \in {"mark", "requeue", "return", "repair"}, x.expected <= run.revision,
         x.job = k.job, x.phase = k.phase, x.seen = k.seen, x.co = k.co,
         x.pc = "repair" => <<"resumed", x.job, 0>> \in log
  PROVE  PlaceOK(x)
BY DEF PlaceOK, Writing, Resuming, WritingOK, Before

LEMMA ReadHoldKeeps ==
  ASSUME IInv, NEW w \in Workers, ReadHold(w)
  PROVE  IInv' /\ Grows
<1>1. /\ worker[w] \in Work /\ PlaceOK(worker[w]) /\ worker[w].pc = "resuming" /\ ResumeWith(w, run, FALSE)
      /\ UNCHANGED <<stores, units, faults>> /\ run.revision \in Nat /\ StoresTyped /\ faults \in FaultCounts
  BY AtWork DEF ReadHold, IInv, Ledgers, StoresTyped
<1>2. PICK x \in {Idle} \cup Work : Become(w, x) /\ (x # Idle => Resumes(w, x, run, FALSE))
  BY <1>1, ResumeMoves
<1>3. x # Idle => PlaceOK(x)
  <2> SUFFICES ASSUME x # Idle PROVE PlaceOK(x)
    OBVIOUS
  <2>1. /\ x \in Work /\ x.expected <= run.revision /\ worker[w].pc \in Resuming
        /\ x.pc \in {"mark", "requeue", "return", "repair"} /\ x.job = worker[w].job /\ x.phase = worker[w].phase
        /\ x.seen = worker[w].seen /\ x.co = worker[w].co
    BY <1>1, <1>2 DEF Resuming, Resumes
  <2>2. x.pc = "repair" => <<"resumed", x.job, 0>> \in log
    <3>1. run.event.key \in log \/ run.event.key[1] \in {"retry", "cancel"}
      BY DEF IInv, Ledgers, RunOK
    <3>2. QED
      BY <1>2, <2>1, <3>1 DEF Resumes
  <2>3. QED
    BY <1>1, <2>1, <2>2, ResumePlace
<1>4. QED
  BY <1>1, <1>2, <1>3, LocalStep

LEMMA ResumeWellFormed ==
  ASSUME NEW w \in Workers, worker[w].job \in Targets, worker[w].pc \in {"mark", "requeue", "return"}
  PROVE  WellFormed(ResumeTransition(w))
<1> DEFINE t == ResumeTransition(w)
<1>1. /\ t.target \in {"needs_action", "retrying", "visual_planning", "visual_generating"}
      /\ t.code \in {"reconciled", "none"}
      /\ t.key[1] \in {"reconciled", "retrying", "resumed"}
  BY DEF ResumeTransition, Targets
<1>2. t.target \in PUBLICATION_STATES
  BY <1>1 DEF PUBLICATION_STATES, SUCCESSFUL_STATES
<1>3. t.key # <<"visual_ready", 20, 0>>
  BY <1>1
<1> HIDE DEF t
<1>4. WellFormed(t)
  BY <1>1, <1>2, <1>3 DEF WellFormed, Keys
<1>5. QED
  BY <1>4 DEF t

LEMMA ResumeProjectionKeeps ==
  ASSUME IInv, NEW w \in Workers, ResumeProjection(w)
  PROVE  IInv' /\ Grows
<1>1. /\ worker[w] \in Work /\ PlaceOK(worker[w]) /\ worker[w].pc \in {"mark", "requeue", "return"}
      /\ UNCHANGED <<coordinator, units, faults>> /\ faults \in FaultCounts
  BY AtWork DEF ResumeProjection, IInv
<1>2. worker[w].pc \in Resuming /\ worker[w].job \in Targets
  BY <1>1 DEF PlaceOK, Resuming
<1>3. CASE TransitionSucceeds(ResumeTransition(w)) /\ ResumeWith(w, run', TRUE)
  <2>1. PICK t : t = ResumeTransition(w)
    OBVIOUS
  <2>2. Ledgers' /\ Grows
    BY <1>1, <1>2, <1>3, <2>1, ResumeWellFormed, RowStep
  <2>3. PICK row : row = run'
    OBVIOUS
  <2>4. row.revision \in Nat /\ ResumeWith(w, row, TRUE)
    BY <1>3, <2>2, <2>3 DEF Ledgers, StoresTyped
  <2>5. PICK x \in {Idle} \cup Work : Become(w, x) /\ (x # Idle => Resumes(w, x, row, TRUE))
    BY <1>1, <2>4, ResumeMoves
  <2>6. x # Idle /\ x.pc = "repair" => <<"resumed", x.job, 0>> \in log'
    <3>1. run'.event.key \in log' \/ run'.event.key[1] \in {"retry", "cancel"}
      BY <2>2 DEF Ledgers, RunOK
    <3>2. QED
      BY <2>3, <2>5, <3>1 DEF Resumes
  <2>7. PICK k \in Work : k = worker[w]
    BY <1>1
  <2>8. PlaceOK(k)'
    BY <1>1, <2>2, <2>7, PlaceKept DEF IInv, Ledgers
  <2>9. x # Idle => PlaceOK(x)'
    <3> SUFFICES ASSUME x # Idle PROVE PlaceOK(x)'
      OBVIOUS
    <3>1. x.expected <= run'.revision /\ k.pc \in Resuming
      BY <1>2, <2>3, <2>4, <2>5, <2>7 DEF Resumes
    <3>2. /\ x.job = k.job /\ x.phase = k.phase /\ x.seen = k.seen /\ x.co = k.co
          /\ x.pc \in {"mark", "requeue", "return", "repair"}
      BY <2>5, <2>7 DEF Resumes
    <3>3. QED
      BY <2>6, <2>8, <3>1, <3>2 DEF PlaceOK, Writing, Resuming, WritingOK, Before
  <2>10. QED
    BY <1>1, <2>2, <2>5, <2>9, StepKeeps
<1>4. CASE TransitionFails(ResumeTransition(w)) /\ Become(w, Idle)
  <2>1. UNCHANGED <<stores, units>>
    BY <1>1, <1>4 DEF TransitionFails, stores
  <2>2. QED
    BY <1>1, <1>4, <2>1, LocalStep
<1>5. QED
  BY <1>3, <1>4 DEF ResumeProjection

LEMMA RepairStep ==
  ASSUME IInv, NEW w \in Workers, worker[w].pc = "repair",
         RecordState(worker[w].job, worker[w].co.revision + 1, "none", <<"resumed", worker[w].job, 0>>),
         UNCHANGED <<run, log, units>>
  PROVE  Ledgers' /\ Grows
<1> DEFINE k == worker[w]
           revision == k.co.revision + 1
           key == <<"resumed", k.job, 0>>
<1>1. /\ k \in Work /\ PlaceOK(k) /\ k.job \in Targets /\ key \in log
      /\ k.co.revision \in Nat /\ coordinator.revision \in Nat /\ run.revision \in Nat
      /\ k.co.revision = coordinator.revision => coordinator.last = k.job
      /\ \A s : publicationProgress(s) \in Nat
  BY AtWork, ProgressIsNumber DEF IInv, Ledgers, StoresTyped, PlaceOK, Resuming, Work
<1>2. StoresTyped /\ RunOK /\ CoordinatorOK /\ CallsOK /\ CoordinatorFollows /\ ReadyIsComplete
  BY DEF IInv, Ledgers
<1>3. CASE UNCHANGED coordinator
  BY <1>3, StoresStay DEF stores, units
<1>4. CASE StateAccepted(k.job, revision) /\ coordinator' = Derived(k.job, revision, "none", key)
  <2>1. revision = coordinator.revision + 1 /\ coordinator.last = k.job
    BY <1>1, <1>4 DEF StateAccepted
  <2>2. k.job \notin ExceptionalStates /\ k.job \in PUBLICATION_STATES
    BY <1>1, StagesAreStates DEF Targets, ExceptionalStates, PUBLICATION_STATES
  <2>3. /\ coordinator'.state = k.job /\ coordinator'.revision = coordinator.revision + 1
        /\ coordinator'.code = "none" /\ coordinator'.event = key /\ coordinator'.last = coordinator.last
    BY <1>4, <2>1, <2>2 DEF Derived
  <2>4. Receipts' = Receipts /\ Generating' = Generating
    BY <2>3 DEF units, Receipts, Generating
  <2>5. StoresTyped'
    BY <1>1, <1>2, <2>2, <2>3 DEF StoresTyped, units
  <2>6. CoordinatorOK'
    <3>1. coordinator'.revision >= 1
      BY <1>1, <2>3
    <3>2. QED
      BY <1>2, <2>1, <2>3, <2>4, <3>1 DEF CoordinatorOK
  <2>7. CallsOK' /\ CoordinatorFollows' /\ RunOK'
    BY <1>1, <1>2, <2>3, <2>4 DEF CallsOK, CoordinatorFollows, RunOK, units, Before
  <2>8. ReadyIsComplete'
    BY <1>1, <1>2, <2>3, <2>4 DEF ReadyIsComplete, Targets
  <2>9. Grows
    BY <1>1, <2>3, <2>4 DEF Grows, units
  <2>10. QED
    BY <2>5, <2>6, <2>7, <2>8, <2>9 DEF Ledgers
<1>5. QED
  BY <1>3, <1>4 DEF RecordState

LEMMA RepairKeeps ==
  ASSUME IInv, NEW w \in Workers, RepairCoordinator(w)
  PROVE  IInv' /\ Grows
<1> DEFINE state == RecordState(worker[w].job, worker[w].co.revision + 1, "none", <<"resumed", worker[w].job, 0>>)
<1>1. /\ worker[w].pc = "repair" /\ UNCHANGED <<run, log, units>>
      /\ state \/ UNCHANGED coordinator
      /\ Goes(w, "ledger") \/ Become(w, Idle)
  BY DEF RepairCoordinator
<1>2. Ledgers' /\ Grows
  <2>1. CASE state
    BY <1>1, <2>1, RepairStep
  <2>2. CASE UNCHANGED coordinator
    BY <1>1, <2>2, StoresStay DEF stores
  <2>3. QED
    BY <1>1, <2>1, <2>2
<1>3. faults' \in FaultCounts
  BY FaultsBounded DEF RepairCoordinator, IInv
<1>4. CASE Goes(w, "ledger")
  <2>1. worker[w] \in Work
    BY <1>1, AtWork
  <2>2. PICK x \in Work : Become(w, x) /\ x.pc = "ledger" /\ x.phase = 0 /\ x.seen = {}
    BY <1>4, <2>1, GoesMoves
  <2>3. PlaceOK(x)'
    BY <2>2, BeforePhases DEF PlaceOK, Writing, Resuming, Before
  <2>4. QED
    BY <1>2, <1>3, <2>2, <2>3, StepKeeps
<1>5. CASE Become(w, Idle)
  BY <1>2, <1>3, <1>5, StepKeeps
<1>6. QED
  BY <1>1, <1>4, <1>5

-----------------------------------------------------------------------------
(* The user, and the specification.                                        *)

LEMMA UserActsKeeps ==
  ASSUME IInv, NEW action \in {"retry", "cancel"}, UserActs(action)
  PROVE  IInv' /\ Grows
<1> DEFINE target == IF action = "retry" THEN "retrying" ELSE "cancelled"
           event == [key |-> <<action, 0, run.revision>>, at |-> run.revision + 1]
<1>1. /\ run' = Projected(target, "none", event)
      /\ UNCHANGED <<log, coordinator, units, worker, faults>>
  BY DEF UserActs
<1>2. /\ run'.state = target /\ run'.revision = run.revision + 1 /\ run'.last = run.last /\ run'.code = "none"
      /\ run'.event = event /\ run'.resume = IF action = "retry" THEN run.last ELSE "none"
  BY <1>1 DEF Projected, SUCCESSFUL_STATES, ExceptionalStates
<1>3. /\ StoresTyped /\ RunOK /\ CoordinatorOK /\ CallsOK /\ CoordinatorFollows /\ ReadyIsComplete
      /\ run.revision \in Nat /\ \A s : publicationProgress(s) \in Nat
  BY ProgressIsNumber DEF IInv, Ledgers, StoresTyped
<1>4. Receipts' = Receipts /\ Generating' = Generating
  BY <1>1 DEF units, Receipts, Generating
<1>5. StoresTyped'
  <2>1. run'.event.key[1] \in Keys /\ run'.state \in PUBLICATION_STATES
    BY <1>2 DEF Keys, PUBLICATION_STATES
  <2>2. run'.resume \in SUCCESSFUL_STATES \cup {"none"}
    BY <1>2, <1>3 DEF StoresTyped
  <2>3. QED
    BY <1>1, <1>2, <1>3, <2>1, <2>2 DEF StoresTyped, units
<1>6. RunOK'
  <2>1. run'.event.key[1] \in {"retry", "cancel"} /\ run'.state \notin SUCCESSFUL_STATES
    BY <1>2 DEF SUCCESSFUL_STATES
  <2>2. QED
    BY <1>2, <2>1 DEF RunOK
<1>7. CoordinatorOK' /\ CallsOK' /\ CoordinatorFollows' /\ ReadyIsComplete'
  BY <1>1, <1>2, <1>3, <1>4 DEF CoordinatorOK, CallsOK, CoordinatorFollows, ReadyIsComplete, units, Before
<1>8. Grows
  BY <1>1, <1>2, <1>3, <1>4 DEF Grows, units
<1>9. Ledgers' /\ faults' \in FaultCounts
  BY <1>1, <1>5, <1>6, <1>7 DEF Ledgers, IInv
<1>10. QED
  BY <1>1, <1>8, <1>9, NobodyMoves

LEMMA InitInv == Init => IInv
<1> SUFFICES ASSUME Init PROVE IInv
  OBVIOUS
<1> DEFINE key == <<"content_frozen", 0, 0>>
<1>1. /\ run = [state |-> "content_frozen", revision |-> 1, resume |-> "none", last |-> "content_frozen",
                code |-> "none", event |-> [key |-> key, at |-> 1]]
      /\ log = {key}
      /\ coordinator = [state |-> "content_frozen", revision |-> 1, code |-> "none", event |-> key,
                        last |-> "content_frozen"]
      /\ evidence = [u \in Units |-> "none"] /\ receipt = [u \in Units |-> 0]
      /\ worker = [w \in Workers |-> Idle] /\ faults = [kind \in FaultKinds |-> 0]
  BY DEF Init
<1>2. /\ run.state = "content_frozen" /\ run.revision = 1 /\ run.resume = "none" /\ run.last = "content_frozen"
      /\ run.code = "none" /\ run.event.key = key
      /\ coordinator.state = "content_frozen" /\ coordinator.revision = 1 /\ coordinator.code = "none"
      /\ coordinator.event = key /\ coordinator.last = "content_frozen"
  BY <1>1
<1>3. Receipts = {} /\ Units # {}
  BY <1>1, UnitsAre DEF Receipts
<1>4. "content_frozen" \in SUCCESSFUL_STATES /\ "content_frozen" \in PUBLICATION_STATES /\ key[1] = "content_frozen"
  BY DEF SUCCESSFUL_STATES, PUBLICATION_STATES
<1> HIDE DEF key
<1>5. StoresTyped
  BY <1>1, <1>2, <1>4 DEF StoresTyped, Keys
<1>6. RunOK /\ CallsOK
  BY <1>1, <1>2, <1>3, <1>4, UnitsAre DEF RunOK, CallsOK
<1>7. CoordinatorOK
  BY <1>2, ProgressIsNumber DEF CoordinatorOK, Generating, Stages
<1>8. CoordinatorFollows /\ ReadyIsComplete
  BY <1>1, <1>2, <1>3, <1>4 DEF CoordinatorFollows, ReadyIsComplete
<1>9. faults \in FaultCounts
  BY <1>1, VisualRecoveryOK DEF VisualRecoveryAssumption, FaultCounts, FaultKinds
<1>10. QED
  BY <1>1, <1>5, <1>6, <1>7, <1>8, <1>9 DEF IInv, Ledgers, Working

LEMMA NextInv ==
  ASSUME IInv, [Next]_vars
  PROVE  IInv' /\ Grows
<1>1. CASE UNCHANGED vars
  <2>1. Ledgers' /\ Grows /\ worker' = worker /\ faults' \in FaultCounts
    BY <1>1, StoresStay DEF vars, IInv
  <2>2. QED
    BY <2>1, NobodyMoves
<1>2. ASSUME NEW w \in Workers, WorkerNext(w) \/ Crash(w)
      PROVE  IInv' /\ Grows
  <2>1. CASE Enter(w) \/ ReadLedger(w) \/ ReadStage(w) \/ ReadSlots(w)
    BY <2>1, EnterKeeps, ReadLedgerKeeps, ReadStageKeeps, ReadSlotsKeeps
  <2>2. CASE CallSucceeds(w) \/ CallFails(w) \/ CallUnknown(w) \/ CheckQa(w)
    BY <2>2, CallSucceedsKeeps, CallFailsKeeps, CallUnknownKeeps, CheckQaKeeps
  <2>3. CASE StopCancelled(w) \/ Crash(w)
    BY <2>3, StopKeeps
  <2>4. CASE ReadCoordinator(w) \/ ReadProjection(w) \/ WriteProjection(w)
    BY <2>4, ReadCoordinatorKeeps, ReadProjectionKeeps, WriteProjectionKeeps
  <2>5. CASE RecordSucceeds(w) \/ RecordFails(w) \/ VerifySet(w)
    BY <2>5, RecordSucceedsKeeps, RecordFailsKeeps, VerifySetKeeps
  <2>6. CASE ReenterHold(w) \/ ReadHold(w) \/ ResumeProjection(w) \/ RepairCoordinator(w)
    BY <2>6, ReenterHoldKeeps, ReadHoldKeeps, ResumeProjectionKeeps, RepairKeeps
  <2>7. QED
    BY <1>2, <2>1, <2>2, <2>3, <2>4, <2>5, <2>6 DEF WorkerNext
<1>3. ASSUME NEW u \in Units, EvidenceArrives(u) PROVE IInv' /\ Grows
  BY <1>3, EvidenceArrivesKeeps
<1>4. ASSUME NEW action \in {"retry", "cancel"}, UserActs(action) PROVE IInv' /\ Grows
  BY <1>4, UserActsKeeps
<1>5. QED
  BY <1>1, <1>2, <1>3, <1>4 DEF Next

\* The ledgers, and what every execution relies on, whatever is lost, in
\* whatever order the executions act.
THEOREM Invariance == Spec => []IInv
<1>1. Init => IInv
  BY InitInv
<1>2. IInv /\ [Next]_vars => IInv'
  BY NextInv
<1>3. QED
  BY <1>1, <1>2, PTL DEF Spec

\* Two executions, a crash between the two stores, a lost reply: the
\* Coordinator never records what D1 does not have.
THEOREM LedgersCorrect == Spec => []LedgersInStep
<1>1. IInv => LedgersInStep
  <2> SUFFICES ASSUME IInv PROVE LedgersInStep
    OBVIOUS
  <2>1. coordinator.last \in SUCCESSFUL_STATES
    BY StagesAreStates DEF IInv, Ledgers, CoordinatorOK
  <2>2. ASSUME NEW w \in Workers, worker[w].pc # "idle"
        PROVE  worker[w].try \in 1..StepTries /\ worker[w].seen \subseteq Units /\ worker[w].phase \in 0..20
    <3>1. worker[w] \in Work
      BY <2>2, AtWork
    <3>2. Units \cup {0, 11, 13} \subseteq 0..20
      BY UnitsAre
    <3>3. QED
      BY <3>1, <3>2 DEF Work
  <2>3. QED
    BY <2>1, <2>2 DEF IInv, Ledgers, StoresTyped, LedgersInStep, TypeOK
<1>2. QED
  BY <1>1, Invariance, PTL

\* What the phase has achieved it keeps, in either ledger.
THEOREM DoneCorrect == Spec => DoneStaysDone
<1>1. IInv => ReadyIsComplete
  BY DEF IInv, Ledgers
<1>2. IInv /\ [Next]_vars =>
        [/\ publicationProgress(run.last) <= publicationProgress(run'.last)
         /\ publicationProgress(coordinator.last) <= publicationProgress(coordinator'.last)]_vars
  BY NextInv DEF Grows
<1>3. QED
  BY <1>1, <1>2, Invariance, PTL DEF Spec, DoneStaysDone, ProgressKept

-----------------------------------------------------------------------------
(* The invariant of holds: who may still move a run that waits for its     *)
(* calls to be reconciled.                                                 *)

\* Was a hold of a target ever marked reconciled?
Marked(target) == <<"reconciled", target, 0>> \in log
Unmarked == coordinator.last \in Targets /\ ~Marked(coordinator.last)

\* Nothing is unknown of the unit a held run waits for.
Quiet(target) == Pending(target) = 20 \/ evidence[Pending(target)] \in {"known", "failed"}

\* A hold in the Coordinator, not yet marked.
Fresh == coordinator.state = "needs_action" /\ Unmarked

\* An execution whose write the Coordinator would take.
Current(k) == k.co.revision = coordinator.revision
Recording(k) == k.pc = "record" /\ Current(k)

\* What an execution relies on while there is a hold.
HoldingOK(k) ==
  /\ Recording(k) => ~Fresh /\ run.code # "reconciled"
  /\ Recording(k) /\ Unmarked /\ k.job = "needs_action" => Held
  /\ k.pc = "write" /\ k.same => k.job = "artifact"
  /\ k.pc = "write" /\ Current(k) /\ Fresh => k.expected = run.revision
  /\ k.pc \in {"resuming", "mark"} /\ ~Marked(k.job) => Current(k) /\ Quiet(k.job)
  /\ k.pc \in {"requeue", "return", "repair"} => Marked(k.job)
  /\ k.pc = "requeue" /\ k.expected = run.revision => run.code = "reconciled"

\* A hold that is called reconciled is the Coordinator's, and waits for nothing.
ReconciledOK ==
  run.code = "reconciled" =>
    /\ run.state = "needs_action" /\ coordinator.state = "needs_action" /\ coordinator.last \in Targets
    /\ run.event.key = <<"reconciled", coordinator.last, 0>>
    /\ <<"resumed", coordinator.last, 0>> \notin log
    /\ Quiet(coordinator.last)

Holds ==
  /\ run.event.key[1] = "needs_action" => Held
  /\ run.event.at <= run.revision
  /\ \A t \in Targets : <<"resumed", t, 0>> \in log => Marked(t)
  /\ Fresh => Held
  /\ ReconciledOK

HoldInv == Holds /\ \A w \in Workers : worker[w] # Idle => HoldingOK(worker[w])

LEMMA PendingIsUnit == \A target : Pending(target) \in Units
<1> DEFINE open == {u \in Calls \ {12} : receipt[u] = 0}
<1>1. open \subseteq Units /\ 12 \in Units /\ 20 \in Units
  BY UnitsAre
<1>2. open # {} => Min(open) \in Units
  BY <1>1, LeastUnit
<1> HIDE DEF open
<1>3. \A target : Pending(target) \in {12, 20} \/ (open # {} /\ Pending(target) = Min(open))
  BY DEF Pending, open
<1>4. QED
  BY <1>1, <1>2, <1>3

\* Only one call can be open: the one a held run waits for.
LEMMA QuietIsSafe ==
  ASSUME IInv, coordinator.last \in Targets, Quiet(coordinator.last), NEW u \in Units
  PROVE  evidence[u] # "open"
<1> SUFFICES ASSUME evidence[u] = "open" PROVE FALSE
  OBVIOUS
<1>1. CallsOK /\ CoordinatorOK /\ receipt \in [Units -> Nat]
  BY DEF IInv, Ledgers, StoresTyped
<1>2. /\ u \in Calls /\ u \notin Receipts /\ receipt[u] = 0 /\ Before(u) \subseteq Receipts
      /\ u >= 15 => Generating
  BY <1>1, UnitsAre DEF CallsOK, Receipts
<1>3. CASE coordinator.last = "visual_planning"
  <2>1. u = 12
    BY <1>2, <1>3, UnitsAre DEF Generating
  <2>2. QED
    BY <1>3, <2>1 DEF Quiet, Pending
<1>4. CASE coordinator.last = "visual_generating"
  <2> DEFINE open == {v \in Calls \ {12} : receipt[v] = 0}
  <2>1. 12 \in Receipts
    BY <1>1, <1>4 DEF CoordinatorOK, Generating
  <2>2. u \in open /\ open \subseteq Units
    BY <1>2, <2>1, UnitsAre
  <2>3. Min(open) \in open /\ Min(open) <= u
    BY <2>2, LeastUnit
  <2>4. Pending(coordinator.last) = Min(open)
    BY <1>4, <2>2 DEF Pending
  <2>5. \A v \in Units : v \in Int
    BY UnitsAre
  <2> DEFINE m == Min(open)
  <2>6. m \in Units /\ m # 20 /\ receipt[m] = 0 /\ m <= u
    BY <2>2, <2>3, UnitsAre
  <2>7. m = u
    <3> HIDE DEF m
    <3>1. m < u => m \in Receipts
      BY <1>2, <2>6 DEF Before
    <3>2. m \notin Receipts
      BY <2>6 DEF Receipts
    <3>3. QED
      BY <2>5, <2>6, <3>1, <3>2
  <2>8. QED
    BY <2>4, <2>6, <2>7 DEF Quiet
<1>5. QED
  BY <1>3, <1>4 DEF Targets

LEMMA HoldIsSafe == IInv /\ HoldInv => NoBlindResume
BY QuietIsSafe DEF HoldInv, Holds, ReconciledOK, NoBlindResume

-----------------------------------------------------------------------------
(* How a step looks to the executions that do not take it. *)

\* A step that leaves the Coordinator alone, and does not end a hold it has.
Calm ==
  /\ UNCHANGED <<coordinator, receipt>> /\ log \subseteq log'
  /\ \A u \in Units : evidence[u] \in {"known", "failed"} => evidence'[u] \in {"known", "failed"}
  /\ run' = run \/ (run'.revision > run.revision /\ ~Fresh')
  /\ Held /\ Unmarked' => Held'
  /\ run'.code = "reconciled" => run.code = "reconciled" \/ Fresh

\* A step of the Coordinator, when there is no hold to be marked.
Stirs ==
  /\ UNCHANGED <<run, log, evidence>> /\ ~Fresh /\ run.code # "reconciled"
  /\ \/ coordinator' = coordinator /\ coordinator.state # "needs_action"
     \/ coordinator'.revision > coordinator.revision

LEMMA QuietKept ==
  ASSUME UNCHANGED receipt, NEW t, Quiet(t),
         \A u \in Units : evidence[u] \in {"known", "failed"} => evidence'[u] \in {"known", "failed"}
  PROVE  Quiet(t)'
<1>1. Pending(t)' = Pending(t)
  BY DEF Pending
<1>2. QED
  BY <1>1, PendingIsUnit DEF Quiet

LEMMA HoldingKept ==
  ASSUME IInv, HoldInv, Calm \/ Stirs, NEW k \in Work, PlaceOK(k), HoldingOK(k)
  PROVE  HoldingOK(k)'
<1>1. /\ run.revision \in Nat /\ coordinator.revision \in Nat /\ k.co.revision \in Nat /\ k.expected \in Nat
      /\ k.pc \in {"write", "record"} \cup Resuming => k.expected <= run.revision
      /\ k.pc \in {"project", "write", "record"} \cup Resuming => k.co.revision <= coordinator.revision
      /\ k.pc \in Resuming => k.job \in Targets
      /\ k.pc \in Resuming /\ Current(k) => coordinator.state = "needs_action" /\ coordinator.last = k.job
  BY DEF IInv, Ledgers, StoresTyped, Work, PlaceOK, Current
<1>2. CASE Calm
  <2>1. /\ coordinator' = coordinator /\ receipt' = receipt
        /\ \A t : Marked(t) => Marked(t)'
        /\ Current(k)' = Current(k) /\ Recording(k)' = Recording(k)
        /\ Fresh' => Fresh
        /\ Unmarked' => Unmarked
    BY <1>2 DEF Calm, Marked, Current, Recording, Fresh, Unmarked
  <2>2. Recording(k)' => ~Fresh' /\ run'.code # "reconciled"
    BY <1>2, <2>1 DEF Calm, HoldingOK
  <2>3. Recording(k)' /\ Unmarked' /\ k.job = "needs_action" => Held'
    BY <1>2, <2>1 DEF Calm, HoldingOK
  <2>4. k.pc = "write" /\ Current(k)' /\ Fresh' => k.expected = run'.revision
    BY <1>2, <2>1 DEF Calm, HoldingOK
  <2>5. k.pc \in {"resuming", "mark"} /\ ~Marked(k.job)' => Current(k)' /\ Quiet(k.job)'
    <3>1. Quiet(k.job) => Quiet(k.job)'
      BY <1>2, <2>1, QuietKept DEF Calm
    <3>2. QED
      BY <2>1, <3>1 DEF HoldingOK
  <2>6. k.pc = "requeue" /\ k.expected = run'.revision => run'.code = "reconciled"
    <3>1. k.pc = "requeue" /\ k.expected = run'.revision => run' = run
      BY <1>1, <1>2 DEF Calm, Resuming
    <3>2. QED
      BY <3>1 DEF HoldingOK
  <2>7. QED
    BY <2>1, <2>2, <2>3, <2>4, <2>5, <2>6 DEF HoldingOK
<1>3. CASE Stirs
  <2>1. /\ run' = run /\ log' = log /\ \A t : Marked(t)' = Marked(t)
        /\ Held' = Held
    BY <1>3 DEF Stirs, Marked, Held
  <2>2. k.pc \in {"resuming", "mark"} => Marked(k.job)
    BY <1>1, <1>3 DEF Stirs, HoldingOK, Fresh, Unmarked, Resuming
  <2>3. CASE coordinator' = coordinator
    <3>1. ~Fresh' /\ Recording(k)' = Recording(k) /\ Unmarked' = Unmarked
      BY <1>3, <2>1, <2>3 DEF Stirs, Fresh, Unmarked, Recording, Current
    <3>2. QED
      BY <2>1, <2>2, <3>1 DEF HoldingOK
  <2>4. CASE coordinator'.revision > coordinator.revision
    <3>1. k.pc \in {"write", "record"} => ~Current(k)'
      BY <1>1, <2>4 DEF Current
    <3>2. ~Recording(k)'
      BY <3>1 DEF Recording
    <3>3. QED
      BY <2>1, <2>2, <3>1, <3>2 DEF HoldingOK
  <2>5. QED
    BY <1>3, <2>3, <2>4 DEF Stirs
<1>4. QED
  BY <1>2, <1>3

LEMMA HoldStep ==
  ASSUME IInv, HoldInv, Calm \/ Stirs, NEW w \in Workers, NEW x, Become(w, x), x # Idle => HoldingOK(x)', Holds'
  PROVE  HoldInv'
<1>1. ASSUME NEW v \in Workers, worker'[v] # Idle PROVE HoldingOK(worker[v])'
  <2>1. CASE v = w
    BY <1>1, <2>1 DEF Become, IInv
  <2>2. CASE v # w
    <3>1. worker'[v] = worker[v]
      BY <2>2 DEF IInv, Become
    <3>2. PICK k \in Work : worker[v] = k
      BY <1>1, <3>1 DEF IInv
    <3>3. PlaceOK(k) /\ HoldingOK(k)
      BY <3>2, IdleIsIdle DEF IInv, Working, HoldInv
    <3>4. HoldingOK(k)'
      BY <3>3, HoldingKept
    <3>5. QED
      BY <3>1, <3>2, <3>4
  <2>3. QED
    BY <2>1, <2>2
<1>2. QED
  BY <1>1 DEF HoldInv

LEMMA NobodyHolds ==
  ASSUME IInv, HoldInv, Calm \/ Stirs, worker' = worker, Holds'
  PROVE  HoldInv'
<1>1. ASSUME NEW v \in Workers, worker'[v] # Idle PROVE HoldingOK(worker[v])'
  <2>1. PICK k \in Work : worker[v] = k
    BY <1>1 DEF IInv
  <2>2. PlaceOK(k) /\ HoldingOK(k)
    BY <2>1, IdleIsIdle DEF IInv, Working, HoldInv
  <2>3. HoldingOK(k)'
    BY <2>2, HoldingKept
  <2>4. QED
    BY <2>1, <2>3
<1>2. QED
  BY <1>1 DEF HoldInv

\* A step that leaves both ledgers alone, and what is known of the calls.
Rests ==
  /\ UNCHANGED <<stores, receipt>>
  /\ \A u \in Units : evidence[u] \in {"known", "failed"} => evidence'[u] \in {"known", "failed"}

LEMMA RestsIsCalm ==
  ASSUME HoldInv, Rests
  PROVE  Calm /\ Holds'
<1>1. /\ run' = run /\ log' = log /\ coordinator' = coordinator /\ receipt' = receipt
      /\ Held' = Held /\ Unmarked' = Unmarked /\ Fresh' = Fresh /\ \A t : Marked(t)' = Marked(t)
  BY DEF Rests, stores, Held, Unmarked, Fresh, Marked
<1>2. Calm
  BY <1>1 DEF Rests, Calm
<1>3. Quiet(coordinator.last) => Quiet(coordinator.last)'
  <2>1. PICK t : t = coordinator.last
    OBVIOUS
  <2>2. Quiet(t) => Quiet(t)'
    BY <1>1, QuietKept DEF Rests
  <2>3. QED
    BY <1>1, <2>1, <2>2
<1>4. ReconciledOK'
  BY <1>1, <1>3 DEF HoldInv, Holds, ReconciledOK
<1>5. QED
  BY <1>1, <1>2, <1>4 DEF HoldInv, Holds

-----------------------------------------------------------------------------
(* Executions that do not touch a hold.                                    *)

\* Where an execution relies on something about a hold.
Watched == {"write", "record"} \cup Resuming

\* The execution goes where it does not.
Away(w) == \E x : Become(w, x) /\ x.pc \notin Watched

LEMMA AwayHolds ==
  ASSUME NEW x, x.pc \notin Watched
  PROVE  HoldingOK(x)
BY DEF HoldingOK, Watched, Resuming, Recording

LEMMA AwayStep ==
  ASSUME IInv, HoldInv, NEW w \in Workers, Calm \/ Stirs, Holds', Away(w)
  PROVE  HoldInv'
<1>1. PICK x : Become(w, x) /\ x.pc \notin Watched
  BY DEF Away
<1>2. HoldingOK(x)'
  BY <1>1 DEF HoldingOK, Watched, Resuming, Recording
<1>3. QED
  BY <1>1, <1>2, HoldStep

LEMMA IdleAway ==
  ASSUME NEW w, Become(w, Idle)
  PROVE  Away(w)
BY DEF Away, Idle, Watched, Resuming

LEMMA WorkerAway ==
  ASSUME NEW w, NEW pc, NEW job, NEW phase, NEW seen, NEW carried, Become(w, Worker(pc, job, phase, seen, carried)),
         pc \notin Watched
  PROVE  Away(w)
BY DEF Away, Worker

LEMMA GoesAway ==
  ASSUME NEW w, NEW pc, Goes(w, pc), pc \notin Watched
  PROVE  Away(w)
BY WorkerAway DEF Goes

LEMMA BeginsAway ==
  ASSUME NEW w, NEW job, NEW phase, Begins(w, job, phase)
  PROVE  Away(w)
<1> DEFINE x == [Worker("begin", job, phase, worker[w].seen, worker[w].carried) EXCEPT !.try = worker[w].try]
<1>1. x.pc = "begin"
  BY DEF Worker
<1>2. Become(w, x)
  BY DEF Begins
<1> HIDE DEF x
<1>3. QED
  BY <1>1, <1>2 DEF Away, Watched, Resuming

LEMMA NextUnitAway ==
  ASSUME NEW w, NEW phase, NEW seen, NextUnit(w, phase, seen)
  PROVE  Away(w)
<1> DEFINE u == Min({v \in Units : v > phase /\ (v \notin seen \/ v = 20)})
           pc == IF u = 20 THEN "qa" ELSE "call"
<1>1. Become(w, Worker(pc, "artifact", u, seen, worker[w].carried))
  BY DEF NextUnit
<1>2. pc \notin Watched
  BY DEF Watched, Resuming
<1> HIDE DEF u, pc
<1>3. QED
  BY <1>1, <1>2, WorkerAway

LEMMA StepFailsAway ==
  ASSUME NEW w, NEW outcome, StepFails(w, outcome)
  PROVE  Away(w)
<1>1. CASE worker[w].try < StepTries /\ worker[w].phase # 20
  <2> DEFINE x == [Worker("call", "artifact", worker[w].phase, worker[w].seen, 0) EXCEPT !.try = worker[w].try + 1]
  <2>1. x.pc = "call"
    BY DEF Worker
  <2>2. Become(w, x)
    BY <1>1 DEF StepFails
  <2> HIDE DEF x
  <2>3. QED
    BY <2>1, <2>2 DEF Away, Watched, Resuming
<1>2. CASE ~(worker[w].try < StepTries /\ worker[w].phase # 20)
  BY <1>2, BeginsAway DEF StepFails
<1>3. QED
  BY <1>1, <1>2

LEMMA WriteFailsAway ==
  ASSUME NEW w, NEW outcome, WriteFails(w, outcome)
  PROVE  Away(w)
<1>1. StepFails(w, outcome) \/ Become(w, Idle) \/ Begins(w, "failed", worker[w].phase)
  BY DEF WriteFails
<1>2. QED
  BY <1>1, StepFailsAway, IdleAway, BeginsAway

LEMMA ContinuesAway ==
  ASSUME NEW w, Continues(w)
  PROVE  Away(w)
<1>1. \/ Goes(w, "ledger") \/ Goes(w, "slots") \/ Goes(w, "planned") \/ Become(w, Idle)
      \/ Become(w, Worker("exact", "none", 20, worker[w].seen, 0))
      \/ NextUnit(w, worker[w].phase, worker[w].seen)
  BY DEF Continues
<1>2. "ledger" \notin Watched /\ "slots" \notin Watched /\ "planned" \notin Watched /\ "exact" \notin Watched
  BY DEF Watched, Resuming
<1>3. QED
  BY <1>1, <1>2, GoesAway, IdleAway, WorkerAway, NextUnitAway

\* The steps between the writes.
LEMMA LocalHold ==
  ASSUME IInv, HoldInv, NEW w \in Workers,
         \/ Enter(w) \/ ReadLedger(w) \/ ReadStage(w) \/ ReadSlots(w)
         \/ CheckQa(w) \/ StopCancelled(w) \/ ReadCoordinator(w) \/ VerifySet(w) \/ Crash(w)
  PROVE  HoldInv'
<1>1. UNCHANGED <<stores, units>>
  BY DEF Enter, ReadLedger, ReadStage, ReadSlots, CheckQa, StopCancelled, ReadCoordinator, VerifySet, Crash
<1>2. Rests
  BY <1>1 DEF Rests, units
<1>3. /\ "begin" \notin Watched /\ "ledger" \notin Watched /\ "planned" \notin Watched /\ "slots" \notin Watched
      /\ "call" \notin Watched /\ "project" \notin Watched
  BY DEF Watched, Resuming
<1>4. CASE Enter(w)
  BY <1>3, <1>4, WorkerAway, RestsIsCalm, <1>2, AwayStep DEF Enter
<1>5. CASE ReadLedger(w)
  <2>1. Away(w)
    BY <1>3, <1>5, WorkerAway, GoesAway DEF ReadLedger
  <2>2. QED
    BY <1>2, <2>1, RestsIsCalm, AwayStep
<1>6. CASE ReadStage(w)
  <2>1. Away(w)
    BY <1>3, <1>6, IdleAway, BeginsAway, GoesAway DEF ReadStage
  <2>2. QED
    BY <1>2, <2>1, RestsIsCalm, AwayStep
<1>7. CASE ReadSlots(w)
  BY <1>2, <1>7, NextUnitAway, RestsIsCalm, AwayStep DEF ReadSlots
<1>8. CASE CheckQa(w) \/ VerifySet(w)
  <2>1. Away(w)
    BY <1>8, IdleAway, BeginsAway DEF CheckQa, VerifySet
  <2>2. QED
    BY <1>2, <2>1, RestsIsCalm, AwayStep
<1>9. CASE StopCancelled(w) \/ Crash(w)
  BY <1>2, <1>9, IdleAway, RestsIsCalm, AwayStep DEF StopCancelled, Crash
<1>10. CASE ReadCoordinator(w)
  <2> DEFINE x == [worker[w] EXCEPT !.pc = "project",
                     !.co = [state |-> coordinator.state, revision |-> coordinator.revision]]
  <2>1. worker[w] \in Work
    BY <1>10, AtWork DEF ReadCoordinator
  <2>2. x.pc = "project"
    BY <2>1 DEF Work
  <2>3. Become(w, x)
    BY <1>10 DEF ReadCoordinator
  <2> HIDE DEF x
  <2>4. Away(w)
    BY <1>3, <2>2, <2>3 DEF Away
  <2>5. QED
    BY <1>2, <2>4, RestsIsCalm, AwayStep
<1>11. QED
  BY <1>4, <1>5, <1>6, <1>7, <1>8, <1>9, <1>10

\* The calls: what is known of one stays known.
LEMMA CallHold ==
  ASSUME IInv, HoldInv, NEW w \in Workers, CallSucceeds(w) \/ CallFails(w) \/ CallUnknown(w)
  PROVE  HoldInv'
<1> DEFINE u == worker[w].phase
<1>1. worker[w] \in Work /\ evidence \in [Units -> {"none", "open", "known", "failed"}]
  BY AtWork DEF CallSucceeds, CallFails, CallUnknown, IInv, Ledgers, StoresTyped
<1>2. Away(w)
  <2>1. CASE CallSucceeds(w)
    <3> DEFINE x == [worker[w] EXCEPT !.pc = "begin", !.carried = 0]
    <3>1. x.pc = "begin"
      BY <1>1 DEF Work
    <3>2. Become(w, x)
      BY <2>1 DEF CallSucceeds
    <3> HIDE DEF x
    <3>3. QED
      BY <3>1, <3>2 DEF Away, Watched, Resuming
  <2>2. CASE CallFails(w) \/ CallUnknown(w)
    BY <2>2, StepFailsAway DEF CallFails, CallUnknown
  <2>3. QED
    BY <2>1, <2>2
<1>3. Rests
  <2>1. UNCHANGED <<stores, receipt>>
    BY DEF CallSucceeds, CallFails, CallUnknown
  <2>2. CASE CallSucceeds(w)
    BY <1>1, <2>1, <2>2 DEF CallSucceeds, Rests
  <2>3. CASE CallFails(w)
    BY <1>1, <2>1, <2>3 DEF CallFails, Rests
  <2>4. CASE CallUnknown(w)
    BY <1>1, <2>1, <2>4 DEF CallUnknown, Rests
  <2>5. QED
    BY <2>2, <2>3, <2>4
<1>4. QED
  BY <1>2, <1>3, RestsIsCalm, AwayStep

LEMMA EvidenceHold ==
  ASSUME IInv, HoldInv, NEW u \in Units, EvidenceArrives(u)
  PROVE  HoldInv'
<1>1. Rests
  BY DEF EvidenceArrives, Rests, IInv, Ledgers, StoresTyped
<1>2. QED
  BY <1>1, RestsIsCalm, NobodyHolds DEF EvidenceArrives

\* Before a write the row is read.
LEMMA ReadProjectionHold ==
  ASSUME IInv, HoldInv, NEW w \in Workers, ReadProjection(w)
  PROVE  HoldInv'
<1> DEFINE same == worker[w].job = "artifact" /\ run.state = Stage(worker[w].phase)
           x == [worker[w] EXCEPT !.pc = "write", !.expected = run.revision, !.same = same]
<1>1. worker[w] \in Work /\ UNCHANGED <<stores, units>>
  BY AtWork DEF ReadProjection
<1>2. Rests
  BY <1>1 DEF Rests, units
<1>3. Become(w, Idle) \/ Become(w, x)
  BY DEF ReadProjection
<1>4. x.pc = "write" /\ x.expected = run.revision /\ x.same = same /\ x.job = worker[w].job
  BY <1>1 DEF Work
<1>5. CASE Become(w, Idle)
  BY <1>2, <1>5, IdleAway, RestsIsCalm, AwayStep
<1>6. CASE Become(w, x)
  <2>1. x.same => x.job = "artifact"
    BY <1>4
  <2> HIDE DEF x
  <2>2. run' = run
    BY <1>1 DEF stores
  <2>3. PICK k : k = x
    OBVIOUS
  <2>4. HoldingOK(k)'
    BY <1>4, <2>1, <2>2, <2>3 DEF HoldingOK, Recording, Resuming
  <2>5. QED
    BY <1>2, <1>6, <2>3, <2>4, RestsIsCalm, HoldStep
<1>7. QED
  BY <1>3, <1>5, <1>6

-----------------------------------------------------------------------------
(* Steps of the row in D1.                                                 *)

\* No hold: whatever else is written leaves it at that.
LEMMA RowIsCalm ==
  ASSUME HoldInv, ~Held, run.revision \in Nat, UNCHANGED <<coordinator, units>>, log \subseteq log',
         run'.revision = run.revision + 1, run'.code # "reconciled"
  PROVE  Calm /\ ~Fresh' /\ ReconciledOK'
<1>1. ~Fresh /\ ~Fresh'
  BY DEF HoldInv, Holds, Fresh, Unmarked, Marked
<1>2. QED
  BY <1>1 DEF Calm, ReconciledOK, units

LEMMA UserHold ==
  ASSUME IInv, HoldInv, NEW action \in {"retry", "cancel"}, UserActs(action)
  PROVE  HoldInv'
<1> DEFINE event == [key |-> <<action, 0, run.revision>>, at |-> run.revision + 1]
<1>1. /\ ~Held /\ UNCHANGED <<log, coordinator, units, worker>> /\ run.revision \in Nat
      /\ run' = Projected(IF action = "retry" THEN "retrying" ELSE "cancelled", "none", event)
  BY DEF UserActs, IInv, Ledgers, StoresTyped
<1>2. /\ run'.revision = run.revision + 1 /\ run'.code = "none" /\ run'.event = event
  BY <1>1 DEF Projected
<1>3. run'.event.key[1] = action /\ run'.event.at = run.revision + 1
  BY <1>2
<1>4. Calm /\ ~Fresh' /\ ReconciledOK'
  BY <1>1, <1>2, RowIsCalm
<1>5. Holds'
  BY <1>1, <1>2, <1>3, <1>4 DEF HoldInv, Holds, Marked
<1>6. QED
  BY <1>1, <1>4, <1>5, NobodyHolds

\* What is new in D1 after a transition that is no replay.
LEMMA RowIs ==
  ASSUME NEW t, TransitionSucceeds(t), ~IsReplay(t)
  PROVE  /\ run.revision = t.expected /\ TransitionAllowed(t.target, t.same) /\ t.key \notin log
         /\ log' = log \cup {t.key}
         /\ run'.state = t.target /\ run'.revision = run.revision + 1
         /\ run'.code = IF t.target \in ExceptionalStates THEN t.code ELSE "none"
         /\ run'.event.key = t.key /\ run'.event.at = t.at
BY DEF TransitionSucceeds, Projected, EventOf

\* The phase's own writes: none is allowed on a held run.
LEMMA WriteHold ==
  ASSUME IInv, HoldInv, NEW w \in Workers, WriteProjection(w)
  PROVE  HoldInv'
<1> DEFINE k == worker[w]
           x == [k EXCEPT !.pc = "record"]
<1>1. /\ k \in Work /\ PlaceOK(k) /\ k.pc = "write" /\ WritingOK(k) /\ HoldingOK(k)
      /\ UNCHANGED <<coordinator, units>> /\ run.revision \in Nat /\ k # Idle
  BY AtWork, IdleIsIdle DEF WriteProjection, IInv, PlaceOK, Writing, HoldInv, Ledgers, StoresTyped
<1>2. k.job \in Jobs \ {"none"} /\ k.expected \in Nat /\ k.co.revision \in Nat
  BY <1>1 DEF WritingOK, Work
<1>3. CASE TransitionSucceeds(TransitionOf(w)) /\ Become(w, x)
  <2>1. PICK t : t = TransitionOf(w)
    OBVIOUS
  <2>2. /\ t.key[1] = k.job /\ t.expected = k.expected /\ t.code = Code(k.job) /\ t.same = k.same
        /\ t.at = IF k.job = "artifact" THEN 0 ELSE k.expected + 1
        /\ t.target = Target(w) /\ (k.job # "artifact" => t.target = k.job)
        /\ k.job = "artifact" => t.target \in Targets
    BY <2>1, StagesAreStates DEF TransitionOf, KeyOf, Target
  <2>3. x.pc = "record" /\ x.job = k.job /\ x.co = k.co
    BY <1>1 DEF Work
  <2> HIDE DEF x
  <2>4. PICK y : y = x
    OBVIOUS
  <2>5. CASE IsReplay(t)
    <3>1. UNCHANGED <<run, log>>
      BY <1>3, <2>1, <2>5 DEF TransitionSucceeds
    <3>2. Rests
      BY <1>1, <3>1 DEF Rests, stores, units
    <3>3. run.event.key = t.key /\ run.event.at = t.at
      BY <2>5 DEF IsReplay, EventOf
    <3>4. k.job = "needs_action" => Held
      BY <2>2, <3>3 DEF HoldInv, Holds
    <3>5. Current(y) => ~Fresh
      <4> SUFFICES ASSUME Current(y), Fresh PROVE FALSE
        OBVIOUS
      <4>1. Current(k) /\ k.expected = run.revision /\ Held
        BY <1>1, <2>3, <2>4 DEF Current, HoldingOK, HoldInv, Holds
      <4>2. CASE k.job = "artifact"
        <5>1. run.state \in Targets
          BY <2>2, <3>3, <4>2, StagesAreStates DEF IInv, Ledgers, RunOK
        <5>2. QED
          BY <4>1, <5>1 DEF Held, Targets
      <4>3. CASE k.job # "artifact"
        <5>1. run.event.at <= run.revision
          BY DEF HoldInv, Holds
        <5>2. QED
          BY <1>1, <2>2, <3>3, <4>1, <4>3, <5>1
      <4>4. QED
        BY <4>2, <4>3
    <3>6. run.code # "reconciled"
      <4>1. run.code = "reconciled" => run.event.key[1] = "reconciled"
        BY DEF HoldInv, Holds, ReconciledOK
      <4>2. QED
        BY <1>2, <2>2, <3>3, <4>1 DEF Jobs
    <3>7. HoldingOK(y)
      BY <2>3, <2>4, <3>4, <3>5, <3>6 DEF HoldingOK, Recording, Resuming
    <3>8. /\ Current(y)' = Current(y) /\ Recording(y)' = Recording(y) /\ Fresh' = Fresh /\ Unmarked' = Unmarked
          /\ Held' = Held /\ run' = run
      BY <1>1, <3>1 DEF Current, Recording, Fresh, Unmarked, Held, Marked
    <3>9. HoldingOK(y)'
      BY <2>3, <2>4, <3>7, <3>8 DEF HoldingOK
    <3>10. QED
      BY <1>3, <2>4, <3>2, <3>9, RestsIsCalm, HoldStep
  <2>6. CASE ~IsReplay(t)
    <3>1. /\ run.revision = t.expected /\ TransitionAllowed(t.target, t.same)
          /\ log' = log \cup {t.key}
          /\ run'.state = t.target /\ run'.revision = run.revision + 1
          /\ run'.code = IF t.target \in ExceptionalStates THEN t.code ELSE "none"
          /\ run'.event.key = t.key /\ run'.event.at = t.at
      BY <1>3, <2>1, <2>6, RowIs
    <3>2. run.state # "needs_action"
      <4> SUFFICES ASSUME run.state = "needs_action" PROVE FALSE
        OBVIOUS
      <4>1. t.target # "needs_action" \/ ~t.same
        BY <1>1, <2>2 DEF HoldingOK, Targets
      <4>2. t.target \in {"visual_planning", "visual_generating", "visual_ready", "failed", "needs_action"}
        BY <1>2, <2>2 DEF Jobs, Targets
      <4>3. ALLOWED_PROJECTION_TRANSITIONS(run.state) = {"retrying", "cancelled"}
        BY DEF ALLOWED_PROJECTION_TRANSITIONS, NotHoldable
      <4>4. QED
        BY <3>1, <4>1, <4>2, <4>3 DEF TransitionAllowed
    <3>3. run'.code # "reconciled"
      BY <2>2, <3>1 DEF Code
    <3>4. Calm /\ ~Fresh' /\ ReconciledOK'
      BY <1>1, <3>1, <3>2, <3>3, RowIsCalm DEF Held
    <3>5. t.key[1] = "needs_action" => Held'
      BY <2>2, <3>1 DEF Held, Code, ExceptionalStates
    <3>6. run'.event.at <= run'.revision
      BY <1>1, <2>2, <3>1
    <3>7. \A s \in Targets : <<"resumed", s, 0>> \in log' => Marked(s)'
      <4>1. ASSUME NEW s \in Targets, <<"resumed", s, 0>> \in log' PROVE Marked(s)'
        <5>1. <<"resumed", s, 0>> # t.key
          BY <1>2, <2>2 DEF Jobs
        <5>2. <<"resumed", s, 0>> \in log
          BY <3>1, <4>1, <5>1
        <5>3. Marked(s)
          BY <5>2 DEF HoldInv, Holds
        <5>4. QED
          BY <3>1, <5>3 DEF Marked
      <4>2. QED
        BY <4>1
    <3>8. Holds'
      BY <3>1, <3>4, <3>5, <3>6, <3>7 DEF Holds
    <3>9. HoldingOK(y)'
      BY <2>2, <2>3, <2>4, <3>3, <3>4, <3>5 DEF HoldingOK, Recording, Resuming
    <3>10. QED
      BY <1>3, <2>4, <3>4, <3>8, <3>9, HoldStep
  <2>7. QED
    BY <2>5, <2>6
<1>4. CASE TransitionFails(TransitionOf(w)) /\ WriteFails(w, "unknown")
  <2>1. Rests
    BY <1>1, <1>4 DEF TransitionFails, Rests, stores, units
  <2>2. QED
    BY <1>4, <2>1, WriteFailsAway, RestsIsCalm, AwayStep
<1>5. QED
  BY <1>3, <1>4 DEF WriteProjection

-----------------------------------------------------------------------------
(* The way out of a hold.                                                  *)

LEMMA ReenterHolds ==
  ASSUME IInv, HoldInv, NEW w \in Workers, ReenterHold(w)
  PROVE  HoldInv'
<1> DEFINE target == coordinator.last
           u == Pending(target)
           co == [state |-> coordinator.state, revision |-> coordinator.revision]
           carried == IF u # 20 /\ evidence[u] = "known" THEN u ELSE 0
           x == [Worker("resuming", target, 0, {}, carried) EXCEPT !.co = co]
<1>1. Become(w, x) /\ UNCHANGED <<stores, units>> /\ Quiet(target)
  BY DEF ReenterHold, Quiet
<1>2. x.pc = "resuming" /\ x.job = target /\ x.co.revision = coordinator.revision
  BY DEF Worker
<1> HIDE DEF x
<1>3. Rests
  BY <1>1 DEF Rests, units
<1>4. coordinator' = coordinator
  BY <1>1 DEF stores
<1>5. PICK y, t : y = x /\ t = target
  OBVIOUS
<1>6. Quiet(t)'
  BY <1>1, <1>3, <1>5, QuietKept DEF Rests
<1>7. HoldingOK(y)'
  BY <1>2, <1>4, <1>5, <1>6 DEF HoldingOK, Recording, Current
<1>8. QED
  BY <1>1, <1>3, <1>5, <1>7, RestsIsCalm, HoldStep

\* What an execution finds in a row it read, it finds in a marked hold, or the
\* hold is still to be marked.
LEMMA ReadHolds ==
  ASSUME IInv, HoldInv, NEW w \in Workers, ReadHold(w)
  PROVE  HoldInv'
<1> DEFINE k == worker[w]
<1>1. /\ k \in Work /\ PlaceOK(k) /\ k.pc = "resuming" /\ HoldingOK(k) /\ ResumeWith(w, run, FALSE)
      /\ UNCHANGED <<stores, units>> /\ run.revision \in Nat /\ k # Idle
  BY AtWork, IdleIsIdle DEF ReadHold, IInv, HoldInv, Ledgers, StoresTyped
<1>2. Rests
  BY <1>1 DEF Rests, units
<1>3. PICK x \in {Idle} \cup Work : Become(w, x) /\ (x # Idle => Resumes(w, x, run, FALSE))
  BY <1>1, ResumeMoves
<1>4. CASE x = Idle
  BY <1>2, <1>3, <1>4, IdleAway, RestsIsCalm, AwayStep
<1>5. CASE x # Idle
  <2>1. Resumes(w, x, run, FALSE) /\ x.job = k.job /\ x.co = k.co
    BY <1>3, <1>5 DEF Resumes
  <2>2. k.job \in Targets /\ (Current(k) => coordinator.state = "needs_action" /\ coordinator.last = k.job)
    BY <1>1 DEF PlaceOK, Resuming, Current
  <2>3. ~Marked(k.job) => Current(x) /\ Quiet(x.job) /\ Held
    BY <1>1, <2>1, <2>2 DEF HoldingOK, Current, HoldInv, Holds, Fresh, Unmarked
  <2>4. x.pc \in {"requeue", "return", "repair"} => Marked(x.job)
    <3>1. CASE x.pc = "requeue"
      BY <2>1, <3>1 DEF Resumes
    <3>2. CASE x.pc = "return"
      BY <2>1, <2>3, <3>2 DEF Resumes, Held
    <3>3. CASE x.pc = "repair"
      <4>1. run.event.key = <<"resumed", x.job, 0>>
        BY <2>1, <3>3 DEF Resumes
      <4>2. run.event.key \in log
        BY <4>1 DEF IInv, Ledgers, RunOK
      <4>3. QED
        BY <2>1, <2>2, <4>1, <4>2 DEF HoldInv, Holds
    <3>4. QED
      BY <3>1, <3>2, <3>3
  <2>5. HoldingOK(x)
    <3>1. x.pc \in {"mark", "requeue", "return", "repair"} /\ x.pc # "requeue"
      BY <2>1 DEF Resumes
    <3>2. QED
      BY <2>1, <2>3, <2>4, <3>1 DEF HoldingOK, Recording
  <2>6. PlaceOK(x)'
    <3>1. IInv'
      BY ReadHoldKeeps
    <3>2. worker'[w] = x
      BY <1>3 DEF Become, IInv
    <3>3. QED
      BY <1>5, <3>1, <3>2, IdleIsIdle DEF IInv, Working
  <2>7. PlaceOK(x)
    <3>1. /\ x.seen = k.seen /\ x.phase = k.phase /\ x.expected = run.revision
          /\ x.pc \in {"mark", "requeue", "return", "repair"}
      BY <2>1 DEF Resumes
    <3>2. x.pc = "repair" => <<"resumed", x.job, 0>> \in log
      BY <1>1, <2>6 DEF PlaceOK, stores
    <3>3. x \in Work /\ k.pc \in Resuming
      BY <1>1, <1>5 DEF Resuming
    <3>4. StoresTyped
      BY DEF IInv, Ledgers
    <3>5. x.expected <= run.revision
      BY <1>1, <3>1
    <3>6. QED
      BY <1>1, <2>1, <3>1, <3>2, <3>3, <3>4, <3>5, ResumePlace
  <2>8. HoldingOK(x)'
    BY <1>2, <1>5, <2>5, <2>7, RestsIsCalm, HoldingKept
  <2>9. QED
    BY <1>2, <1>3, <2>8, RestsIsCalm, HoldStep
<1>6. QED
  BY <1>4, <1>5

LEMMA ResumeHolds ==
  ASSUME IInv, HoldInv, NEW w \in Workers, ResumeProjection(w)
  PROVE  HoldInv'
<1> DEFINE k == worker[w]
<1>1. /\ k \in Work /\ PlaceOK(k) /\ k.pc \in {"mark", "requeue", "return"} /\ HoldingOK(k)
      /\ UNCHANGED <<coordinator, units>> /\ run.revision \in Nat /\ k # Idle
  BY AtWork, IdleIsIdle DEF ResumeProjection, IInv, HoldInv, Ledgers, StoresTyped
<1>2. /\ k.job \in Targets /\ k.expected \in Nat
      /\ Current(k) => coordinator.state = "needs_action" /\ coordinator.last = k.job
  BY <1>1 DEF PlaceOK, Resuming, Current, Work
<1>3. CASE TransitionSucceeds(ResumeTransition(w)) /\ ResumeWith(w, run', TRUE)
  <2>1. PICK t, row : t = ResumeTransition(w) /\ row = run'
    OBVIOUS
  <2>2. /\ t.expected = k.expected /\ t.at = k.expected + 1
        /\ k.pc = "mark" => t.target = "needs_action" /\ t.code = "reconciled" /\ t.key = <<"reconciled", k.job, 0>>
        /\ k.pc = "requeue" => t.target = "retrying" /\ t.code = "none" /\ t.key = <<"retrying", k.job, 0>>
        /\ k.pc = "return" => t.target = k.job /\ ~t.same /\ t.code = "none" /\ t.key = <<"resumed", k.job, 0>>
    BY <2>1 DEF ResumeTransition
  <2>3. IInv'
    BY ResumeProjectionKeeps
  <2>4. row.revision \in Nat
    BY <2>1, <2>3 DEF IInv, Ledgers, StoresTyped
  <2>5. PICK x \in {Idle} \cup Work : Become(w, x) /\ (x # Idle => Resumes(w, x, row, TRUE))
    BY <1>1, <1>3, <2>1, <2>4, ResumeMoves
  <2>6. x # Idle =>
          /\ x.pc \in {"requeue", "return", "repair"} /\ x.job = k.job
          /\ x.pc = "requeue" => run'.code = "reconciled"
    BY <2>1, <2>5 DEF Resumes
  <2>7. CASE IsReplay(t)
    <3>1. UNCHANGED <<run, log>> /\ run.event.key = t.key
      BY <1>3, <2>1, <2>7 DEF TransitionSucceeds, IsReplay, EventOf
    <3>2. Rests
      BY <1>1, <3>1 DEF Rests, stores, units
    <3>3. k.pc = "mark" => run.event.key \in log
      BY <2>2, <3>1 DEF IInv, Ledgers, RunOK
    <3>4. Marked(k.job)
      BY <1>1, <2>2, <3>1, <3>3 DEF HoldingOK, Marked
    <3>5. <<"reconciled", k.job, 0>> \in log'
      BY <3>1, <3>4 DEF Marked
    <3>6. QED
      <4>1. Calm /\ Holds'
        BY <3>2, RestsIsCalm
      <4>2. PICK job : job = k.job
        OBVIOUS
      <4>3. x # Idle => HoldingOK(x)'
        BY <2>6, <3>5, <4>2 DEF HoldingOK, Recording, Marked
      <4>4. QED
        BY <2>5, <4>1, <4>3, HoldStep
  <2>8. CASE ~IsReplay(t)
    <3>1. /\ run.revision = t.expected /\ TransitionAllowed(t.target, t.same) /\ t.key \notin log
          /\ log' = log \cup {t.key}
          /\ run'.state = t.target /\ run'.revision = run.revision + 1
          /\ run'.code = IF t.target \in ExceptionalStates THEN t.code ELSE "none"
          /\ run'.event.key = t.key /\ run'.event.at = t.at
      BY <1>3, <2>1, <2>8, RowIs
    <3>2. run'.event.at = run'.revision
      BY <2>2, <3>1
    <3>3. t.key[1] \in {"reconciled", "retrying", "resumed"}
      BY <1>1, <2>2
    <3>4. \A s \in Targets : Marked(s) => Marked(s)'
      BY <3>1 DEF Marked
    <3>5. <<"reconciled", k.job, 0>> \in log'
      BY <1>1, <2>2, <3>1 DEF HoldingOK, Marked
    <3>6. \A s \in Targets : <<"resumed", s, 0>> \in log' => Marked(s)'
      <4>1. ASSUME NEW s \in Targets, <<"resumed", s, 0>> \in log' PROVE Marked(s)'
        <5>1. CASE <<"resumed", s, 0>> \in log
          BY <3>4, <5>1 DEF HoldInv, Holds
        <5>2. CASE <<"resumed", s, 0>> = t.key
          <6>1. k.pc = "return" /\ s = k.job
            BY <1>1, <2>2, <5>2
          <6>2. QED
            BY <3>5, <6>1 DEF Marked
        <5>3. QED
          BY <3>1, <4>1, <5>1, <5>2
      <4>2. QED
        BY <4>1
    <3>7. Calm /\ (Fresh' => Held') /\ ReconciledOK'
      <4>1. CASE k.pc = "mark"
        <5>1. ~Marked(k.job)
          BY <2>2, <3>1, <4>1 DEF Marked
        <5>2. /\ Current(k) /\ Quiet(k.job) /\ coordinator.state = "needs_action" /\ coordinator.last = k.job
              /\ Fresh
          BY <1>1, <1>2, <4>1, <5>1 DEF HoldingOK, Fresh, Unmarked
        <5>3. ~Unmarked' /\ ~Fresh'
          BY <1>1, <3>5, <5>2 DEF Unmarked, Marked, Fresh
        <5>4. Calm
          BY <1>1, <3>1, <5>2, <5>3 DEF Calm, units
        <5>5. PICK job : job = k.job
          OBVIOUS
        <5>6. Quiet(job)'
          BY <1>1, <5>2, <5>5, QuietKept DEF units
        <5>7. <<"resumed", job, 0>> \notin log'
          <6>1. <<"resumed", job, 0>> # t.key
            BY <2>2, <4>1
          <6>2. <<"resumed", job, 0>> \notin log
            BY <1>2, <5>1, <5>5 DEF HoldInv, Holds
          <6>3. QED
            BY <3>1, <6>1, <6>2
        <5>8. coordinator'.state = "needs_action" /\ coordinator'.last = job /\ job \in Targets
          BY <1>1, <1>2, <5>2, <5>5
        <5>9. run'.state = "needs_action" /\ run'.event.key = <<"reconciled", job, 0>>
          BY <2>2, <3>1, <4>1, <5>5
        <5>10. ReconciledOK'
          BY <5>6, <5>7, <5>8, <5>9 DEF ReconciledOK
        <5>11. QED
          BY <5>3, <5>4, <5>10
      <4>2. CASE k.pc = "requeue"
        <5>1. run.code = "reconciled" /\ run'.code = "none"
          BY <1>1, <2>2, <3>1, <4>2 DEF HoldingOK
        <5>2. Marked(coordinator.last)
          BY <5>1 DEF HoldInv, Holds, ReconciledOK, IInv, Ledgers, RunOK, Marked
        <5>3. ~Unmarked' /\ ~Fresh'
          BY <1>1, <3>1, <5>2 DEF Unmarked, Marked, Fresh
        <5>4. QED
          BY <1>1, <3>1, <5>1, <5>3 DEF Calm, ReconciledOK, units
      <4>3. CASE k.pc = "return"
        <5>1. run.state # "needs_action"
          <6> SUFFICES ASSUME run.state = "needs_action" PROVE FALSE
            OBVIOUS
          <6>1. ALLOWED_PROJECTION_TRANSITIONS(run.state) = {"retrying", "cancelled"}
            BY DEF ALLOWED_PROJECTION_TRANSITIONS, NotHoldable
          <6>2. QED
            BY <1>2, <2>2, <3>1, <4>3, <6>1 DEF TransitionAllowed, Targets
        <5>2. run'.code # "reconciled"
          BY <2>2, <3>1, <4>3
        <5>3. QED
          BY <1>1, <3>1, <5>1, <5>2, RowIsCalm DEF Held
      <4>4. QED
        BY <1>1, <4>1, <4>2, <4>3
    <3>8. Holds'
      <4>1. run'.event.key[1] # "needs_action" /\ run'.event.at <= run'.revision
        BY <1>1, <3>1, <3>2, <3>3
      <4>2. QED
        BY <3>6, <3>7, <4>1 DEF Holds
    <3>9. PICK job : job = k.job
      OBVIOUS
    <3>10. x # Idle => HoldingOK(x)'
      BY <2>6, <3>5, <3>9 DEF HoldingOK, Recording, Marked
    <3>11. QED
      BY <2>5, <3>7, <3>8, <3>10, HoldStep
  <2>9. QED
    BY <2>7, <2>8
<1>4. CASE TransitionFails(ResumeTransition(w)) /\ Become(w, Idle)
  <2>1. Rests
    BY <1>1, <1>4 DEF TransitionFails, Rests, stores, units
  <2>2. QED
    BY <1>4, <2>1, IdleAway, RestsIsCalm, AwayStep
<1>5. QED
  BY <1>3, <1>4 DEF ResumeProjection

-----------------------------------------------------------------------------
(* Steps of the Coordinator.                                               *)

\* No hold is marked or to be marked: the Coordinator may go on.
LEMMA StirsHolds ==
  ASSUME HoldInv, Stirs, Fresh' => Held
  PROVE  Holds'
<1>1. run' = run /\ log' = log /\ Held' = Held /\ (\A t : Marked(t)' = Marked(t)) /\ run.code # "reconciled"
  BY DEF Stirs, Held, Marked
<1>2. QED
  BY <1>1 DEF HoldInv, Holds, ReconciledOK

\* A write is for the revision the execution read.
LEMMA RecordStirs ==
  ASSUME IInv, HoldInv, NEW w \in Workers, worker[w].pc = "record", Recorded(w), UNCHANGED <<run, log, evidence>>
  PROVE  (Calm \/ Stirs) /\ Holds'
<1> DEFINE k == worker[w]
           revision == NextRevision(w)
<1>1. /\ k \in Work /\ PlaceOK(k) /\ WritingOK(k) /\ HoldingOK(k)
      /\ k.co.revision \in Nat /\ coordinator.revision \in Nat /\ k.co.revision <= coordinator.revision
      /\ revision \in {k.co.revision, k.co.revision + 1}
  <2>1. k \in Work /\ PlaceOK(k) /\ k # Idle /\ coordinator.revision \in Nat
    BY AtWork, IdleIsIdle DEF IInv, Ledgers, StoresTyped
  <2>2. HoldingOK(k) /\ WritingOK(k)
    BY <2>1 DEF HoldInv, PlaceOK, Writing
  <2>3. k.co.revision \in Nat /\ k.co.revision \in 1..coordinator.revision
    BY <2>1 DEF Work, PlaceOK
  <2>4. revision \in {k.co.revision, k.co.revision + 1}
    BY DEF NextRevision
  <2>5. QED
    BY <2>1, <2>2, <2>3, <2>4
<1>2. Current(k) => ~Fresh /\ run.code # "reconciled"
  BY <1>1 DEF HoldingOK, Recording
<1>3. CASE UNCHANGED <<coordinator, receipt>>
  <2>1. Rests
    BY <1>3 DEF Rests, stores
  <2>2. QED
    BY <2>1, RestsIsCalm
<1>4. ASSUME coordinator' = coordinator, coordinator.state # "needs_action"
      PROVE  (Calm \/ Stirs) /\ Holds'
  <2>1. Stirs
    BY <1>4 DEF Stirs, Fresh, HoldInv, Holds, ReconciledOK
  <2>2. ~Fresh'
    BY <1>4 DEF Fresh
  <2>3. QED
    BY <2>1, <2>2, StirsHolds
<1>5. ASSUME Current(k), coordinator'.revision > coordinator.revision, Fresh' => Held
      PROVE  (Calm \/ Stirs) /\ Holds'
  <2>1. Stirs
    BY <1>2, <1>5 DEF Stirs
  <2>2. QED
    BY <1>5, <2>1, StirsHolds
<1>6. CASE k.job = "artifact"
  <2> DEFINE u == k.phase
  <2>1. RecordReceipt(u, revision)
    BY <1>6 DEF Recorded
  <2>2. CASE receipt[u] = revision /\ UNCHANGED <<receipt, coordinator>>
    BY <1>3, <2>2
  <2>3. CASE /\ ReceiptAccepted(u, revision)
             /\ coordinator' = IF coordinator.state = Stage(u) THEN coordinator
                               ELSE Derived(Stage(u), revision, coordinator.code, coordinator.event)
    <3>1. Stage(u) # "needs_action"
      BY StagesAreStates DEF Targets
    <3>2. CASE coordinator.state = Stage(u)
      BY <1>4, <2>3, <3>1, <3>2
    <3>3. CASE coordinator.state # Stage(u)
      <4>1. coordinator.revision = revision - 1
        BY <2>3, <3>3 DEF ReceiptAccepted
      <4>2. Current(k) /\ revision = coordinator.revision + 1
        BY <1>1, <4>1 DEF Current
      <4>3. coordinator'.revision = revision /\ coordinator'.state = Stage(u)
        BY <2>3, <3>3 DEF Derived
      <4>4. ~Fresh' /\ coordinator'.revision > coordinator.revision
        BY <1>1, <3>1, <4>2, <4>3 DEF Fresh
      <4>5. QED
        BY <1>5, <4>2, <4>4
    <3>4. QED
      BY <3>2, <3>3
  <2>4. QED
    BY <2>1, <2>2, <2>3 DEF RecordReceipt
<1>7. CASE k.job # "artifact"
  <2>1. RecordState(k.job, revision, Code(k.job), KeyOf(w)) /\ receipt' = receipt /\ revision = k.co.revision + 1
    BY <1>7 DEF Recorded, Target, NextRevision
  <2>2. CASE UNCHANGED coordinator
    BY <1>3, <2>1, <2>2
  <2>3. CASE StateAccepted(k.job, revision) /\ coordinator' = Derived(k.job, revision, Code(k.job), KeyOf(w))
    <3>1. coordinator.revision = revision - 1
      BY <2>3 DEF StateAccepted
    <3>2. Current(k) /\ revision = coordinator.revision + 1
      BY <1>1, <2>1, <3>1 DEF Current
    <3>3. /\ coordinator'.revision = revision /\ coordinator'.state = k.job
          /\ k.job = "needs_action" => coordinator'.last = coordinator.last
      BY <2>3 DEF Derived, ExceptionalStates
    <3>4. Fresh' => Held
      <4> SUFFICES ASSUME Fresh' PROVE Held
        OBVIOUS
      <4>1. k.job = "needs_action" /\ Unmarked
        BY <3>3 DEF Fresh, Unmarked, Marked
      <4>2. QED
        BY <1>1, <3>2, <4>1 DEF HoldingOK, Recording
    <3>5. QED
      BY <1>1, <1>5, <3>2, <3>3, <3>4
  <2>4. QED
    BY <2>1, <2>2, <2>3 DEF RecordState
<1>8. QED
  BY <1>6, <1>7

LEMMA RecordHold ==
  ASSUME IInv, HoldInv, NEW w \in Workers, RecordSucceeds(w) \/ RecordFails(w)
  PROVE  HoldInv'
<1>1. /\ worker[w].pc = "record" /\ UNCHANGED <<run, log, evidence>>
      /\ Recorded(w) \/ UNCHANGED <<coordinator, receipt>>
  BY DEF RecordSucceeds, RecordFails
<1>2. Away(w)
  BY ContinuesAway, WriteFailsAway DEF RecordSucceeds, RecordFails
<1>3. (Calm \/ Stirs) /\ Holds'
  <2>1. CASE Recorded(w)
    BY <1>1, <2>1, RecordStirs
  <2>2. CASE UNCHANGED <<coordinator, receipt>>
    <3>1. Rests
      BY <1>1, <2>2 DEF Rests, stores
    <3>2. QED
      BY <3>1, RestsIsCalm
  <2>3. QED
    BY <1>1, <2>1, <2>2
<1>4. QED
  BY <1>2, <1>3, AwayStep

\* The Coordinator leaves a hold only when its hold was marked and resumed.
LEMMA RepairHolds ==
  ASSUME IInv, HoldInv, NEW w \in Workers, RepairCoordinator(w)
  PROVE  HoldInv'
<1> DEFINE k == worker[w]
           revision == k.co.revision + 1
           key == <<"resumed", k.job, 0>>
<1>1. /\ k \in Work /\ PlaceOK(k) /\ HoldingOK(k) /\ k.pc = "repair"
      /\ UNCHANGED <<run, log, units>>
      /\ RecordState(k.job, revision, "none", key) \/ UNCHANGED coordinator
      /\ Goes(w, "ledger") \/ Become(w, Idle)
      /\ k.co.revision \in Nat /\ coordinator.revision \in Nat
  BY AtWork, IdleIsIdle DEF RepairCoordinator, IInv, HoldInv, Ledgers, StoresTyped, Work
<1>2. /\ k.job \in Targets /\ Marked(k.job) /\ key \in log
      /\ Current(k) => coordinator.state = "needs_action" /\ coordinator.last = k.job
  BY <1>1 DEF PlaceOK, HoldingOK, Resuming, Current
<1>3. Away(w)
  <2>1. "ledger" \notin Watched
    BY DEF Watched, Resuming
  <2>2. QED
    BY <1>1, <2>1, GoesAway, IdleAway
<1>4. (Calm \/ Stirs) /\ Holds'
  <2>1. CASE UNCHANGED coordinator
    <3>1. Rests
      BY <1>1, <2>1 DEF Rests, stores, units
    <3>2. QED
      BY <3>1, RestsIsCalm
  <2>2. CASE StateAccepted(k.job, revision) /\ coordinator' = Derived(k.job, revision, "none", key)
    <3>1. coordinator.revision = revision - 1
      BY <2>2 DEF StateAccepted
    <3>2. Current(k) /\ revision = coordinator.revision + 1
      BY <1>1, <3>1 DEF Current
    <3>3. coordinator'.revision > coordinator.revision /\ coordinator'.state = k.job
      BY <1>1, <2>2, <3>2 DEF Derived
    <3>4. ~Fresh /\ ~Fresh'
      BY <1>2, <3>2, <3>3 DEF Fresh, Unmarked, Targets
    <3>5. run.code # "reconciled"
      BY <1>2, <3>2 DEF HoldInv, Holds, ReconciledOK
    <3>6. Stirs
      BY <1>1, <3>3, <3>4, <3>5 DEF Stirs, units
    <3>7. QED
      BY <3>4, <3>6, StirsHolds
  <2>3. QED
    BY <1>1, <2>1, <2>2 DEF RecordState
<1>5. QED
  BY <1>3, <1>4, AwayStep

-----------------------------------------------------------------------------
(* The theorem. *)

LEMMA InitHolds == Init => HoldInv
<1> SUFFICES ASSUME Init PROVE HoldInv
  OBVIOUS
<1> DEFINE key == <<"content_frozen", 0, 0>>
<1>1. /\ run.event.key = key /\ run.event.at = 1 /\ run.revision = 1 /\ run.code = "none" /\ log = {key}
      /\ coordinator.state = "content_frozen" /\ worker = [w \in Workers |-> Idle]
  BY DEF Init
<1>2. key[1] = "content_frozen"
  OBVIOUS
<1>3. \A t : <<"resumed", t, 0>> # key
  OBVIOUS
<1>4. Holds
  BY <1>1, <1>2, <1>3 DEF Holds, Fresh, ReconciledOK
<1>5. QED
  BY <1>1, <1>4 DEF HoldInv

LEMMA NextHolds ==
  ASSUME IInv, HoldInv, [Next]_vars
  PROVE  HoldInv'
<1>1. CASE UNCHANGED vars
  <2>1. Rests /\ worker' = worker
    BY <1>1 DEF vars, units, Rests
  <2>2. QED
    BY <2>1, RestsIsCalm, NobodyHolds
<1>2. ASSUME NEW w \in Workers, WorkerNext(w) \/ Crash(w)
      PROVE  HoldInv'
  <2>1. CASE \/ Enter(w) \/ ReadLedger(w) \/ ReadStage(w) \/ ReadSlots(w)
             \/ CheckQa(w) \/ StopCancelled(w) \/ ReadCoordinator(w) \/ VerifySet(w) \/ Crash(w)
    BY <2>1, LocalHold
  <2>2. CASE CallSucceeds(w) \/ CallFails(w) \/ CallUnknown(w)
    BY <2>2, CallHold
  <2>3. CASE ReadProjection(w) \/ WriteProjection(w) \/ RecordSucceeds(w) \/ RecordFails(w)
    BY <2>3, ReadProjectionHold, WriteHold, RecordHold
  <2>4. CASE ReenterHold(w) \/ ReadHold(w) \/ ResumeProjection(w) \/ RepairCoordinator(w)
    BY <2>4, ReenterHolds, ReadHolds, ResumeHolds, RepairHolds
  <2>5. QED
    BY <1>2, <2>1, <2>2, <2>3, <2>4 DEF WorkerNext
<1>3. ASSUME NEW u \in Units, EvidenceArrives(u) PROVE HoldInv'
  BY <1>3, EvidenceHold
<1>4. ASSUME NEW action \in {"retry", "cancel"}, UserActs(action) PROVE HoldInv'
  BY <1>4, UserHold
<1>5. QED
  BY <1>1, <1>2, <1>3, <1>4 DEF Next

\* However two executions race for a hold, and whatever either learns too late:
\* no hold is called reconciled, which lets the run be queued again and its calls
\* be repeated, while the outcome of a call is unknown.
THEOREM ResumeCorrect == Spec => []NoBlindResume
<1>1. Init => HoldInv
  BY InitHolds
<1>2. IInv /\ HoldInv /\ [Next]_vars => HoldInv'
  BY NextHolds
<1>3. IInv /\ HoldInv => NoBlindResume
  BY HoldIsSafe
<1>4. QED
  BY <1>1, <1>2, <1>3, Invariance, PTL DEF Spec

-----------------------------------------------------------------------------
(* The invariant of what settles: as long as nothing but answers is lost,  *)
(* there is one execution, and it knows where both ledgers are.            *)

\* A call failed.
Blamed == \E u \in Units : evidence[u] = "failed"

\* The event of a forward state is in the log only once the row has got there.
ReachedOK == \A key \in log : key[1] \in Forward \ {"artifact"} => publicationProgress(key[1]) <= publicationProgress(run.last)

\* At most one execution is at work.
Alone == \A v, w \in Workers : worker[v] # Idle /\ worker[w] # Idle => v = w

\* Where the ledgers part without an execution, the App has asked for it.
Parted ==
  \/ run.state \in {coordinator.state, "cancelled"}
  \/ run.state = "retrying" /\ coordinator.state \in {"failed", "needs_action"}

\* The state of the Coordinator from which an execution writes.
From(k) ==
  CASE k.job = "visual_planning" -> {"content_frozen"}
    [] k.job = "visual_generating" -> {"visual_planning"}
    [] k.job = "visual_ready" -> {"visual_generating"}
    [] k.job = "artifact" -> {Stage(k.phase)}
    [] k.job = "needs_action" -> Targets
    [] OTHER -> Targets \cup {"content_frozen"}

\* What the only execution knows of both ledgers where it stands.
Knows(k) ==
  /\ k.carried \in Units => evidence[k.carried] = "known"
  /\ k.pc \notin {"record"} \cup Resuming => run.state \in {coordinator.state, "cancelled"}
  /\ k.pc \in {"ledger", "planned"} => coordinator.state \in Targets
  /\ k.pc \in {"slots", "qa", "exact"} => coordinator.state = "visual_generating"
  /\ k.pc = "call" \/ (k.pc \in Writing /\ k.job = "artifact") => receipt[k.phase] = 0
  /\ k.pc \in {"call"} \cup Writing => coordinator.state \in From(k)
  /\ k.pc \in Writing =>
       /\ k.job = "visual_planning" => k.phase = 11
       /\ k.job = "visual_ready" => k.phase = 20
  /\ k.pc \in {"project", "write", "record"} => k.co = [state |-> coordinator.state, revision |-> coordinator.revision]
  /\ k.pc = "write" => Cancelled \/ (k.expected = run.revision /\ (k.job = "artifact" => k.same))
  /\ k.pc = "record" =>
       /\ run.state \in {TargetOf(k), "cancelled"} \/ (k.job = "failed" /\ run.state = "retrying")
       /\ k.job = "needs_action" => Held \/ Cancelled
  /\ k.pc \in Resuming => k.co.revision = coordinator.revision /\ coordinator.state = "needs_action"
  /\ k.pc \in Resuming \ {"repair"} => run.state \in {"needs_action", "retrying", "cancelled"}
  /\ k.pc = "repair" => run.state \in {k.job, "cancelled"}

\* A run is failed for a failure, or not at all if it was cancelled meanwhile.
Answers(k) == k.pc \in Writing /\ k.job = "failed" => Blamed \/ Cancelled
KnowsOK(k) == Knows(k) /\ Answers(k)

Clean ==
  /\ Alone /\ FailsForCause
  /\ (\A w \in Workers : worker[w] = Idle) => Parted
  /\ \A w \in Workers : worker[w] # Idle => KnowsOK(worker[w])

SettlesInv == ReachedOK /\ (OnlyAnswersLost => Clean)

\* What was not lost before is not lost by anything but an answer.
LEMMA NothingLost ==
  ASSUME faults \in FaultCounts, NEW kind \in FaultKinds \ {"answer"}, Fault(kind), OnlyAnswersLost'
  PROVE  FALSE
<1>1. faults \in [FaultKinds -> Nat] /\ kind \in FaultKinds
  BY DEF FaultCounts
<1>2. faults' = [faults EXCEPT ![kind] = @ + 1]
  BY DEF Fault
<1>3. faults'[kind] = faults[kind] + 1 /\ faults[kind] \in Nat
  BY <1>1, <1>2
<1>4. faults'[kind] = 0
  BY DEF OnlyAnswersLost
<1>5. QED
  BY <1>3, <1>4

LEMMA FaultCleans ==
  ASSUME faults \in FaultCounts, NEW kind \in FaultKinds, faults' = faults \/ Fault(kind), OnlyAnswersLost'
  PROVE  OnlyAnswersLost
<1>1. CASE faults' = faults
  BY <1>1 DEF OnlyAnswersLost
<1>2. CASE Fault(kind)
  <2>1. kind = "answer"
    BY <1>2, NothingLost
  <2>2. faults \in [FaultKinds -> Nat] /\ faults' = [faults EXCEPT !["answer"] = @ + 1]
    BY <1>2, <2>1 DEF FaultCounts, Fault
  <2>3. ASSUME NEW other \in FaultKinds \ {"answer"} PROVE faults[other] = 0
    <3>1. faults'[other] = faults[other]
      BY <2>2
    <3>2. QED
      BY <3>1 DEF OnlyAnswersLost
  <2>4. QED
    BY <2>3 DEF OnlyAnswersLost
<1>3. QED
  BY <1>1, <1>2

\* Every step loses at most one thing.
LEMMA StepFaults ==
  ASSUME [Next]_vars
  PROVE  \E kind \in FaultKinds : faults' = faults \/ Fault(kind)
<1>1. CASE UNCHANGED vars
  BY <1>1 DEF vars, FaultKinds
<1>2. ASSUME NEW w \in Workers, WorkerNext(w) \/ Crash(w)
      PROVE  faults' = faults \/ Fault("answer") \/ Fault("reply") \/ Fault("death") \/ Fault("overlap")
  BY <1>2 DEF WorkerNext, Enter, ReadLedger, ReadStage, ReadSlots, CallSucceeds, CallFails, CallUnknown, CheckQa,
     StopCancelled, ReadCoordinator, ReadProjection, WriteProjection, RecordSucceeds, RecordFails, VerifySet,
     ReenterHold, ReadHold, ResumeProjection, RepairCoordinator, Crash, Starts, Strikes
<1>3. ASSUME NEW u \in Units, EvidenceArrives(u) PROVE faults' = faults
  BY <1>3 DEF EvidenceArrives
<1>4. ASSUME NEW action, UserActs(action) PROVE faults' = faults
  BY <1>4 DEF UserActs
<1>5. QED
  BY <1>1, <1>2, <1>3, <1>4 DEF Next, FaultKinds

LEMMA CleanBefore ==
  ASSUME IInv, [Next]_vars, OnlyAnswersLost'
  PROVE  OnlyAnswersLost
<1>1. PICK kind \in FaultKinds : faults' = faults \/ Fault(kind)
  BY StepFaults
<1>2. QED
  BY <1>1, FaultCleans DEF IInv

\* An execution that is at work is the only one, and knows where it is.
LEMMA AtIdle == \A k \in {Idle} \cup Work : k.pc = "idle" => k = Idle
BY DEF Work, Positions, Writing, Resuming

LEMMA OnlyOne ==
  ASSUME IInv, Clean, NEW w \in Workers, worker[w].pc # "idle"
  PROVE  /\ worker[w] \in Work /\ PlaceOK(worker[w]) /\ KnowsOK(worker[w]) /\ worker[w] # Idle
         /\ \A v \in Workers \ {w} : worker[v] = Idle
BY AtWork, IdleIsIdle DEF Clean, Alone

LEMMA CleanStep ==
  ASSUME IInv, NEW w \in Workers, NEW x, Become(w, x), \A v \in Workers \ {w} : worker[v] = Idle,
         x # Idle => KnowsOK(x)', x = Idle => Parted', FailsForCause'
  PROVE  Clean'
<1>1. worker' = [worker EXCEPT ![w] = x] /\ worker \in [Workers -> {Idle} \cup Work]
  BY DEF Become, IInv
<1>2. worker'[w] = x /\ \A v \in Workers \ {w} : worker'[v] = Idle
  BY <1>1
<1>3. Alone'
  BY <1>2 DEF Alone
<1>4. (\A v \in Workers : worker'[v] = Idle) => Parted'
  BY <1>2
<1>5. \A v \in Workers : worker'[v] # Idle => KnowsOK(worker[v])'
  BY <1>2
<1>6. QED
  BY <1>3, <1>4, <1>5 DEF Clean

\* A step that leaves the stores alone.
LEMMA KnowsStays ==
  ASSUME UNCHANGED <<stores, units>>, NEW k, KnowsOK(k)
  PROVE  KnowsOK(k)'
<1>1. run' = run /\ coordinator' = coordinator /\ receipt' = receipt /\ evidence' = evidence
  BY DEF stores, units
<1>2. Blamed' = Blamed /\ Held' = Held /\ Cancelled' = Cancelled /\ From(k)' = From(k) /\ TargetOf(k)' = TargetOf(k)
  BY <1>1 DEF Blamed, Held, Cancelled, From, TargetOf
<1>3. QED
  BY <1>1, <1>2 DEF KnowsOK, Knows, Answers

LEMMA LocalClean ==
  ASSUME IInv, Clean, NEW w \in Workers, NEW x, Become(w, x), \A v \in Workers \ {w} : worker[v] = Idle,
         x # Idle => KnowsOK(x), x = Idle => Parted, UNCHANGED <<stores, units>>
  PROVE  Clean'
<1>1. x # Idle => KnowsOK(x)'
  BY KnowsStays
<1>2. Parted' = Parted /\ FailsForCause' = FailsForCause
  BY DEF stores, units, Parted, FailsForCause
<1>3. QED
  BY <1>1, <1>2, CleanStep DEF Clean

-----------------------------------------------------------------------------
(* The only execution walks on.                                            *)

LEMMA EnterClean ==
  ASSUME IInv, Clean, NEW w \in Workers, Enter(w), OnlyAnswersLost'
  PROVE  Clean'
<1> DEFINE begin == Worker("begin", "visual_planning", 11, {}, 0)
           ledger == Worker("ledger", "none", 0, {}, 0)
<1>1. UNCHANGED <<stores, units>> /\ worker[w].pc = "idle" /\ ~ Cancelled /\ Starts(w) /\ faults \in FaultCounts
  BY DEF Enter, IInv
<1>2. \A v \in Workers : worker[v] = Idle
  <2>1. ~ Fault("overlap")
    BY <1>1, NothingLost DEF FaultKinds
  <2>2. \A v \in Workers : worker[v].pc = "idle"
    BY <1>1, <2>1 DEF Starts
  <2>3. QED
    BY <2>2, AtIdle DEF IInv
<1>3. run.state = coordinator.state \/ coordinator.state \in {"failed", "needs_action"}
  BY <1>1, <1>2 DEF Clean, Parted, Cancelled
<1>4. 0 \notin Units
  BY UnitsAre
<1>5. CASE coordinator.state = "content_frozen" /\ Become(w, begin)
  <2>1. begin.pc = "begin" /\ begin.job = "visual_planning" /\ begin.phase = 11 /\ begin.carried = 0
    BY DEF Worker
  <2>2. KnowsOK(begin)
    <3> HIDE DEF begin
    <3>1. QED
      BY <1>3, <1>4, <1>5, <2>1 DEF KnowsOK, Knows, Answers, From, Writing, Resuming
  <2>3. begin # Idle
    BY <2>1 DEF Idle
  <2> HIDE DEF begin
  <2>4. QED
    BY <1>1, <1>2, <1>5, <2>2, <2>3, LocalClean
<1>6. CASE coordinator.state \in Targets /\ Become(w, ledger)
  <2>1. ledger.pc = "ledger" /\ ledger.carried = 0
    BY DEF Worker
  <2>2. KnowsOK(ledger)
    <3> HIDE DEF ledger
    <3>1. QED
      BY <1>3, <1>4, <1>6, <2>1 DEF KnowsOK, Knows, Answers, Writing, Resuming, Targets
  <2>3. ledger # Idle
    BY <2>1 DEF Idle
  <2> HIDE DEF ledger
  <2>4. QED
    BY <1>1, <1>2, <1>6, <2>2, <2>3, LocalClean
<1>7. QED
  BY <1>5, <1>6 DEF Enter, Targets

\* An execution that goes to rest between two parts of the phase.
LEMMA GoesClean ==
  ASSUME NEW w \in Workers, worker[w] \in Work, KnowsOK(worker[w]), NEW pc \in {"ledger", "planned", "slots"},
         Goes(w, pc), run.state \in {coordinator.state, "cancelled"},
         coordinator.state \in Targets, pc = "slots" => coordinator.state = "visual_generating"
  PROVE  \E x : Become(w, x) /\ x # Idle /\ KnowsOK(x)
<1> DEFINE x == Worker(pc, "none", 0, {}, worker[w].carried)
<1>1. x.pc = pc /\ x.carried = worker[w].carried
  BY DEF Worker
<1>2. x # Idle
  BY <1>1 DEF Idle
<1>3. KnowsOK(x)
  <2> HIDE DEF x
  <2>1. QED
    BY <1>1 DEF KnowsOK, Knows, Answers, Writing, Resuming
<1>4. Become(w, x)
  BY DEF Goes
<1> HIDE DEF x
<1>5. QED
  BY <1>2, <1>3, <1>4

LEMMA BeginsClean ==
  ASSUME NEW w \in Workers, worker[w] \in Work, KnowsOK(worker[w]), NEW job, NEW phase, Begins(w, job, phase),
         run.state \in {coordinator.state, "cancelled"},
         job = "artifact" => receipt[phase] = 0 /\ coordinator.state = Stage(phase),
         job = "visual_planning" => phase = 11 /\ coordinator.state = "content_frozen",
         job = "visual_generating" => coordinator.state = "visual_planning",
         job = "visual_ready" => phase = 20 /\ coordinator.state = "visual_generating",
         job = "needs_action" => coordinator.state \in Targets,
         coordinator.state \in Targets \cup {"content_frozen"}
  PROVE  \E x : Become(w, x) /\ x # Idle /\ Knows(x) /\ (job # "failed" => KnowsOK(x))
<1> DEFINE x == [Worker("begin", job, phase, worker[w].seen, worker[w].carried) EXCEPT !.try = worker[w].try]
<1>1. x.pc = "begin" /\ x.job = job /\ x.phase = phase /\ x.carried = worker[w].carried
  BY DEF Worker
<1>2. x # Idle
  BY <1>1 DEF Idle
<1>3. Knows(x) /\ (job # "failed" => KnowsOK(x))
  <2> HIDE DEF x
  <2>1. coordinator.state \in From(x)
    BY <1>1 DEF From
  <2>2. QED
    BY <1>1, <2>1 DEF KnowsOK, Knows, Answers, Writing, Resuming
<1>4. Become(w, x)
  BY DEF Begins
<1> HIDE DEF x
<1>5. QED
  BY <1>2, <1>3, <1>4

\* A call that failed is made again, or the run is held or failed for it.
LEMMA StepFailsClean ==
  ASSUME NEW w \in Workers, worker[w] \in Work, KnowsOK(worker[w]), NEW outcome, StepFails(w, outcome),
         run.state \in {coordinator.state, "cancelled"},
         receipt[worker[w].phase] = 0, coordinator.state = Stage(worker[w].phase)
  PROVE  \E x : Become(w, x) /\ x # Idle /\ Knows(x) /\ (outcome = "unknown" => KnowsOK(x))
<1>1. coordinator.state \in Targets
  BY StagesAreStates
<1>2. CASE worker[w].try < StepTries /\ worker[w].phase # 20
  <2> DEFINE x == [Worker("call", "artifact", worker[w].phase, worker[w].seen, 0) EXCEPT !.try = worker[w].try + 1]
  <2>1. x.pc = "call" /\ x.job = "artifact" /\ x.phase = worker[w].phase /\ x.carried = 0 /\ x # Idle
    BY DEF Worker, Idle
  <2>2. 0 \notin Units
    BY UnitsAre
  <2>3. Become(w, x)
    BY <1>2 DEF StepFails
  <2>4. Knows(x) /\ KnowsOK(x)
    <3> HIDE DEF x
    <3>1. coordinator.state \in From(x)
      BY <2>1 DEF From
    <3>2. QED
      BY <2>1, <2>2, <3>1 DEF KnowsOK, Knows, Answers, Writing, Resuming
  <2> HIDE DEF x
  <2>5. QED
    BY <2>1, <2>3, <2>4
<1>3. CASE ~ (worker[w].try < StepTries /\ worker[w].phase # 20)
  <2>1. PICK job \in {"needs_action", "failed"} :
          Begins(w, job, worker[w].phase) /\ (job = "failed" => outcome # "unknown")
    BY <1>3 DEF StepFails
  <2>2. QED
    BY <1>1, <2>1, BeginsClean
<1>4. QED
  BY <1>2, <1>3

\* The next unit of the slot loop has no receipt yet, or is the QA report.
LEMMA NextUnitClean ==
  ASSUME NEW w \in Workers, worker[w] \in Work, KnowsOK(worker[w]), NEW phase \in Nat, phase >= 13, phase < 20,
         NEW seen \in SUBSET Units, NextUnit(w, phase, seen),
         run.state \in {coordinator.state, "cancelled"}, coordinator.state = "visual_generating",
         receipt \in [Units -> Nat], \A v \in Receipts : v > phase => v \in seen \/ v = 20
  PROVE  \E x : Become(w, x) /\ x # Idle /\ KnowsOK(x)
<1> DEFINE S == {v \in Units : v > phase /\ (v \notin seen \/ v = 20)}
           u == Min(S)
           x == Worker(IF u = 20 THEN "qa" ELSE "call", "artifact", u, seen, worker[w].carried)
<1>1. 20 \in S /\ S \subseteq Units
  BY UnitsAre
<1>2. u \in S
  BY <1>1, LeastUnit
<1>3. u \in Units /\ u >= 15 /\ (u # 20 => receipt[u] = 0) /\ Stage(u) = "visual_generating"
  <2>1. u \in Units /\ u > phase /\ (u # 20 => u \notin seen)
    BY <1>2
  <2>2. u \in 12..20
    BY <2>1, UnitsAre
  <2>3. u # 12
    BY <2>1, <2>2
  <2>4. QED
    BY <2>1, <2>2, <2>3, UnitsAre DEF Receipts, Stage
<1>4. Become(w, x)
  BY DEF NextUnit
<1> HIDE DEF S, u
<1>5. x.pc = (IF u = 20 THEN "qa" ELSE "call") /\ x.job = "artifact" /\ x.phase = u /\ x.carried = worker[w].carried
  BY DEF Worker
<1> HIDE DEF x
<1>6. x # Idle
  BY <1>5 DEF Idle
<1>7. KnowsOK(x)
  BY <1>3, <1>5 DEF KnowsOK, Knows, Answers, From, Writing, Resuming
<1>8. QED
  BY <1>4, <1>6, <1>7

\* What the only execution knows before it writes.
LEMMA WalkingKnows ==
  ASSUME IInv, Clean, NEW w \in Workers, worker[w].pc # "idle", worker[w].pc \notin {"record"} \cup Resuming
  PROVE  /\ worker[w] \in Work /\ PlaceOK(worker[w]) /\ KnowsOK(worker[w]) /\ \A v \in Workers \ {w} : worker[v] = Idle
         /\ run.state \in {coordinator.state, "cancelled"} /\ Parted
         /\ receipt \in [Units -> Nat] /\ 12 \in Units /\ 20 \in Units
<1>1. worker[w] \in Work /\ PlaceOK(worker[w]) /\ KnowsOK(worker[w]) /\ \A v \in Workers \ {w} : worker[v] = Idle
  BY OnlyOne
<1>2. run.state \in {coordinator.state, "cancelled"}
  BY <1>1 DEF KnowsOK, Knows, Answers
<1>3. QED
  BY <1>1, <1>2, UnitsAre DEF Parted, IInv, Ledgers, StoresTyped

\* A step of the only execution that changes nothing but its place.
LEMMA WalksClean ==
  ASSUME IInv, Clean, NEW w \in Workers, worker[w].pc # "idle", worker[w].pc \notin {"record"} \cup Resuming,
         UNCHANGED <<stores, units>>, Become(w, Idle) \/ \E x : Become(w, x) /\ x # Idle /\ KnowsOK(x)
  PROVE  Clean'
<1>1. Parted /\ \A v \in Workers \ {w} : worker[v] = Idle
  BY WalkingKnows
<1>2. PICK x : Become(w, x) /\ (x # Idle => KnowsOK(x))
  OBVIOUS
<1>3. QED
  BY <1>1, <1>2, LocalClean

LEMMA ReadLedgerClean ==
  ASSUME IInv, Clean, NEW w \in Workers, ReadLedger(w)
  PROVE  Clean'
<1>1. worker[w].pc = "ledger" /\ UNCHANGED <<stores, units>>
  BY DEF ReadLedger
<1>2. /\ worker[w] \in Work /\ KnowsOK(worker[w]) /\ run.state \in {coordinator.state, "cancelled"}
      /\ coordinator.state \in Targets /\ receipt \in [Units -> Nat] /\ 12 \in Units
  BY <1>1, WalkingKnows DEF KnowsOK, Knows, Answers, Resuming
<1>3. CASE receipt[12] = 0
  <2> DEFINE x == Worker("call", "artifact", 12, {}, worker[w].carried)
  <2>1. x.pc = "call" /\ x.job = "artifact" /\ x.phase = 12 /\ x.carried = worker[w].carried /\ Become(w, x) /\ x # Idle
    BY <1>3 DEF Worker, Idle, ReadLedger
  <2>2. coordinator.state = "visual_planning"
    <3>1. 12 \notin Receipts /\ CoordinatorOK
      BY <1>3 DEF Receipts, IInv, Ledgers
    <3>2. coordinator.last = coordinator.state
      BY <1>2, <3>1, StagesAreStates DEF CoordinatorOK
    <3>3. QED
      BY <1>2, <3>1, <3>2 DEF CoordinatorOK, Generating, Targets
  <2> HIDE DEF x
  <2>3. KnowsOK(x)
    BY <1>2, <1>3, <2>1, <2>2 DEF KnowsOK, Knows, Answers, From, Stage, Writing, Resuming
  <2>4. QED
    BY <1>1, <2>1, <2>3, WalksClean DEF Resuming
<1>4. CASE receipt[12] # 0
  <2>1. Goes(w, "planned")
    BY <1>4 DEF ReadLedger
  <2>2. QED
    BY <1>1, <1>2, <2>1, GoesClean, WalksClean DEF Resuming
<1>5. QED
  BY <1>3, <1>4

LEMMA ReadStageClean ==
  ASSUME IInv, Clean, NEW w \in Workers, ReadStage(w)
  PROVE  Clean'
<1>1. worker[w].pc = "planned" /\ UNCHANGED <<stores, units>>
  BY DEF ReadStage
<1>2. /\ worker[w] \in Work /\ KnowsOK(worker[w]) /\ run.state \in {coordinator.state, "cancelled"}
      /\ coordinator.state \in Targets
  BY <1>1, WalkingKnows DEF KnowsOK, Knows, Answers, Resuming
<1>3. CASE coordinator.state = "visual_planning" /\ Begins(w, "visual_generating", 13)
  BY <1>1, <1>2, <1>3, BeginsClean, WalksClean DEF Resuming
<1>4. CASE coordinator.state = "visual_generating" /\ Goes(w, "slots")
  BY <1>1, <1>2, <1>4, GoesClean, WalksClean DEF Resuming
<1>5. CASE Become(w, Idle)
  BY <1>1, <1>5, WalksClean DEF Resuming
<1>6. QED
  BY <1>3, <1>4, <1>5 DEF ReadStage

LEMMA ReadSlotsClean ==
  ASSUME IInv, Clean, NEW w \in Workers, ReadSlots(w)
  PROVE  Clean'
<1>1. worker[w].pc = "slots" /\ UNCHANGED <<stores, units>> /\ NextUnit(w, 13, Receipts)
  BY DEF ReadSlots
<1>2. /\ worker[w] \in Work /\ KnowsOK(worker[w]) /\ run.state \in {coordinator.state, "cancelled"}
      /\ coordinator.state = "visual_generating" /\ receipt \in [Units -> Nat]
  BY <1>1, WalkingKnows DEF KnowsOK, Knows, Answers, Resuming
<1>3. Receipts \in SUBSET Units
  BY DEF Receipts
<1>4. \E x : Become(w, x) /\ x # Idle /\ KnowsOK(x)
  BY <1>1, <1>2, <1>3, NextUnitClean
<1>5. QED
  BY <1>1, <1>4, WalksClean DEF Resuming

LEMMA CheckQaClean ==
  ASSUME IInv, Clean, NEW w \in Workers, CheckQa(w)
  PROVE  Clean'
<1>1. /\ worker[w].pc = "qa" /\ UNCHANGED <<stores, units>>
      /\ Begins(w, IF 20 \in Receipts THEN "visual_ready" ELSE "artifact", 20)
  BY DEF CheckQa
<1>2. /\ worker[w] \in Work /\ KnowsOK(worker[w]) /\ run.state \in {coordinator.state, "cancelled"}
      /\ coordinator.state = "visual_generating" /\ receipt \in [Units -> Nat] /\ 20 \in Units
  BY <1>1, WalkingKnows DEF KnowsOK, Knows, Answers, Resuming
<1>3. Stage(20) = "visual_generating" /\ (20 \notin Receipts => receipt[20] = 0)
  BY <1>2 DEF Stage, Receipts
<1>4. PICK job \in {"visual_ready", "artifact"} : Begins(w, job, 20) /\ (job = "artifact" => receipt[20] = 0)
  BY <1>1, <1>3
<1>5. \E x : Become(w, x) /\ x # Idle /\ KnowsOK(x)
  BY <1>2, <1>3, <1>4, BeginsClean DEF Targets
<1>6. QED
  BY <1>1, <1>5, WalksClean DEF Resuming

LEMMA StopClean ==
  ASSUME IInv, Clean, NEW w \in Workers, StopCancelled(w)
  PROVE  Clean'
<1>1. /\ worker[w].pc \in {"call", "qa", "begin"} /\ UNCHANGED <<stores, units>> /\ Become(w, Idle)
  BY DEF StopCancelled
<1>2. QED
  BY <1>1, WalksClean DEF Resuming

LEMMA ReadCoordinatorClean ==
  ASSUME IInv, Clean, NEW w \in Workers, ReadCoordinator(w)
  PROVE  Clean'
<1> DEFINE k == worker[w]
           co == [state |-> coordinator.state, revision |-> coordinator.revision]
           x == [k EXCEPT !.pc = "project", !.co = co]
<1>1. k.pc = "begin" /\ UNCHANGED <<stores, units>> /\ Become(w, x)
  BY DEF ReadCoordinator
<1>2. k \in Work /\ KnowsOK(k)
  BY <1>1, WalkingKnows DEF Resuming
<1>3. x.pc = "project" /\ x.co = co /\ x.job = k.job /\ x.phase = k.phase /\ x.carried = k.carried
  BY <1>2 DEF Work
<1>4. x # Idle
  BY <1>3 DEF Idle
<1> HIDE DEF x
<1>5. KnowsOK(x)
  BY <1>1, <1>2, <1>3 DEF KnowsOK, Knows, Answers, From, Writing, Resuming
<1>6. QED
  BY <1>1, <1>4, <1>5, WalksClean DEF Resuming

LEMMA ReadProjectionClean ==
  ASSUME IInv, Clean, NEW w \in Workers, ReadProjection(w)
  PROVE  Clean'
<1> DEFINE k == worker[w]
           same == k.job = "artifact" /\ run.state = Stage(k.phase)
           x == [k EXCEPT !.pc = "write", !.expected = run.revision, !.same = same]
<1>1. k.pc = "project" /\ UNCHANGED <<stores, units>> /\ (Become(w, Idle) \/ Become(w, x))
  BY DEF ReadProjection
<1>2. k \in Work /\ KnowsOK(k) /\ run.state \in {coordinator.state, "cancelled"}
  BY <1>1, WalkingKnows DEF Resuming
<1>3. /\ x.pc = "write" /\ x.co = k.co /\ x.job = k.job /\ x.phase = k.phase /\ x.carried = k.carried
      /\ x.expected = run.revision /\ x.same = same
  BY <1>2 DEF Work
<1>4. x # Idle
  BY <1>3 DEF Idle
<1>5. coordinator.state \in From(k) /\ (k.job = "artifact" => From(k) = {Stage(k.phase)})
  BY <1>1, <1>2 DEF KnowsOK, Knows, Answers, From, Writing
<1>6. k.job = "artifact" => same \/ Cancelled
  BY <1>2, <1>5 DEF Cancelled
<1> HIDE DEF x, same
<1>7. KnowsOK(x)
  <2>1. From(x) = From(k)
    BY <1>3 DEF From
  <2>2. QED
    BY <1>1, <1>2, <1>3, <1>6, <2>1 DEF KnowsOK, Knows, Answers, Writing, Resuming
<1>8. QED
  BY <1>1, <1>4, <1>7, WalksClean DEF Resuming

LEMMA VerifySetClean ==
  ASSUME IInv, Clean, NEW w \in Workers, VerifySet(w)
  PROVE  Clean'
<1>1. /\ worker[w].pc = "exact" /\ UNCHANGED <<stores, units>>
      /\ \/ Become(w, Idle)
         \/ Begins(w, IF Receipts = Units THEN "visual_ready" ELSE "needs_action", 20)
  BY DEF VerifySet
<1>2. /\ worker[w] \in Work /\ KnowsOK(worker[w]) /\ run.state \in {coordinator.state, "cancelled"}
      /\ coordinator.state = "visual_generating"
  BY <1>1, WalkingKnows DEF KnowsOK, Knows, Answers, Resuming
<1>3. CASE Become(w, Idle)
  BY <1>1, <1>3, WalksClean DEF Resuming
<1>4. CASE Begins(w, IF Receipts = Units THEN "visual_ready" ELSE "needs_action", 20)
  <2>1. PICK job \in {"visual_ready", "needs_action"} : Begins(w, job, 20)
    BY <1>4
  <2>2. \E x : Become(w, x) /\ x # Idle /\ KnowsOK(x)
    BY <1>2, <2>1, BeginsClean DEF Targets
  <2>3. QED
    BY <1>1, <2>2, WalksClean DEF Resuming
<1>5. QED
  BY <1>1, <1>3, <1>4

LEMMA AllPlaces ==
  ASSUME NEW k \in Work, k.pc \notin {"record"} \cup Resuming
  PROVE  k.pc \in {"ledger", "planned", "slots", "qa", "exact", "call"} \cup Writing
BY DEF Work, Positions

-----------------------------------------------------------------------------
(* The calls, and everybody else.                                          *)

\* What is known of a call stays known.
LEMMA EvidenceKnows ==
  ASSUME UNCHANGED <<stores, receipt>>, NEW k, Knows(k),
         \A u \in Units : evidence[u] = "known" => evidence'[u] = "known"
  PROVE  Knows(k)'
<1>1. run' = run /\ coordinator' = coordinator /\ receipt' = receipt
  BY DEF stores
<1>2. Held' = Held /\ Cancelled' = Cancelled /\ From(k)' = From(k) /\ TargetOf(k)' = TargetOf(k)
  BY <1>1 DEF Held, Cancelled, From, TargetOf
<1>3. QED
  BY <1>1, <1>2 DEF Knows

\* A step that changes only what is known of a call.
LEMMA CallClean ==
  ASSUME IInv, Clean, NEW w \in Workers, worker[w].pc = "call", UNCHANGED <<stores, receipt>>,
         \A u \in Units : /\ evidence[u] = "known" => evidence'[u] = "known"
                          /\ evidence[u] = "failed" => evidence'[u] = "failed",
         NEW x, Become(w, x), x # Idle, Knows(x), Answers(x) \/ Blamed'
  PROVE  Clean'
<1>1. (\A v \in Workers \ {w} : worker[v] = Idle) /\ Parted
  BY WalkingKnows DEF Resuming
<1>2. Knows(x)'
  BY EvidenceKnows
<1>3. Cancelled' = Cancelled /\ (Blamed => Blamed') /\ run' = run
  BY DEF Cancelled, Blamed, stores
<1>4. Answers(x)'
  BY <1>3 DEF Answers
<1>5. FailsForCause'
  BY <1>3 DEF Clean, FailsForCause, Blamed
<1>6. QED
  BY <1>1, <1>2, <1>4, <1>5, CleanStep DEF KnowsOK

LEMMA CallKnows ==
  ASSUME IInv, Clean, NEW w \in Workers, worker[w].pc = "call"
  PROVE  /\ worker[w] \in Work /\ KnowsOK(worker[w]) /\ worker[w].phase \in Units /\ worker[w].job = "artifact"
         /\ run.state \in {coordinator.state, "cancelled"}
         /\ receipt[worker[w].phase] = 0 /\ coordinator.state = Stage(worker[w].phase)
         /\ evidence \in [Units -> {"none", "open", "known", "failed"}]
         /\ worker[w].carried \in Units => evidence[worker[w].carried] = "known"
<1>1. worker[w] \in Work /\ PlaceOK(worker[w]) /\ KnowsOK(worker[w]) /\ run.state \in {coordinator.state, "cancelled"}
  BY WalkingKnows DEF Resuming
<1>2. worker[w].job = "artifact" /\ worker[w].phase \in Units
  BY <1>1, UnitsAre DEF PlaceOK
<1>3. coordinator.state \in From(worker[w]) /\ receipt[worker[w].phase] = 0
  BY <1>1, <1>2 DEF KnowsOK, Knows
<1>4. coordinator.state = Stage(worker[w].phase)
  BY <1>2, <1>3 DEF From
<1>5. QED
  BY <1>1, <1>2, <1>3, <1>4 DEF KnowsOK, Knows, IInv, Ledgers, StoresTyped

LEMMA CallSucceedsClean ==
  ASSUME IInv, Clean, NEW w \in Workers, CallSucceeds(w)
  PROVE  Clean'
<1> DEFINE k == worker[w]
           u == k.phase
           x == [k EXCEPT !.pc = "begin", !.carried = 0]
<1>1. /\ k.pc = "call" /\ UNCHANGED <<stores, receipt>> /\ Become(w, x) /\ evidence' = [evidence EXCEPT ![u] = "known"]
      /\ k.carried = u \/ evidence[u] \in {"none", "known"}
  BY DEF CallSucceeds
<1>2. /\ k \in Work /\ KnowsOK(k) /\ u \in Units /\ k.job = "artifact" /\ evidence \in [Units -> {"none", "open", "known", "failed"}]
      /\ k.carried \in Units => evidence[k.carried] = "known"
      /\ run.state \in {coordinator.state, "cancelled"} /\ receipt[u] = 0 /\ coordinator.state = Stage(u)
  BY <1>1, CallKnows
<1>3. x.pc = "begin" /\ x.job = "artifact" /\ x.phase = u /\ x.carried = 0 /\ 0 \notin Units
  BY <1>2, UnitsAre DEF Work
<1>4. x # Idle
  BY <1>3 DEF Idle
<1> HIDE DEF x
<1>5. Knows(x) /\ Answers(x)
  BY <1>2, <1>3 DEF Knows, Answers, From, Writing, Resuming
<1>6. \A v \in Units : /\ evidence[v] = "known" => evidence'[v] = "known"
                       /\ evidence[v] = "failed" => evidence'[v] = "failed"
  BY <1>1, <1>2
<1>7. QED
  BY <1>1, <1>4, <1>5, <1>6, CallClean

LEMMA CallFailsClean ==
  ASSUME IInv, Clean, NEW w \in Workers, CallFails(w)
  PROVE  Clean'
<1> DEFINE k == worker[w]
           u == k.phase
<1>1. /\ k.pc = "call" /\ UNCHANGED <<stores, receipt>> /\ StepFails(w, "failed") /\ evidence' = [evidence EXCEPT ![u] = "failed"]
      /\ evidence[u] \in {"none", "failed"}
  BY DEF CallFails
<1>2. /\ k \in Work /\ KnowsOK(k) /\ u \in Units /\ evidence \in [Units -> {"none", "open", "known", "failed"}]
      /\ run.state \in {coordinator.state, "cancelled"} /\ receipt[u] = 0 /\ coordinator.state = Stage(u)
  BY <1>1, CallKnows
<1>3. PICK x : Become(w, x) /\ x # Idle /\ Knows(x)
  BY <1>1, <1>2, StepFailsClean
<1>4. Blamed'
  BY <1>1, <1>2 DEF Blamed
<1>5. \A v \in Units : /\ evidence[v] = "known" => evidence'[v] = "known"
                       /\ evidence[v] = "failed" => evidence'[v] = "failed"
  BY <1>1, <1>2
<1>6. QED
  BY <1>1, <1>3, <1>4, <1>5, CallClean

LEMMA CallUnknownClean ==
  ASSUME IInv, Clean, NEW w \in Workers, CallUnknown(w)
  PROVE  Clean'
<1> DEFINE k == worker[w]
           u == k.phase
<1>1. /\ k.pc = "call" /\ UNCHANGED <<stores, receipt>> /\ StepFails(w, "unknown")
      /\ evidence' = [evidence EXCEPT ![u] = IF @ = "none" THEN "open" ELSE @]
  BY DEF CallUnknown
<1>2. /\ k \in Work /\ KnowsOK(k) /\ u \in Units /\ evidence \in [Units -> {"none", "open", "known", "failed"}]
      /\ run.state \in {coordinator.state, "cancelled"} /\ receipt[u] = 0 /\ coordinator.state = Stage(u)
  BY <1>1, CallKnows
<1>3. PICK x : Become(w, x) /\ x # Idle /\ Knows(x) /\ KnowsOK(x)
  BY <1>1, <1>2, StepFailsClean
<1>4. \A v \in Units : /\ evidence[v] = "known" => evidence'[v] = "known"
                       /\ evidence[v] = "failed" => evidence'[v] = "failed"
  BY <1>1, <1>2
<1>5. QED
  BY <1>1, <1>3, <1>4, CallClean DEF KnowsOK

\* A step no execution takes part in.
LEMMA NobodyClean ==
  ASSUME IInv, Clean, worker' = worker, (\A w \in Workers : worker[w] = Idle) => Parted', FailsForCause',
         \A k \in Work : PlaceOK(k) /\ KnowsOK(k) => KnowsOK(k)'
  PROVE  Clean'
<1>1. ASSUME NEW v \in Workers, worker[v] # Idle PROVE KnowsOK(worker[v])'
  <2>1. PICK k \in Work : worker[v] = k
    BY <1>1 DEF IInv
  <2>2. PlaceOK(k) /\ KnowsOK(k)
    BY <1>1, <2>1 DEF Clean, IInv, Working
  <2>3. KnowsOK(k)'
    BY <2>2
  <2>4. QED
    BY <2>1, <2>3
<1>2. QED
  BY <1>1 DEF Clean, Alone

LEMMA EvidenceClean ==
  ASSUME IInv, Clean, NEW u \in Units, EvidenceArrives(u)
  PROVE  Clean'
<1>1. /\ evidence[u] = "open" /\ UNCHANGED <<stores, receipt, worker>>
      /\ \E outcome \in {"known", "failed"} : evidence' = [evidence EXCEPT ![u] = outcome]
  BY DEF EvidenceArrives
<1>2. \A v \in Units : /\ evidence[v] = "known" => evidence'[v] = "known"
                       /\ evidence[v] = "failed" => evidence'[v] = "failed"
  BY <1>1 DEF IInv, Ledgers, StoresTyped
<1>3. run' = run /\ coordinator' = coordinator /\ Cancelled' = Cancelled /\ (Blamed => Blamed')
  BY <1>1, <1>2 DEF stores, Cancelled, Blamed
<1>4. ASSUME NEW k \in Work, PlaceOK(k) /\ KnowsOK(k) PROVE KnowsOK(k)'
  <2>1. Knows(k)'
    BY <1>1, <1>2, <1>4, EvidenceKnows DEF KnowsOK
  <2>2. QED
    BY <1>3, <1>4, <2>1 DEF KnowsOK, Answers
<1>5. Parted' = Parted /\ FailsForCause'
  BY <1>3 DEF Clean, Parted, FailsForCause, Blamed
<1>6. QED
  BY <1>1, <1>4, <1>5, NobodyClean DEF Clean

\* The App may retry only what both ledgers call failed, or a hold that is reconciled.
LEMMA UserClean ==
  ASSUME IInv, Clean, NEW action \in {"retry", "cancel"}, UserActs(action)
  PROVE  Clean'
<1> DEFINE target == IF action = "retry" THEN "retrying" ELSE "cancelled"
           event == [key |-> <<action, 0, run.revision>>, at |-> run.revision + 1]
<1>1. /\ ~ Held /\ UNCHANGED <<log, coordinator, units, worker>> /\ run' = Projected(target, "none", event)
      /\ action = "retry" => run.state \in {"failed", "needs_action"}
      /\ action = "cancel" => run.state \notin TERMINAL_STATES
  BY DEF UserActs
<1>2. run'.state = target
  BY <1>1 DEF Projected
<1>3. coordinator' = coordinator /\ receipt' = receipt /\ evidence' = evidence
  BY <1>1 DEF units
<1>4. target \in {"retrying", "cancelled"} /\ ~ Cancelled
  BY <1>1 DEF Cancelled, TERMINAL_STATES
<1>5. ASSUME NEW k \in Work, PlaceOK(k) /\ KnowsOK(k) PROVE KnowsOK(k)'
  <2>1. From(k)' = From(k) /\ TargetOf(k)' = TargetOf(k)
    BY DEF From, TargetOf
  <2>2. CASE target = "cancelled"
    <3>1. Cancelled' /\ run'.state = "cancelled"
      BY <1>2, <2>2 DEF Cancelled
    <3>2. QED
      BY <1>3, <1>5, <2>1, <3>1 DEF KnowsOK, Knows, Answers
  <2>3. CASE target = "retrying"
    <3>1. run.state \in {"failed", "needs_action"}
      BY <1>1, <2>3
    <3>2. k.pc \in {"record"} \cup Resuming
      <4>1. coordinator.state \notin {"failed", "needs_action"} \/ k.pc \in {"record"} \cup Resuming
        BY <1>5, AllPlaces DEF KnowsOK, Knows, From, Targets, Stage, Work
      <4>2. QED
        BY <1>5, <3>1, <4>1 DEF KnowsOK, Knows
    <3>3. CASE k.pc = "record"
      <4>1. k.job = "failed"
        BY <1>1, <1>4, <1>5, <3>1, <3>3 DEF KnowsOK, Knows, TargetOf, Stage, Held, Cancelled, PlaceOK, WritingOK, Writing, Work, Jobs
      <4>2. Blamed
        BY <1>4, <1>5, <3>3, <4>1 DEF KnowsOK, Answers, Writing
      <4>3. Blamed'
        BY <1>3, <4>2 DEF Blamed
      <4>4. QED
        BY <1>2, <1>3, <1>5, <2>1, <2>3, <3>3, <4>1, <4>3 DEF KnowsOK, Knows, Answers, Resuming
    <3>4. CASE k.pc \in Resuming
      <4>1. k.pc # "repair"
        BY <1>5, <3>1, <3>4, <1>4 DEF KnowsOK, Knows, PlaceOK, Targets, Cancelled
      <4>2. QED
        BY <1>2, <1>3, <1>5, <2>1, <2>3, <3>4, <4>1 DEF KnowsOK, Knows, Answers, Resuming, Writing
    <3>5. QED
      BY <3>2, <3>3, <3>4
  <2>4. QED
    BY <2>2, <2>3
<1>6. ASSUME \A w \in Workers : worker[w] = Idle PROVE Parted'
  BY <1>1, <1>2, <1>3, <1>4, <1>6 DEF Clean, Parted, Cancelled
<1>7. FailsForCause'
  BY <1>2 DEF FailsForCause
<1>8. QED
  BY <1>1, <1>5, <1>6, <1>7, NobodyClean

-----------------------------------------------------------------------------
(* The write to D1: the only execution is refused after a cancellation.    *)

LEMMA TransitionIs ==
  ASSUME NEW w \in Workers, worker[w] \in Work, WritingOK(worker[w]), NEW t, t = TransitionOf(w)
  PROVE  /\ t.key = KeyOf(w) /\ t.key[1] = worker[w].job /\ t.key[2] = worker[w].phase
         /\ t.target = TargetOf(worker[w]) /\ t.code = Code(worker[w].job) /\ t.same = worker[w].same
         /\ t.expected = worker[w].expected
         /\ t.at = IF worker[w].job = "artifact" THEN 0 ELSE worker[w].expected + 1
         /\ t.target \in Targets \cup {"visual_ready", "failed", "needs_action"}
<1>1. worker[w].job \in Jobs \ {"none"}
  BY DEF Work, WritingOK
<1>2. Target(w) \in Targets \cup {"visual_ready", "failed", "needs_action"}
  BY <1>1, StagesAreStates DEF Target, Jobs, Targets
<1>3. QED
  BY <1>2 DEF TransitionOf, KeyOf, Target, TargetOf

\* A cancelled row takes no other write.
LEMMA CancelledStays ==
  ASSUME Cancelled, NEW t, t.target \in Targets \cup {"visual_ready", "failed", "needs_action", "retrying"}, TransitionSucceeds(t)
  PROVE  run' = run
<1>1. ~ TransitionAllowed(t.target, t.same)
  BY DEF TransitionAllowed, Cancelled, Targets, ALLOWED_PROJECTION_TRANSITIONS, NotHoldable
<1>2. QED
  BY <1>1 DEF TransitionSucceeds

\* A forward write is granted unless the run is cancelled.
LEMMA ForwardGranted ==
  ASSUME IInv, HoldInv, ReachedOK, NEW w \in Workers, worker[w].pc = "write", worker[w] \in Work, WritingOK(worker[w]),
         worker[w].job \in Forward \ {"artifact"}, KnowsOK(worker[w]), TransitionFails(TransitionOf(w))
  PROVE  Cancelled
<1> SUFFICES ASSUME ~ Cancelled PROVE FALSE
  OBVIOUS
<1> DEFINE k == worker[w]
<1>1. PICK t : t = TransitionOf(w)
  OBVIOUS
<1>2. t.key[1] = k.job /\ t.target = k.job /\ t.expected = k.expected
  BY <1>1, TransitionIs DEF TargetOf, Forward
<1>3. run.state = coordinator.state /\ coordinator.state \in From(k) /\ k.expected = run.revision
  BY DEF KnowsOK, Knows, Cancelled, Writing, Resuming
<1>4. /\ k.job = "visual_planning" => run.state = "content_frozen"
      /\ k.job = "visual_generating" => run.state = "visual_planning"
      /\ k.job = "visual_ready" => run.state = "visual_generating"
      /\ k.job \in {"visual_planning", "visual_generating", "visual_ready"}
  BY <1>3 DEF From, Forward
<1>5. TransitionAllowed(t.target, t.same)
  BY <1>2, <1>4 DEF TransitionAllowed, ALLOWED_PROJECTION_TRANSITIONS, PipelineSuccessors, NotHoldable
<1>6. t.key \notin log
  <2>1. run.last = run.state
    BY <1>4, StagesAreStates DEF IInv, Ledgers, RunOK, Stages
  <2>2. t.key \in log => publicationProgress(k.job) <= publicationProgress(run.state)
    BY <1>2, <2>1 DEF ReachedOK
  <2>3. ~ (publicationProgress(k.job) <= publicationProgress(run.state))
    BY <1>4, StageProgress
  <2>4. QED
    BY <2>2, <2>3
<1>7. QED
  BY <1>1, <1>2, <1>3, <1>5, <1>6 DEF TransitionFails

LEMMA WriteFailsClean ==
  ASSUME IInv, HoldInv, ReachedOK, Clean, NEW w \in Workers, worker[w].pc = "write", UNCHANGED <<stores, units>>,
         TransitionFails(TransitionOf(w)), WriteFails(w, "unknown")
  PROVE  Clean'
<1> DEFINE k == worker[w]
<1>1. /\ k \in Work /\ PlaceOK(k) /\ KnowsOK(k) /\ run.state \in {coordinator.state, "cancelled"} /\ WritingOK(k)
  BY WalkingKnows DEF Resuming, PlaceOK, Writing
<1>2. coordinator.state \in From(k) /\ k.job \in Jobs \ {"none"}
  BY <1>1 DEF KnowsOK, Knows, Writing, WritingOK, Work
<1>3. CASE k.job = "artifact"
  <2>1. StepFails(w, "unknown") /\ receipt[k.phase] = 0 /\ coordinator.state = Stage(k.phase)
    BY <1>1, <1>2, <1>3 DEF WriteFails, KnowsOK, Knows, From, Writing
  <2>2. \E x : Become(w, x) /\ x # Idle /\ KnowsOK(x)
    BY <1>1, <2>1, StepFailsClean
  <2>3. QED
    BY <2>2, WalksClean DEF Resuming
<1>4. CASE k.job \in {"needs_action", "failed"}
  <2>1. Become(w, Idle)
    BY <1>4 DEF WriteFails
  <2>2. QED
    BY <2>1, WalksClean DEF Resuming
<1>5. CASE k.job \in Forward \ {"artifact"}
  <2>1. Begins(w, "failed", k.phase)
    BY <1>5 DEF WriteFails, Forward
  <2>2. Cancelled
    BY <1>1, <1>5, ForwardGranted
  <2>3. coordinator.state \in Targets \cup {"content_frozen"}
    BY <1>2, <1>5 DEF From, Forward, Targets
  <2>4. \E x : Become(w, x) /\ x # Idle /\ Knows(x)
    BY <1>1, <2>1, <2>3, BeginsClean
  <2>5. \E x : Become(w, x) /\ x # Idle /\ KnowsOK(x)
    BY <2>2, <2>4 DEF KnowsOK, Answers
  <2>6. QED
    BY <2>5, WalksClean DEF Resuming
<1>6. QED
  BY <1>2, <1>3, <1>4, <1>5 DEF Jobs, Forward

LEMMA WriteSucceedsClean ==
  ASSUME IInv, HoldInv, Clean, NEW w \in Workers, worker[w].pc = "write", UNCHANGED <<coordinator, units>>,
         TransitionSucceeds(TransitionOf(w)), Become(w, [worker[w] EXCEPT !.pc = "record"])
  PROVE  Clean'
<1> DEFINE k == worker[w]
<1>1. /\ k \in Work /\ PlaceOK(k) /\ KnowsOK(k) /\ run.state \in {coordinator.state, "cancelled"} /\ WritingOK(k)
      /\ \A v \in Workers \ {w} : worker[v] = Idle
      /\ run.revision \in Nat /\ run.event.at <= run.revision
  BY WalkingKnows DEF Resuming, PlaceOK, Writing, HoldInv, Holds, IInv, Ledgers, StoresTyped
<1>2. PICK t : t = TransitionOf(w)
  OBVIOUS
<1>3. /\ t.key[1] = k.job /\ t.key[2] = k.phase /\ t.target = TargetOf(k) /\ t.code = Code(k.job)
      /\ t.expected = k.expected /\ t.at = IF k.job = "artifact" THEN 0 ELSE k.expected + 1
      /\ t.target \in Targets \cup {"visual_ready", "failed", "needs_action"}
  BY <1>1, <1>2, TransitionIs
<1>a. PICK x : x = [k EXCEPT !.pc = "record"]
  OBVIOUS
<1>4. /\ x.pc = "record" /\ x.job = k.job /\ x.phase = k.phase /\ x.co = k.co /\ x.carried = k.carried
      /\ TargetOf(x) = TargetOf(k) /\ From(x) = From(k)
  BY <1>1, <1>a DEF Work, TargetOf, From
<1>5. x # Idle
  BY <1>4 DEF Idle
<1>6. coordinator' = coordinator /\ receipt' = receipt /\ evidence' = evidence
  BY DEF units
<1>7. /\ run'.state \in {TargetOf(k), "cancelled"}
      /\ k.job = "needs_action" => Held' \/ Cancelled'
      /\ Answers(x)' /\ FailsForCause'
  <2>1. CASE Cancelled
    <3>1. run' = run
      BY <1>2, <1>3, <2>1, CancelledStays
    <3>2. run'.state = "cancelled"
      BY <2>1, <3>1 DEF Cancelled
    <3>3. QED
      BY <3>2 DEF Cancelled, Answers, FailsForCause
  <2>2. CASE ~ Cancelled /\ IsReplay(t)
    <3>1. run' = run /\ run.event.key = t.key /\ run.event.at = t.at /\ k.expected = run.revision
      BY <1>1, <1>2, <2>2 DEF TransitionSucceeds, IsReplay, EventOf, KnowsOK, Knows
    <3>2. k.job = "artifact"
      BY <1>1, <1>3, <3>1
    <3>3. run.state = Stage(k.phase)
      BY <1>3, <3>1, <3>2 DEF IInv, Ledgers, RunOK
    <3>4. run'.state = TargetOf(k) /\ run'.state \in Targets
      BY <3>1, <3>2, <3>3, StagesAreStates DEF TargetOf
    <3>5. QED
      BY <1>4, <3>2, <3>4 DEF Answers, FailsForCause, Targets
  <2>3. CASE ~ Cancelled /\ ~ IsReplay(t)
    <3>1. run'.state = t.target /\ run'.code = IF t.target \in ExceptionalStates THEN t.code ELSE "none"
      BY <1>2, <2>3, RowIs
    <3>2. k.job = "needs_action" => Held'
      BY <1>3, <3>1 DEF Held, TargetOf, Code, ExceptionalStates
    <3>3. k.job = "failed" => Blamed'
      BY <1>1, <1>6, <2>3 DEF KnowsOK, Answers, Writing, Blamed
    <3>4. t.target = "failed" => k.job = "failed"
      BY <1>1, <1>3, StagesAreStates DEF TargetOf, Targets
    <3>5. QED
      BY <1>3, <1>4, <3>1, <3>2, <3>3, <3>4 DEF Answers, FailsForCause, Blamed
  <2>4. QED
    BY <2>1, <2>2, <2>3
<1>8. Knows(x)'
  <2>1. From(x)' = From(x) /\ TargetOf(x)' = TargetOf(x)
    BY DEF From, TargetOf
  <2>2. QED
    BY <1>1, <1>4, <1>6, <1>7, <2>1 DEF KnowsOK, Knows, Writing, Resuming
<1>9. QED
  BY <1>1, <1>a, <1>5, <1>7, <1>8, CleanStep DEF KnowsOK

LEMMA WriteProjectionClean ==
  ASSUME IInv, HoldInv, ReachedOK, Clean, NEW w \in Workers, WriteProjection(w)
  PROVE  Clean'
<1>1. worker[w].pc = "write" /\ UNCHANGED <<coordinator, units, faults>>
  BY DEF WriteProjection
<1>2. CASE TransitionSucceeds(TransitionOf(w)) /\ Become(w, [worker[w] EXCEPT !.pc = "record"])
  BY <1>1, <1>2, WriteSucceedsClean
<1>3. CASE TransitionFails(TransitionOf(w)) /\ WriteFails(w, "unknown")
  BY <1>1, <1>3, WriteFailsClean DEF TransitionFails, stores
<1>4. QED
  BY <1>2, <1>3 DEF WriteProjection

-----------------------------------------------------------------------------
(* The write to the Coordinator: the only execution is never refused.      *)

\* What an execution knows of the place it goes to, once a step is done.
LEMMA ArrivesKnowing ==
  ASSUME NEW k, k.pc \in {"ledger", "planned", "slots", "exact", "qa", "call"},
         k.carried \in Units => evidence'[k.carried] = "known",
         run'.state \in {coordinator'.state, "cancelled"}, coordinator'.state \in Targets,
         k.pc \in {"slots", "qa", "exact"} => coordinator'.state = "visual_generating",
         k.pc = "call" => k.job = "artifact" /\ receipt'[k.phase] = 0 /\ coordinator'.state = Stage(k.phase)
  PROVE  KnowsOK(k)' /\ k # Idle
<1>1. From(k)' = From(k) /\ (k.pc = "call" => coordinator'.state \in From(k))
  BY DEF From
<1>2. QED
  BY <1>1 DEF KnowsOK, Knows, Answers, Writing, Resuming, Idle

LEMMA RecordKnows ==
  ASSUME IInv, Clean, NEW w \in Workers, worker[w].pc = "record"
  PROVE  /\ worker[w] \in Work /\ KnowsOK(worker[w]) /\ WritingOK(worker[w]) /\ \A v \in Workers \ {w} : worker[v] = Idle
         /\ worker[w].job \in Jobs \ {"none"} /\ coordinator.state \in From(worker[w])
         /\ worker[w].co.state = coordinator.state /\ worker[w].co.revision = coordinator.revision
         /\ coordinator.revision \in Nat /\ coordinator.revision >= 1 /\ Target(w) = TargetOf(worker[w])
         /\ worker[w].job = "artifact" =>
              /\ worker[w].phase \in Units /\ receipt[worker[w].phase] = 0
              /\ coordinator.state = Stage(worker[w].phase) /\ TargetOf(worker[w]) = Stage(worker[w].phase)
              /\ NextRevision(w) = coordinator.revision
         /\ worker[w].job # "artifact" => NextRevision(w) = coordinator.revision + 1 /\ TargetOf(worker[w]) = worker[w].job
<1>1. /\ worker[w] \in Work /\ PlaceOK(worker[w]) /\ KnowsOK(worker[w]) /\ \A v \in Workers \ {w} : worker[v] = Idle
  BY OnlyOne
<1>2. WritingOK(worker[w]) /\ worker[w].job \in Jobs \ {"none"}
  BY <1>1 DEF PlaceOK, Writing, WritingOK, Work
<1>3. /\ worker[w].co = [state |-> coordinator.state, revision |-> coordinator.revision]
      /\ coordinator.state \in From(worker[w])
      /\ worker[w].job = "artifact" => receipt[worker[w].phase] = 0
  BY <1>1 DEF KnowsOK, Knows, Writing
<1>4. worker[w].co.state = coordinator.state /\ worker[w].co.revision = coordinator.revision
  BY <1>3
<1>5. coordinator.revision \in Nat /\ coordinator.revision >= 1
  BY DEF IInv, Ledgers, StoresTyped, CoordinatorOK
<1>6. Target(w) = TargetOf(worker[w])
  BY DEF Target, TargetOf
<1>7. CASE worker[w].job = "artifact"
  <2>1. coordinator.state = Stage(worker[w].phase) /\ Target(w) = Stage(worker[w].phase)
    BY <1>3, <1>7 DEF From, Target
  <2>2. QED
    BY <1>1, <1>2, <1>3, <1>4, <1>5, <1>6, <1>7, <2>1 DEF NextRevision, WritingOK
<1>8. CASE worker[w].job # "artifact"
  BY <1>1, <1>2, <1>3, <1>4, <1>5, <1>6, <1>8 DEF NextRevision, TargetOf
<1>9. QED
  BY <1>7, <1>8

LEMMA RecordTaken ==
  ASSUME IInv, Clean, NEW w \in Workers, worker[w].pc = "record"
  PROVE  Recordable(w)
<1>1. CASE worker[w].job = "artifact"
  BY <1>1, RecordKnows DEF Recordable, ReceiptAccepted
<1>2. CASE worker[w].job # "artifact"
  <2>1. /\ worker[w].job \in Jobs \ {"none"} /\ coordinator.state \in From(worker[w]) /\ Target(w) = worker[w].job
        /\ NextRevision(w) = coordinator.revision + 1 /\ coordinator.revision \in Nat
    BY <1>2, RecordKnows
  <2>2. worker[w].job \in WAVE2B_TRANSITIONS(coordinator.state)
    BY <1>2, <2>1 DEF From, Jobs, Targets, WAVE2B_TRANSITIONS
  <2>3. StateAccepted(Target(w), NextRevision(w))
    BY <2>1, <2>2 DEF StateAccepted
  <2>4. QED
    BY <1>2, <2>3 DEF Recordable
<1>3. QED
  BY <1>1, <1>2

LEMMA RecordFailsClean ==
  ASSUME IInv, Clean, NEW w \in Workers, RecordFails(w), OnlyAnswersLost'
  PROVE  Clean'
<1>1. Recordable(w)
  BY RecordTaken DEF RecordFails
<1>2. Strikes("reply")
  BY <1>1 DEF RecordFails
<1>3. FALSE
  BY <1>2, NothingLost DEF Strikes, FaultKinds, IInv
<1>4. QED
  BY <1>3

\* What the two ledgers say once the Coordinator followed.
LEMMA RecordedKnows ==
  ASSUME IInv, Clean, NEW w \in Workers, worker[w].pc = "record", Recorded(w), UNCHANGED <<run, log, evidence>>
  PROVE  /\ coordinator'.state = TargetOf(worker[w]) /\ Parted'
         /\ worker[w].job \notin {"failed"} => run'.state \in {coordinator'.state, "cancelled"}
         /\ receipt' = IF worker[w].job = "artifact" THEN [receipt EXCEPT ![worker[w].phase] = coordinator.revision] ELSE receipt
<1> DEFINE k == worker[w]
<1>1. coordinator'.state = TargetOf(k)
      /\ receipt' = IF k.job = "artifact" THEN [receipt EXCEPT ![k.phase] = coordinator.revision] ELSE receipt
  <2>1. CASE k.job = "artifact"
    <3>1. RecordReceipt(k.phase, coordinator.revision) /\ coordinator.state = Stage(k.phase)
          /\ receipt[k.phase] = 0 /\ coordinator.revision >= 1 /\ TargetOf(k) = Stage(k.phase)
      BY <2>1, RecordKnows DEF Recorded
    <3>2. receipt[k.phase] # coordinator.revision
      BY <3>1
    <3>3. QED
      BY <2>1, <3>1, <3>2 DEF RecordReceipt
  <2>2. CASE k.job # "artifact"
    <3>1. /\ RecordState(k.job, coordinator.revision + 1, Code(k.job), KeyOf(w)) /\ UNCHANGED receipt
          /\ coordinator.revision \in Nat /\ TargetOf(k) = k.job
      BY <2>2, RecordKnows DEF Recorded
    <3>2. ~ StateReplayed(k.job, coordinator.revision + 1, KeyOf(w))
      BY <3>1 DEF StateReplayed
    <3>3. coordinator' = Derived(k.job, coordinator.revision + 1, Code(k.job), KeyOf(w))
      BY <3>1, <3>2 DEF RecordState
    <3>4. QED
      BY <2>2, <3>1, <3>3 DEF Derived
  <2>3. QED
    BY <2>1, <2>2
<1>2. run.state \in {TargetOf(k), "cancelled"} \/ (k.job = "failed" /\ run.state = "retrying")
  BY RecordKnows DEF KnowsOK, Knows
<1>3. k.job = "failed" => TargetOf(k) = "failed"
  BY DEF TargetOf
<1>4. QED
  BY <1>1, <1>2, <1>3 DEF Parted

LEMMA RecordSucceedsClean ==
  ASSUME IInv, Clean, NEW w \in Workers, RecordSucceeds(w)
  PROVE  Clean'
<1> DEFINE k == worker[w]
<1>1. k.pc = "record" /\ Recorded(w) /\ Continues(w) /\ UNCHANGED <<run, log, evidence, faults>>
  BY DEF RecordSucceeds
<1>2. /\ k \in Work /\ KnowsOK(k) /\ \A v \in Workers \ {w} : worker[v] = Idle
      /\ k.job \in Jobs \ {"none"} /\ (k.job = "artifact" => k.phase \in Units /\ receipt[k.phase] = 0)
  BY <1>1, RecordKnows
<1>3. /\ coordinator'.state = TargetOf(k) /\ Parted'
      /\ k.job \notin {"failed"} => run'.state \in {coordinator'.state, "cancelled"}
      /\ receipt' = IF k.job = "artifact" THEN [receipt EXCEPT ![k.phase] = coordinator.revision] ELSE receipt
  BY <1>1, RecordedKnows
<1>4. k.carried \in Units => evidence'[k.carried] = "known"
  BY <1>1, <1>2 DEF KnowsOK, Knows
<1>5. FailsForCause'
  BY <1>1 DEF Clean, FailsForCause
<1>6. \E x : Become(w, x) /\ (x # Idle => KnowsOK(x)')
  <2>1. CASE k.job = "visual_planning" /\ Goes(w, "ledger")
    <3>1. PICK x : x = Worker("ledger", "none", 0, {}, k.carried)
      OBVIOUS
    <3>2. x.pc = "ledger" /\ x.carried = k.carried /\ Become(w, x)
      BY <2>1, <3>1 DEF Worker, Goes
    <3>3. coordinator'.state = "visual_planning"
      BY <1>3, <2>1 DEF TargetOf
    <3>4. KnowsOK(x)'
      BY <1>3, <1>4, <2>1, <3>2, <3>3, ArrivesKnowing DEF Targets
    <3>5. QED
      BY <3>2, <3>4
  <2>2. CASE k.job = "visual_generating" /\ Goes(w, "slots")
    <3>1. PICK x : x = Worker("slots", "none", 0, {}, k.carried)
      OBVIOUS
    <3>2. x.pc = "slots" /\ x.carried = k.carried /\ Become(w, x)
      BY <2>2, <3>1 DEF Worker, Goes
    <3>3. coordinator'.state = "visual_generating"
      BY <1>3, <2>2 DEF TargetOf
    <3>4. KnowsOK(x)'
      BY <1>3, <1>4, <2>2, <3>2, <3>3, ArrivesKnowing DEF Targets
    <3>5. QED
      BY <3>2, <3>4
  <2>3. CASE k.job = "artifact" /\ k.phase = 12 /\ Goes(w, "planned")
    <3>1. PICK x : x = Worker("planned", "none", 0, {}, k.carried)
      OBVIOUS
    <3>2. x.pc = "planned" /\ x.carried = k.carried /\ Become(w, x)
      BY <2>3, <3>1 DEF Worker, Goes
    <3>3. coordinator'.state = "visual_planning"
      BY <1>3, <2>3 DEF TargetOf, Stage
    <3>4. KnowsOK(x)'
      BY <1>3, <1>4, <2>3, <3>2, <3>3, ArrivesKnowing DEF Targets
    <3>5. QED
      BY <3>2, <3>4
  <2>4. CASE k.job = "artifact" /\ k.phase = 20 /\ Become(w, Worker("exact", "none", 20, k.seen, 0))
    <3>1. PICK x : x = Worker("exact", "none", 20, k.seen, 0)
      OBVIOUS
    <3>2. x.pc = "exact" /\ x.carried = 0 /\ Become(w, x) /\ 0 \notin Units
      BY <2>4, <3>1, UnitsAre DEF Worker
    <3>3. coordinator'.state = "visual_generating"
      BY <1>3, <2>4 DEF TargetOf, Stage
    <3>4. KnowsOK(x)'
      BY <1>3, <2>4, <3>2, <3>3, ArrivesKnowing DEF Targets
    <3>5. QED
      BY <3>2, <3>4
  <2>5. CASE k.job = "artifact" /\ k.phase \notin {12, 20} /\ NextUnit(w, k.phase, k.seen)
    <3>1. k.phase \in 15..19 /\ k.seen \in SUBSET Units
      <4>1. k.phase \in Units /\ k.phase \in 12..20 /\ (k.phase = 12 \/ k.phase >= 15)
        BY <1>2, <2>5, UnitsAre
      <4>2. k.phase \in 15..19
        BY <2>5, <4>1
      <4>3. k.seen \in SUBSET Units
        BY <1>2 DEF Work
      <4>4. QED
        BY <4>2, <4>3
    <3> DEFINE S == {v \in Units : v > k.phase /\ (v \notin k.seen \/ v = 20)}
    <3>2. PICK u : u = Min(S)
      OBVIOUS
    <3>3. u \in Units /\ u > k.phase
      <4>1. 20 \in S /\ S \subseteq Units
        BY <3>1, UnitsAre
      <4>2. u \in S
        BY <3>2, <4>1, LeastUnit
      <4>3. QED
        BY <4>2
    <3>4. u # 12 /\ Stage(u) = "visual_generating" /\ coordinator'.state = "visual_generating"
      <4>1. u # 12
        BY <3>1, <3>3
      <4>2. QED
        BY <1>3, <2>5, <4>1 DEF TargetOf, Stage
    <3>5. receipt'[u] = 0
      <4>1. receipt \in [Units -> Nat] /\ CoordinatorFollows
        BY DEF IInv, Ledgers, StoresTyped
      <4>2. k.phase \notin Receipts /\ k.phase \in Units
        BY <1>2, <2>5 DEF Receipts
      <4>3. k.phase < u /\ u # k.phase
        BY <3>1, <3>3
      <4>4. u \notin Receipts
        BY <4>1, <4>2, <4>3 DEF CoordinatorFollows
      <4>5. receipt'[u] = receipt[u]
        BY <1>3, <2>5, <3>3, <4>1, <4>3
      <4>6. QED
        BY <3>3, <4>4, <4>5 DEF Receipts
    <3>6. PICK x : x = Worker(IF u = 20 THEN "qa" ELSE "call", "artifact", u, k.seen, k.carried)
      OBVIOUS
    <3>7. x.pc = (IF u = 20 THEN "qa" ELSE "call") /\ x.job = "artifact" /\ x.phase = u /\ x.carried = k.carried
      BY <3>6 DEF Worker
    <3>8. Become(w, x)
      BY <2>5, <3>2, <3>6 DEF NextUnit
    <3> HIDE DEF S
    <3>9. KnowsOK(x)'
      BY <1>3, <1>4, <2>5, <3>4, <3>5, <3>7, ArrivesKnowing DEF Targets
    <3>10. QED
      BY <3>8, <3>9
  <2>6. CASE Become(w, Idle)
    BY <2>6
  <2>7. QED
    BY <1>1, <1>2, <2>1, <2>2, <2>3, <2>4, <2>5, <2>6 DEF Continues
<1>7. PICK x : Become(w, x) /\ (x # Idle => KnowsOK(x)')
  BY <1>6
<1>8. QED
  BY <1>2, <1>3, <1>5, <1>7, CleanStep

-----------------------------------------------------------------------------
(* The way out of a hold, and the theorem.                                 *)

\* An execution on its way out of a hold.
LEMMA ResumesKnowing ==
  ASSUME NEW k, k.pc \in Resuming, k.job \in Targets, k.carried \in Units => evidence'[k.carried] = "known",
         k.co.revision = coordinator'.revision, coordinator'.state = "needs_action",
         k.pc = "repair" => run'.state \in {k.job, "cancelled"},
         k.pc # "repair" => run'.state \in {"needs_action", "retrying", "cancelled"}
  PROVE  KnowsOK(k)' /\ k # Idle
BY DEF KnowsOK, Knows, Answers, Writing, Resuming, Idle

LEMMA ReenterClean ==
  ASSUME IInv, Clean, NEW w \in Workers, ReenterHold(w), OnlyAnswersLost'
  PROVE  Clean'
<1> DEFINE u == Pending(coordinator.last)
<1>1. /\ UNCHANGED <<stores, units>> /\ ~ Cancelled /\ Resumable(coordinator) /\ Starts(w) /\ worker[w].pc = "idle"
      /\ faults \in FaultCounts
  BY DEF ReenterHold, IInv
<1>2. \A v \in Workers : worker[v] = Idle
  <2>1. ~ Fault("overlap")
    BY <1>1, NothingLost DEF FaultKinds
  <2>2. \A v \in Workers : worker[v].pc = "idle"
    BY <1>1, <2>1 DEF Starts
  <2>3. QED
    BY <2>2, AtIdle DEF IInv
<1>3. coordinator.state = "needs_action" /\ coordinator.last \in Targets /\ run.state \in {"needs_action", "retrying"}
  BY <1>1, <1>2 DEF Clean, Parted, Cancelled, Resumable, Targets
<1>4. PICK x : x = [Worker("resuming", coordinator.last, 0, {}, IF u # 20 /\ evidence[u] = "known" THEN u ELSE 0)
                      EXCEPT !.co = [state |-> coordinator.state, revision |-> coordinator.revision]]
  OBVIOUS
<1>5. Become(w, x)
  BY <1>4 DEF ReenterHold
<1>6. /\ x.pc = "resuming" /\ x.job = coordinator.last /\ x.co.revision = coordinator.revision
      /\ x.carried = IF u # 20 /\ evidence[u] = "known" THEN u ELSE 0
  BY <1>4 DEF Worker
<1>7. x.carried \in Units => evidence[x.carried] = "known"
  BY <1>6, UnitsAre
<1>8. x # Idle
  BY <1>6 DEF Idle
<1>9. KnowsOK(x)
  <2> HIDE DEF u
  <2>1. QED
    BY <1>3, <1>6, <1>7 DEF KnowsOK, Knows, Answers, Writing, Resuming
<1>10. QED
  BY <1>1, <1>2, <1>5, <1>8, <1>9, LocalClean

\* A resumption goes on about a row it knows.
LEMMA ResumeWithClean ==
  ASSUME IInv, Clean, NEW w \in Workers, worker[w].pc \in Resuming \ {"repair"}, UNCHANGED <<coordinator, units>>,
         NEW marked \in BOOLEAN, NEW row, row = run', ResumeWith(w, row, marked),
         \/ row.state \in {"needs_action", "retrying", "cancelled"}
         \/ row.state = worker[w].job /\ row.event.key = <<"resumed", worker[w].job, 0>>
  PROVE  Clean'
<1> DEFINE k == worker[w]
           step == ResumeStep(row, k.job, marked)
<1>1. /\ k \in Work /\ PlaceOK(k) /\ KnowsOK(k) /\ \A v \in Workers \ {w} : worker[v] = Idle
  BY OnlyOne DEF Resuming
<1>2. /\ k.job \in Targets /\ k.co.revision = coordinator.revision /\ coordinator.state = "needs_action"
      /\ k.carried \in Units => evidence[k.carried] = "known"
  BY <1>1 DEF PlaceOK, KnowsOK, Knows
<1>3. coordinator' = coordinator /\ evidence' = evidence
  BY DEF units
<1>4. /\ step = "repair" => row.state = k.job
      /\ step # "repair" => row.state \in {"needs_action", "retrying", "cancelled"}
      /\ step \in {"mark", "requeue", "return", "repair", "idle"}
  <2>1. k.job \notin {"needs_action", "retrying", "cancelled"}
    BY <1>2 DEF Targets
  <2>2. QED
    BY <2>1 DEF ResumeStep
<1>5. FailsForCause'
  BY <1>2 DEF FailsForCause, Targets
<1> HIDE DEF step
<1>6. CASE step = "idle"
  <2>1. Become(w, Idle)
    BY <1>6 DEF ResumeWith, step
  <2>2. Parted'
    BY <1>2, <1>3, <1>4, <1>6 DEF Parted
  <2>3. QED
    BY <1>1, <1>5, <2>1, <2>2, CleanStep
<1>7. CASE step # "idle"
  <2>1. PICK x : x = [k EXCEPT !.pc = step, !.expected = row.revision]
    OBVIOUS
  <2>2. Become(w, x)
    BY <1>7, <2>1 DEF ResumeWith, step
  <2>3. x.pc = step /\ x.job = k.job /\ x.co = k.co /\ x.carried = k.carried
    BY <1>1, <2>1 DEF Work
  <2>4. KnowsOK(x)' /\ x # Idle
    BY <1>2, <1>3, <1>4, <1>7, <2>3, ResumesKnowing DEF Resuming
  <2>5. QED
    BY <1>1, <1>5, <2>2, <2>4, CleanStep
<1>8. QED
  BY <1>6, <1>7

LEMMA ReadHoldClean ==
  ASSUME IInv, Clean, NEW w \in Workers, ReadHold(w)
  PROVE  Clean'
<1>1. worker[w].pc = "resuming" /\ ResumeWith(w, run, FALSE) /\ UNCHANGED <<stores, units>>
  BY DEF ReadHold
<1>2. run.state \in {"needs_action", "retrying", "cancelled"}
  BY <1>1, OnlyOne DEF KnowsOK, Knows, Resuming
<1>3. PICK row : row = run
  OBVIOUS
<1>4. row = run' /\ UNCHANGED <<coordinator, units>> /\ ResumeWith(w, row, FALSE) /\ row.state = run.state
  BY <1>1, <1>3 DEF stores
<1>5. QED
  BY <1>1, <1>2, <1>4, ResumeWithClean DEF Resuming

LEMMA ResumeProjectionClean ==
  ASSUME IInv, Clean, NEW w \in Workers, ResumeProjection(w)
  PROVE  Clean'
<1> DEFINE k == worker[w]
<1>1. k.pc \in {"mark", "requeue", "return"} /\ UNCHANGED <<coordinator, units>>
  BY DEF ResumeProjection
<1>2. /\ PlaceOK(k) /\ KnowsOK(k) /\ \A v \in Workers \ {w} : worker[v] = Idle
  BY <1>1, OnlyOne
<1>3. /\ k.job \in Targets /\ coordinator.state = "needs_action" /\ run.state \in {"needs_action", "retrying", "cancelled"}
  BY <1>1, <1>2 DEF PlaceOK, KnowsOK, Knows, Resuming
<1>4. CASE TransitionSucceeds(ResumeTransition(w)) /\ ResumeWith(w, run', TRUE)
  <2>1. PICK t : t = ResumeTransition(w)
    OBVIOUS
  <2>2. /\ t.target \in {"needs_action", "retrying"} \/ (t.target = k.job /\ t.key = <<"resumed", k.job, 0>>)
        /\ t.target \in Targets \cup {"visual_ready", "failed", "needs_action", "retrying"}
    BY <1>1, <1>3, <2>1 DEF ResumeTransition
  <2>3. PICK row : row = run'
    OBVIOUS
  <2>4. \/ row.state \in {"needs_action", "retrying", "cancelled"}
        \/ row.state = k.job /\ row.event.key = <<"resumed", k.job, 0>>
    <3>1. CASE IsReplay(t)
      BY <1>3, <1>4, <2>1, <2>3, <3>1 DEF TransitionSucceeds
    <3>2. CASE ~ IsReplay(t)
      <4>1. run'.state = t.target /\ run'.event.key = t.key
        BY <1>4, <2>1, <3>2, RowIs
      <4>2. QED
        BY <2>2, <2>3, <4>1
    <3>3. QED
      BY <3>1, <3>2
  <2>5. ResumeWith(w, row, TRUE)
    BY <1>4, <2>3
  <2>6. QED
    BY <1>1, <2>3, <2>4, <2>5, ResumeWithClean DEF Resuming
<1>5. CASE TransitionFails(ResumeTransition(w)) /\ Become(w, Idle)
  <2>1. UNCHANGED <<stores, units>>
    BY <1>1, <1>5 DEF TransitionFails, stores
  <2>2. Parted
    BY <1>3 DEF Parted
  <2>3. QED
    BY <1>2, <1>5, <2>1, <2>2, LocalClean
<1>6. QED
  BY <1>4, <1>5 DEF ResumeProjection

LEMMA RepairClean ==
  ASSUME IInv, Clean, NEW w \in Workers, RepairCoordinator(w), OnlyAnswersLost'
  PROVE  Clean'
<1> DEFINE k == worker[w]
           revision == k.co.revision + 1
           key == <<"resumed", k.job, 0>>
<1>1. k.pc = "repair" /\ UNCHANGED <<run, log, units>> /\ faults \in FaultCounts
  BY DEF RepairCoordinator, IInv
<1>2. /\ k \in Work /\ PlaceOK(k) /\ KnowsOK(k) /\ \A v \in Workers \ {w} : worker[v] = Idle
  BY <1>1, OnlyOne
<1>3. /\ k.job \in Targets /\ coordinator.state = "needs_action" /\ run.state \in {k.job, "cancelled"}
      /\ k.co.revision = coordinator.revision /\ coordinator.revision \in Nat
      /\ k.carried \in Units => evidence[k.carried] = "known"
  BY <1>1, <1>2 DEF PlaceOK, KnowsOK, Knows, Resuming, IInv, Ledgers, StoresTyped
<1>4. ~ Strikes("reply")
  BY <1>1, NothingLost DEF Strikes, FaultKinds
<1>5. StateAccepted(k.job, revision) /\ ~ StateReplayed(k.job, revision, key)
  BY <1>3 DEF StateAccepted, StateReplayed, WAVE2B_TRANSITIONS, Targets
<1>6. RecordState(k.job, revision, "none", key) /\ Goes(w, "ledger")
  BY <1>4, <1>5 DEF RepairCoordinator
<1>7. coordinator' = Derived(k.job, revision, "none", key)
  BY <1>5, <1>6 DEF RecordState
<1>8. coordinator'.state = k.job
  BY <1>7 DEF Derived
<1>9. PICK x : x = Worker("ledger", "none", 0, {}, k.carried)
  OBVIOUS
<1>10. x.pc = "ledger" /\ x.carried = k.carried /\ Become(w, x)
  BY <1>6, <1>9 DEF Worker, Goes
<1>11. run' = run /\ evidence' = evidence
  BY <1>1 DEF units
<1>12. KnowsOK(x)' /\ x # Idle
  BY <1>3, <1>8, <1>10, <1>11, ArrivesKnowing
<1>13. FailsForCause'
  BY <1>11 DEF Clean, FailsForCause
<1>14. QED
  BY <1>2, <1>10, <1>12, <1>13, CleanStep

\* The event of a forward state is written together with the state.
LEMMA ReachedKept ==
  ASSUME IInv, ReachedOK, [Next]_vars
  PROVE  ReachedOK'
<1>1. /\ publicationProgress(run.last) <= publicationProgress(run'.last) /\ \A s : publicationProgress(s) \in Nat
  BY NextInv, ProgressIsNumber DEF Grows
<1>2. CASE log' = log
  BY <1>1, <1>2 DEF ReachedOK
<1>3. ASSUME NEW t, TransitionSucceeds(t), t.key[1] \in Forward \ {"artifact"} => t.target = t.key[1] PROVE ReachedOK'
  <2>1. CASE IsReplay(t)
    BY <1>2, <1>3, <2>1 DEF TransitionSucceeds
  <2>2. CASE ~ IsReplay(t)
    <3>1. log' = log \cup {t.key} /\ run' = Projected(t.target, t.code, EventOf(t))
      BY <1>3, <2>2 DEF TransitionSucceeds
    <3>2. t.key[1] \in Forward \ {"artifact"} => run'.last = t.key[1]
      BY <1>3, <3>1 DEF Projected, Forward, SUCCESSFUL_STATES
    <3>3. ASSUME NEW key \in log', key[1] \in Forward \ {"artifact"}
          PROVE  publicationProgress(key[1]) <= publicationProgress(run'.last)
      <4>1. CASE key = t.key
        <5>1. run'.last = key[1]
          BY <3>2, <3>3, <4>1
        <5>2. QED
          BY <1>1, <5>1
      <4>2. CASE key \in log
        <5>1. publicationProgress(key[1]) <= publicationProgress(run.last)
          BY <3>3, <4>2 DEF ReachedOK
        <5>2. QED
          BY <1>1, <5>1
      <4>3. QED
        BY <3>1, <3>3, <4>1, <4>2
    <3>4. QED
      BY <3>3 DEF ReachedOK
  <2>3. QED
    BY <2>1, <2>2
<1>4. ASSUME NEW w \in Workers, WriteProjection(w) PROVE ReachedOK'
  <2>1. worker[w] \in Work /\ WritingOK(worker[w])
    BY <1>4, AtWork DEF WriteProjection, PlaceOK, Writing
  <2>2. PICK t : t = TransitionOf(w)
    OBVIOUS
  <2>3. t.key[1] \in Forward \ {"artifact"} => t.target = t.key[1]
    BY <2>1, <2>2, TransitionIs DEF TargetOf
  <2>4. CASE TransitionSucceeds(t)
    BY <1>3, <2>3, <2>4
  <2>5. CASE TransitionFails(t)
    BY <1>2, <2>5 DEF TransitionFails
  <2>6. QED
    BY <1>4, <2>2, <2>4, <2>5 DEF WriteProjection
<1>5. ASSUME NEW w \in Workers, ResumeProjection(w) PROVE ReachedOK'
  <2>1. PICK t : t = ResumeTransition(w)
    OBVIOUS
  <2>2. t.key[1] \notin Forward
    BY <2>1 DEF ResumeTransition, Forward
  <2>3. CASE TransitionSucceeds(t)
    BY <1>3, <2>2, <2>3
  <2>4. CASE TransitionFails(t)
    BY <1>2, <2>4 DEF TransitionFails
  <2>5. QED
    BY <1>5, <2>1, <2>3, <2>4 DEF ResumeProjection
<1>6. CASE UNCHANGED vars
  BY <1>2, <1>6 DEF vars, stores
<1>7. ASSUME NEW w \in Workers, WorkerNext(w) \/ Crash(w) PROVE log' = log \/ WriteProjection(w) \/ ResumeProjection(w)
  BY <1>7 DEF WorkerNext, stores, Enter, ReadLedger, ReadStage, ReadSlots, CallSucceeds, CallFails, CallUnknown, CheckQa,
     StopCancelled, ReadCoordinator, ReadProjection, RecordSucceeds, RecordFails, VerifySet,
     ReenterHold, ReadHold, RepairCoordinator, Crash
<1>8. ASSUME NEW u \in Units, EvidenceArrives(u) PROVE log' = log
  BY <1>8 DEF EvidenceArrives, stores
<1>9. ASSUME NEW action, UserActs(action) PROVE log' = log
  BY <1>9 DEF UserActs
<1>10. QED
  BY <1>2, <1>4, <1>5, <1>6, <1>7, <1>8, <1>9 DEF Next

LEMMA InitSettles == Init => SettlesInv
<1> SUFFICES ASSUME Init PROVE SettlesInv
  OBVIOUS
<1> DEFINE key == <<"content_frozen", 0, 0>>
<1>1. /\ run.state = "content_frozen" /\ log = {key} /\ coordinator.state = "content_frozen"
      /\ worker = [w \in Workers |-> Idle]
  BY DEF Init
<1>2. ReachedOK
  BY <1>1 DEF ReachedOK, Forward
<1>3. Clean
  BY <1>1 DEF Clean, Alone, FailsForCause, Parted
<1>4. QED
  BY <1>2, <1>3 DEF SettlesInv

LEMMA CleanNext ==
  ASSUME IInv, HoldInv, ReachedOK, Clean, [Next]_vars, OnlyAnswersLost'
  PROVE  Clean'
<1>1. CASE UNCHANGED vars
  <2>1. /\ worker' = worker /\ UNCHANGED <<stores, units>>
    BY <1>1 DEF vars
  <2>2. \A k \in Work : KnowsOK(k) => KnowsOK(k)'
    BY <2>1, KnowsStays
  <2>3. Parted' = Parted /\ FailsForCause' = FailsForCause
    BY <2>1 DEF stores, units, Parted, FailsForCause
  <2>4. QED
    BY <2>1, <2>2, <2>3, NobodyClean DEF Clean
<1>2. ASSUME NEW w \in Workers, WorkerNext(w) \/ Crash(w)
      PROVE  Clean'
  <2>1. CASE Enter(w) \/ ReadLedger(w) \/ ReadStage(w) \/ ReadSlots(w)
    BY <2>1, EnterClean, ReadLedgerClean, ReadStageClean, ReadSlotsClean
  <2>2. CASE CallSucceeds(w) \/ CallFails(w) \/ CallUnknown(w) \/ CheckQa(w) \/ StopCancelled(w)
    BY <2>2, CallSucceedsClean, CallFailsClean, CallUnknownClean, CheckQaClean, StopClean
  <2>3. CASE ReadCoordinator(w) \/ ReadProjection(w) \/ WriteProjection(w)
    BY <2>3, ReadCoordinatorClean, ReadProjectionClean, WriteProjectionClean
  <2>4. CASE RecordSucceeds(w) \/ RecordFails(w) \/ VerifySet(w)
    BY <2>4, RecordSucceedsClean, RecordFailsClean, VerifySetClean
  <2>5. CASE ReenterHold(w) \/ ReadHold(w) \/ ResumeProjection(w) \/ RepairCoordinator(w)
    BY <2>5, ReenterClean, ReadHoldClean, ResumeProjectionClean, RepairClean
  <2>6. CASE Crash(w)
    BY <2>6, NothingLost DEF Crash, FaultKinds, IInv
  <2>7. QED
    BY <1>2, <2>1, <2>2, <2>3, <2>4, <2>5, <2>6 DEF WorkerNext
<1>3. ASSUME NEW u \in Units, EvidenceArrives(u) PROVE Clean'
  BY <1>3, EvidenceClean
<1>4. ASSUME NEW action \in {"retry", "cancel"}, UserActs(action) PROVE Clean'
  BY <1>4, UserClean
<1>5. QED
  BY <1>1, <1>2, <1>3, <1>4 DEF Next

LEMMA NextSettles ==
  ASSUME IInv, HoldInv, SettlesInv, [Next]_vars
  PROVE  SettlesInv'
<1>1. ReachedOK'
  BY ReachedKept DEF SettlesInv
<1>2. OnlyAnswersLost' => Clean'
  BY CleanBefore, CleanNext DEF SettlesInv
<1>3. QED
  BY <1>1, <1>2 DEF SettlesInv

LEMMA SettlesIsEnough == IInv /\ SettlesInv => SettlesForCause
<1> SUFFICES ASSUME IInv, SettlesInv, OnlyAnswersLost PROVE FailsForCause /\ LedgersConverge
  BY DEF SettlesForCause
<1>1. Clean
  BY DEF SettlesInv
<1>2. ASSUME \A w \in Workers : worker[w].pc = "idle" PROVE run.state = coordinator.state \/ run.state \in {"retrying", "cancelled"}
  <2>1. \A w \in Workers : worker[w] = Idle
    BY <1>2, AtIdle DEF IInv
  <2>2. QED
    BY <1>1, <2>1 DEF Clean, Parted
<1>3. QED
  BY <1>1, <1>2 DEF Clean, LedgersConverge

\* As long as nothing but answers of the adapter is lost, wherever and however
\* often, and whatever the App asks for: no run fails without a call that failed,
\* and once nobody is at work both ledgers say how the phase ended, except for a
\* retry or a cancellation only D1 has learned of.
THEOREM SettlesCorrect == Spec => []SettlesForCause
<1>1. Init => IInv /\ HoldInv /\ SettlesInv
  BY InitInv, InitHolds, InitSettles
<1>2. IInv /\ HoldInv /\ SettlesInv /\ [Next]_vars => HoldInv' /\ SettlesInv'
  BY NextHolds, NextSettles
<1>3. IInv /\ SettlesInv => SettlesForCause
  BY SettlesIsEnough
<1>4. QED
  BY <1>1, <1>2, <1>3, Invariance, PTL DEF Spec

=============================================================================
