------------------------------- MODULE RunStart -------------------------------
(***************************************************************************)
(* The start of a run: a mining job's handoff stores the transcript, calls *)
(* the start route and asks for proof. The route registers the run in D1   *)
(* and in the Coordinator, stores the brief and creates the Workflow; an   *)
(* answer that does not say what happened holds the run in the             *)
(* Coordinator's start ledger, then in D1, and a later start reconciles    *)
(* it. The Workflow waits for the confirmation of its own start.           *)
(* Requests overlap and die between any two steps.                         *)
(* miningV3Handoff.ts, fiveAgentPublishing.ts (handleFiveAgentPublishing-  *)
(* InternalRoute), editorialAgents.ts (the start ledger).                  *)
(***************************************************************************)
EXTENDS Integers, Sequences, FiniteSets

CONSTANTS
  Requests,   \* handoff requests that may be under way at once
  Texts,      \* what speech recognition may return for the one recording
  MaxFaults   \* bound: failed calls, lost answers and deaths, together

ASSUME RunStartOK == MaxFaults \in Nat /\ "none" \notin Texts /\ Texts # {}

VARIABLES
  transcripts,  \* canonical transcripts in R2 under the handoff's prefix
  d1,           \* publication_runs: state, and the keys of its start events
  ledger,       \* editorial_wave2b_start_ledger: status and start_status
  starts,       \* editorial_wave2b_workflow_starts.status
  evidence,     \* editorial_wave2b_start_events, in order
  receipts,     \* editorial_wave2b_start_receipts
  main,         \* editorial_wave2b_runs.state: queued or moved
  brief,        \* the brief: none, prepared, stored in R2, mirrored in D1
  wf,           \* the Workflow instance
  req,          \* req[r]: the request's position
  accepted,     \* history: some request was told "accepted"
  faults

coord == <<ledger, starts, evidence, receipts, main>>
vars == <<transcripts, d1, coord, brief, wf, req, accepted, faults>>

-----------------------------------------------------------------------------
Holds == {"brief", "create"}      \* brief_storage_unknown, workflow_create_unknown
EventTypes == {"required", "reconciled", "retrying", "queued"}
Idle == [pc |-> "idle", text |-> "none", hold |-> "none", after |-> "none", seen |-> <<>>, start |-> "none"]

At(r, pc) == req[r].pc = pc
Goto(r, pc) == req' = [req EXCEPT ![r].pc = pc]
Hold(r, h) == req' = [req EXCEPT ![r].pc = "holdLedger", ![r].hold = h]
\* The request is answered with anything but "accepted", or it throws.
End(r) == req' = [req EXCEPT ![r] = Idle]

Outcomes == {"done", "lost", "failed"}
Costs(o) == IF o = "done" THEN UNCHANGED faults ELSE faults < MaxFaults /\ faults' = faults + 1
Fault == faults < MaxFaults /\ faults' = faults + 1

Has(seq, e) == \E n \in DOMAIN seq : seq[n] = e
\* Appending under a key that is there already is a replay.
Added(seq, e) == IF Has(seq, e) THEN seq ELSE Append(seq, e)

Init ==
  /\ transcripts = {}
  /\ d1 = [state |-> "absent", log |-> <<>>]
  /\ ledger = [status |-> "absent", hold |-> "none"]
  /\ starts = "absent" /\ evidence = <<>> /\ receipts = {} /\ main = "absent"
  /\ brief = "none" /\ wf = "none"
  /\ req = [r \in Requests |-> Idle]
  /\ accepted = FALSE /\ faults = 0

-----------------------------------------------------------------------------
(* The handoff: one transcript per marker. *)

\* A mining job asks for the status first; without a transcript it recognises
\* the speech, which may give another text each time.
Begin(r) ==
  /\ At(r, "idle")
  /\ \E t \in IF transcripts = {} THEN Texts ELSE transcripts :
       req' = [req EXCEPT ![r].pc = "find", ![r].text = t]
  /\ UNCHANGED <<transcripts, d1, coord, brief, wf, accepted, faults>>

AskStatus(r) ==
  /\ At(r, "idle") /\ Cardinality(transcripts) = 1
  /\ Goto(r, "readD1")
  /\ UNCHANGED <<transcripts, d1, coord, brief, wf, accepted, faults>>

\* existingTranscript: none, the one, or a conflict.
FindTranscript(r) ==
  /\ At(r, "find")
  /\ CASE transcripts = {} -> Goto(r, "put")
       [] transcripts = {req[r].text} -> Goto(r, "register")
       [] OTHER -> End(r)
  /\ UNCHANGED <<transcripts, d1, coord, brief, wf, accepted, faults>>

\* Seeded fault: the list is not read again after the write.
NoReadback(r) == Goto(r, "register")

\* The write or its failure is followed by a read of the whole list.
Reread(r) == Goto(r, "reread")

PutTranscript(r) ==
  /\ At(r, "put")
  /\ \E o \in Outcomes :
       /\ Costs(o)
       /\ transcripts' = IF o = "failed" THEN transcripts ELSE transcripts \cup {req[r].text}
  /\ Reread(r)
  /\ UNCHANGED <<d1, coord, brief, wf, accepted>>

RereadTranscript(r) ==
  /\ At(r, "reread")
  /\ IF transcripts = {req[r].text} THEN Goto(r, "register") ELSE End(r)
  /\ UNCHANGED <<transcripts, d1, coord, brief, wf, accepted, faults>>

-----------------------------------------------------------------------------
(* The start route. *)

\* readTranscript, ensureCanonicalRun, createPublicationRun.
Register(r) ==
  /\ At(r, "register")
  /\ d1' = IF d1.state = "absent" THEN [d1 EXCEPT !.state = "queued"] ELSE d1
  /\ Goto(r, "startRun")
  /\ UNCHANGED <<transcripts, coord, brief, wf, accepted, faults>>

\* startFiveAgentRun(input, false), in one transaction.
StartRun(r) ==
  /\ At(r, "startRun")
  /\ IF ledger.status = "absent"
     THEN ledger' = [ledger EXCEPT !.status = "intent"] /\ starts' = "intent" /\ main' = "queued"
     ELSE UNCHANGED <<ledger, starts, main>>
  /\ Goto(r, "plan")
  /\ UNCHANGED <<transcripts, d1, evidence, receipts, brief, wf, accepted, faults>>

Plan(r) ==
  /\ At(r, "plan")
  /\ CASE ledger.status = "needs_action" /\ ledger.hold = "brief" -> Goto(r, "checkBrief")
       [] ledger.status = "needs_action" /\ ledger.hold = "create" -> Goto(r, "checkWorkflow")
       [] OTHER -> Goto(r, "storeBrief")
  /\ UNCHANGED <<transcripts, d1, coord, brief, wf, accepted, faults>>

Reconcile(r, h, after) ==
  req' = [req EXCEPT ![r].pc = "reconcile", ![r].hold = h, ![r].after = after]

\* Only a brief that can be read back resumes; it is never written again.
CheckBrief(r) ==
  /\ At(r, "checkBrief")
  /\ \/ brief \in {"stored", "mirrored"} /\ Reconcile(r, "brief", "lookup") /\ UNCHANGED faults
     \/ brief \notin {"stored", "mirrored"} /\ End(r) /\ UNCHANGED faults
     \/ Fault /\ End(r)
  /\ UNCHANGED <<transcripts, d1, coord, brief, wf, accepted>>

CheckWorkflow(r) ==
  /\ At(r, "checkWorkflow")
  /\ \/ Reconcile(r, "create", IF wf = "none" THEN "storeBrief" ELSE "lookup") /\ UNCHANGED faults
     \/ Fault /\ End(r)
  /\ UNCHANGED <<transcripts, d1, coord, brief, wf, accepted>>

\* prepareArtifactStorage: outbox, R2, mirror. A failure on the way holds.
StoreBrief(r) ==
  /\ At(r, "storeBrief")
  /\ \/ brief' = "mirrored" /\ Goto(r, "lookup") /\ UNCHANGED faults
     \/ /\ Fault /\ Hold(r, "brief")
        /\ brief' \in {brief} \cup (IF brief = "mirrored" THEN {} ELSE {"stored", "mirrored"})
                              \cup (IF brief = "none" THEN {"prepared"} ELSE {})
  /\ UNCHANGED <<transcripts, d1, coord, wf, accepted>>

-----------------------------------------------------------------------------
(* startFiveAgentWorkflow. *)

LookUp(r) ==
  /\ At(r, "lookup")
  /\ req' = [req EXCEPT ![r].pc = "decide", ![r].start = ledger]
  /\ UNCHANGED <<transcripts, d1, coord, brief, wf, accepted, faults>>

HeldLedger(h) ==
  /\ ledger' = [status |-> "needs_action", hold |-> h]
  /\ starts' = "unknown"
  /\ evidence' = Added(evidence, <<"required", h>>)
  /\ UNCHANGED <<receipts, main>>

\* recordFiveAgentStartHold: written, replayed, or a conflict that throws.
RecordHold(h) ==
  \/ ledger.status \in {"intent", "reconciled"} /\ HeldLedger(h)
  \/ ledger.status = "needs_action" /\ ledger.hold = h /\ UNCHANGED coord
HoldConflicts(h) ==
  /\ ledger.status \notin {"intent", "reconciled"}
  /\ ~ (ledger.status = "needs_action" /\ ledger.hold = h)
  /\ UNCHANGED coord

\* Seeded fault: a reconciled start is not taken up again.
MayCreateFresh(seen) == seen.status = "intent"

MayCreate(seen) == seen.status \in {"intent", "reconciled"} \/ seen.hold = "create"

\* Seeded fault: a lookup that fails counts as an instance that exists.
LookupTrusted(r) == Goto(r, "mark") /\ UNCHANGED coord

LookupUnknown(r) ==
  \/ RecordHold("create") /\ Hold(r, "create")
  \/ HoldConflicts("create") /\ End(r)

Decide(r) ==
  /\ At(r, "decide")
  /\ \/ Fault /\ LookupUnknown(r)
     \/ UNCHANGED <<faults, coord>> /\ wf # "none" /\ Goto(r, "mark")
     \/ /\ UNCHANGED <<faults, coord>> /\ wf = "none"
        /\ IF MayCreate(req[r].start) THEN Goto(r, "create") ELSE Hold(r, "create")
  /\ UNCHANGED <<transcripts, d1, brief, wf, accepted>>

\* runWorkflow with the run's own id: an instance that exists is an error.
Create(r) ==
  /\ At(r, "create")
  /\ \E o \in Outcomes :
       /\ Costs(o)
       /\ wf' = IF o # "failed" /\ wf = "none" THEN "created" ELSE wf
       /\ Goto(r, IF o = "done" /\ wf = "none" THEN "mark" ELSE "lookAgain")
  /\ UNCHANGED <<transcripts, d1, coord, brief, accepted>>

LookAgain(r) ==
  /\ At(r, "lookAgain")
  /\ \/ wf # "none" /\ Goto(r, "mark") /\ UNCHANGED <<starts, faults>>
     \/ wf = "none" /\ End(r) /\ UNCHANGED <<starts, faults>>
     \/ Fault /\ starts' = "unknown" /\ Hold(r, "create")
  /\ UNCHANGED <<transcripts, d1, ledger, evidence, receipts, main, brief, wf, accepted>>

Confirmed == <<"confirmed", "none">>

\* markFiveAgentWorkflowStarted, in one transaction.
MarkStarted(r) ==
  /\ At(r, "mark")
  /\ IF Has(evidence, Confirmed) /\ ledger.status = "started" THEN UNCHANGED <<ledger, starts, evidence>>
     ELSE /\ evidence' = Added(evidence, Confirmed)
          /\ starts' = "started" /\ ledger' = [status |-> "started", hold |-> "none"]
  /\ Goto(r, "readD1")
  /\ UNCHANGED <<transcripts, d1, receipts, main, brief, wf, accepted, faults>>

-----------------------------------------------------------------------------
(* Holding a start: first the ledger, then D1. *)

HoldLedger(r) ==
  /\ At(r, "holdLedger")
  /\ \/ RecordHold(req[r].hold) /\ Goto(r, "holdRead")
     \/ HoldConflicts(req[r].hold) /\ End(r)
  /\ UNCHANGED <<transcripts, d1, brief, wf, accepted, faults>>

\* After the hold the create answer goes back to the handoff, which asks for
\* proof; the brief answer ends the request unless the hold is over already.
AfterHold(h) == IF h = "create" THEN "readD1" ELSE "afterBriefHold"

ReadForHold(r) ==
  /\ At(r, "holdRead")
  /\ CASE d1.state = "needs_action" -> Goto(r, AfterHold(req[r].hold))
       [] d1.state = "queued" -> req' = [req EXCEPT ![r].pc = "holdWrite", ![r].seen = d1.log]
       [] OTHER -> End(r)
  /\ UNCHANGED <<transcripts, d1, coord, brief, wf, accepted, faults>>

\* applySystemPublicationTransition: the same event again is a replay, an
\* older revision or a key in use a conflict.
Written(r, state, e) ==
  /\ d1.log = req[r].seen /\ d1.state # "moved" /\ ~ Has(d1.log, e)
  /\ d1' = [state |-> state, log |-> Append(d1.log, e)]
IsReplay(e) == d1.state # "moved" /\ d1.log # <<>> /\ d1.log[Len(d1.log)] = e
Replayed(e) == IsReplay(e) /\ UNCHANGED d1
Conflicts(r, e) ==
  /\ ~ IsReplay(e) /\ (d1.log # req[r].seen \/ d1.state = "moved" \/ Has(d1.log, e))
  /\ UNCHANGED d1

HoldPublication(r) ==
  LET e == <<"required", req[r].hold>> IN
  /\ At(r, "holdWrite")
  /\ \/ (Written(r, "needs_action", e) \/ Replayed(e)) /\ Goto(r, AfterHold(req[r].hold))
     \/ Conflicts(r, e) /\ End(r)
  /\ UNCHANGED <<transcripts, coord, brief, wf, accepted, faults>>

AfterBriefHold(r) ==
  /\ At(r, "afterBriefHold")
  /\ IF ledger.status = "needs_action" THEN End(r) ELSE Goto(r, "lookup")
  /\ UNCHANGED <<transcripts, d1, coord, brief, wf, accepted, faults>>

-----------------------------------------------------------------------------
(* reconcilePreStartHold: a receipt, up to three events in D1, the ledger. *)

HeldFor(h) == main = "queued" /\ ledger = [status |-> "needs_action", hold |-> h]

ReadHold(r) ==
  /\ At(r, "reconcile")
  /\ IF HeldFor(req[r].hold) /\ d1.state # "moved"
     THEN req' = [req EXCEPT ![r].pc = "receipt", ![r].seen = d1.log] ELSE End(r)
  /\ UNCHANGED <<transcripts, d1, coord, brief, wf, accepted, faults>>

PrepareReceipt(r) ==
  IF ledger = [status |-> "needs_action", hold |-> req[r].hold]
  THEN /\ evidence' = Added(evidence, <<"reconciled", req[r].hold>>)
       /\ receipts' = receipts \cup {req[r].hold}
       /\ Goto(r, "events")
  ELSE End(r) /\ UNCHANGED <<evidence, receipts>>

PrepareReconciliation(r) ==
  /\ At(r, "receipt") /\ PrepareReceipt(r)
  /\ UNCHANGED <<transcripts, d1, ledger, starts, main, brief, wf, accepted, faults>>

\* What D1's last event was when the request looked decides what it writes.
Pending(seen) ==
  CASE seen = <<>> -> "none"
    [] seen[Len(seen)][1] = "required" -> "reconciled"
    [] seen[Len(seen)][1] = "reconciled" -> "retrying"
    [] seen[Len(seen)][1] = "retrying" -> "queued"
    [] OTHER -> "none"

StateAfter(type) == IF type = "reconciled" THEN "needs_action" ELSE type

WriteEvent(r) ==
  LET type == Pending(req[r].seen)
      e == <<type, req[r].hold>>
  IN
  /\ At(r, "events")
  /\ IF type = "none" THEN Goto(r, "finalize") /\ UNCHANGED d1
     ELSE \/ (Written(r, StateAfter(type), e) \/ Replayed(e)) /\ req' = [req EXCEPT ![r].seen = d1'.log]
          \/ Conflicts(r, e) /\ End(r)
  /\ UNCHANGED <<transcripts, coord, brief, wf, accepted, faults>>

FinalizeReconciliation(r) ==
  LET h == req[r].hold IN
  /\ At(r, "finalize")
  /\ IF h \in receipts /\ ledger.hold = h /\ ledger.status \in {"needs_action", "reconciled"}
     THEN /\ ledger' = [ledger EXCEPT !.status = "reconciled"]
          /\ starts' = IF ledger.status = "reconciled" THEN starts ELSE "reconciled"
          /\ Goto(r, req[r].after)
     ELSE End(r) /\ UNCHANGED <<ledger, starts>>
  /\ UNCHANGED <<transcripts, d1, evidence, receipts, main, brief, wf, accepted, faults>>

-----------------------------------------------------------------------------
(* acceptedRunProof: D1 is read first, the Coordinator after it. *)

ReadD1(r) ==
  /\ At(r, "readD1")
  /\ IF d1.state = "absent" \/ brief # "mirrored" THEN End(r)
     ELSE req' = [req EXCEPT ![r].pc = "prove", ![r].seen = d1.log, ![r].start = d1.state]
  /\ UNCHANGED <<transcripts, d1, coord, brief, wf, accepted, faults>>

Recovery == << <<"required", "create">>, <<"reconciled", "create">>, <<"retrying", "create">>, <<"queued", "create">> >>
IsRecovery(log) == Len(log) <= 4 /\ log = SubSeq(Recovery, 1, Len(log))

ProvesStarted(log) ==
  /\ ledger.status = "started" /\ starts = "started"
  /\ \/ log = <<>> /\ evidence = <<Confirmed>> /\ receipts = {}
     \/ log = Recovery /\ receipts = {"create"} /\ evidence = <<Recovery[1], Recovery[2], Confirmed>>

ProvesHold(log) ==
  \/ Len(log) = 1 /\ IsRecovery(log) /\ HeldFor("create") /\ evidence = <<Recovery[1]>> /\ receipts = {}
  \/ /\ Len(log) >= 2 /\ IsRecovery(log) /\ main = "queued" /\ ledger.hold = "create"
     /\ ledger.status \in {"needs_action", "reconciled"}
     /\ evidence = <<Recovery[1], Recovery[2]>> /\ receipts = {"create"}

\* Seeded fault: the start ledger's hold is not looked at.
AnyHoldProves(log, state) == ledger.status # "absent"

\* The chains of D1 and of the Coordinator must be of the same length.
Proven(log, state) ==
  \/ ProvesStarted(log) /\ (state = "moved") = (main = "moved")
  \/ ProvesHold(log) /\ state # "moved"

Prove(r) ==
  /\ At(r, "prove")
  /\ accepted' = (accepted \/ Proven(req[r].seen, req[r].start))
  /\ End(r)
  /\ UNCHANGED <<transcripts, d1, coord, brief, wf, faults>>

Die(r) ==
  /\ req[r].pc # "idle" /\ Fault /\ End(r)
  /\ UNCHANGED <<transcripts, d1, coord, brief, wf, accepted>>

-----------------------------------------------------------------------------
(* The Workflow. *)

\* getFiveAgentWorkflowStartConfirmation.
StartConfirmed == ledger.status = "started" /\ starts = "started" /\ Has(evidence, Confirmed)

Confirm ==
  /\ wf = "created" /\ StartConfirmed
  /\ wf' = "confirmed"
  /\ UNCHANGED <<transcripts, d1, coord, brief, req, accepted, faults>>

\* Three looks within some fifteen seconds, then the instance has failed; a
\* request that lives writes its confirmation before that.
GiveUp ==
  /\ wf = "created" /\ ~ StartConfirmed
  /\ \A r \in Requests : req[r].pc \notin {"mark", "lookAgain"}
  /\ wf' = "failed"
  /\ UNCHANGED <<transcripts, d1, coord, brief, req, accepted, faults>>

\* Both stores must be queued; the first step moves D1, then the Coordinator.
Transcribe ==
  /\ wf = "confirmed"
  /\ IF d1.state = "queued" /\ main = "queued"
     THEN wf' = "transcribing" /\ d1' = [d1 EXCEPT !.state = "moved"]
     ELSE wf' = "failed" /\ UNCHANGED d1
  /\ UNCHANGED <<transcripts, coord, brief, req, accepted, faults>>

MoveCoordinator ==
  /\ wf = "transcribing"
  /\ wf' = "running" /\ main' = "moved"
  /\ UNCHANGED <<transcripts, d1, ledger, starts, evidence, receipts, brief, req, accepted, faults>>

-----------------------------------------------------------------------------
RouteNext(r) ==
  \/ FindTranscript(r) \/ PutTranscript(r) \/ RereadTranscript(r) \/ Register(r) \/ StartRun(r) \/ Plan(r)
  \/ CheckBrief(r) \/ CheckWorkflow(r) \/ StoreBrief(r) \/ LookUp(r) \/ Decide(r) \/ Create(r) \/ LookAgain(r)
  \/ MarkStarted(r) \/ HoldLedger(r) \/ ReadForHold(r) \/ HoldPublication(r) \/ AfterBriefHold(r)
  \/ ReadHold(r) \/ PrepareReconciliation(r) \/ WriteEvent(r) \/ FinalizeReconciliation(r)
  \/ ReadD1(r) \/ Prove(r)

WorkflowNext == Confirm \/ GiveUp \/ Transcribe \/ MoveCoordinator

Next ==
  \/ \E r \in Requests : Begin(r) \/ AskStatus(r) \/ RouteNext(r) \/ Die(r)
  \/ WorkflowNext

Spec == Init /\ [][Next]_vars

\* Mining comes back every hour until the input is settled, and a request that
\* does not die goes on; Cloudflare runs a created instance.
FairSpec ==
  /\ Spec
  /\ \A r \in Requests : SF_vars(Begin(r)) /\ WF_vars(RouteNext(r))
  /\ WF_vars(WorkflowNext)

-----------------------------------------------------------------------------
(* What the order of the writes and the receipts are for. *)

TypeOK ==
  /\ transcripts \subseteq Texts
  /\ d1.state \in {"absent", "queued", "needs_action", "retrying", "moved"}
  /\ d1.log \in Seq(EventTypes \X Holds)
  /\ ledger.status \in {"absent", "intent", "needs_action", "reconciled", "started"}
  /\ ledger.hold \in Holds \cup {"none"}
  /\ starts \in {"absent", "intent", "unknown", "reconciled", "started"}
  /\ receipts \subseteq Holds /\ main \in {"absent", "queued", "moved"}
  /\ brief \in {"none", "prepared", "stored", "mirrored"}
  /\ wf \in {"none", "created", "confirmed", "transcribing", "running", "failed"}
  /\ accepted \in BOOLEAN /\ faults \in 0..MaxFaults

\* Two recognitions of one recording never start two runs: whoever got past
\* the transcript has the same one (persistTranscript's read of the whole list).
OneTranscript ==
  \A r, s \in Requests :
    LET inRoute(q) == req[q].text # "none" /\ req[q].pc \notin {"find", "put", "reread"}
    IN inRoute(r) /\ inRoute(s) => req[r].text = req[s].text

\* The confirmation is never written for an instance that does not exist,
\* whatever the lookups answered (startFiveAgentWorkflowInternal).
ConfirmedExists == Has(evidence, Confirmed) => wf # "none"

\* D1 leaves a hold only under the receipt of that hold
\* (docs/editorial-visual-publishing-pipeline.md:286, reconcilePreStartHold).
ReceiptFirst == \A n \in DOMAIN d1.log : d1.log[n][1] # "required" => d1.log[n][2] \in receipts

\* A run that has begun is never put back into a start hold by a request that
\* looked before it began (holdPreStartPublication, reconcilePreStartHold).
NeverHeldOnceMoved == wf \in {"transcribing", "running"} => d1.state = "moved"

\* What mining was told it may forget is there: transcript, brief, both rows,
\* and either an instance or the hold that keeps the doubt (acceptedRunProof).
AcceptedIsDurable ==
  accepted => /\ transcripts # {} /\ brief = "mirrored" /\ d1.state # "absent"
              /\ ledger.status # "intent" /\ (wf # "none" \/ Has(evidence, <<"required", "create">>))

\* A start is only ever called what the stores can prove: confirmed with an
\* instance, out of its hold with a receipt, accepted with everything kept.
StartIsProven == TypeOK /\ ConfirmedExists /\ ReceiptFirst /\ AcceptedIsDurable

\* The ledger leaves a hold on a receipt, or on the sight of the instance.
HoldLeftOnEvidence ==
  [][ledger.status = "needs_action" /\ ledger'.status # "needs_action"
       => ledger.hold \in receipts \/ wf # "none"]_vars

\* A start is held exactly for a doubt: no hold for a run that has begun, and
\* none left without evidence.
HoldsForDoubtOnly == []NeverHeldOnceMoved /\ HoldLeftOnEvidence

\* Repeated starts confirm the run in the end, whatever was lost before; only
\* two different transcripts, or a brief proven missing, are left to a person.
EventuallyStarted ==
  <>(ledger.status = "started" \/ Cardinality(transcripts) > 1 \/ (ledger.hold = "brief" /\ brief \notin {"stored", "mirrored"}))

\* A confirmed run goes on: "the known-existing Workflow path writes the single
\* confirmation event and then continues the same run"
\* (docs/editorial-visual-publishing-pipeline.md:289-290). Known divergence, stated for
\* reproduction and checked by no configuration: see README.
ConfirmedRuns == ledger.status = "started" ~> wf = "running"
==============================================================================
