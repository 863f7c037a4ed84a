----------------------------- MODULE TextWorkflow -----------------------------
(***************************************************************************)
(* The text half of FiveAgentPublishingWorkflow.run: from the queued run   *)
(* to the frozen article, through the writing agent, the review agent and  *)
(* at most one revision. Every step writes D1 first and the Coordinator    *)
(* second, with the revisions of the step before; an artifact is stored,   *)
(* projected and receipted in turn; a call to an agent is opened before it *)
(* is sent and closed after. The engine runs a failed step three times.    *)
(* A writing failure can be retried from the App: D1 is taken back to      *)
(* writing and a recovery instance of the same Workflow writes the draft   *)
(* again. fiveAgentPublishing.ts, editorialAgents.ts, index.ts.            *)
(***************************************************************************)
EXTENDS Integers, Sequences, FiniteSets, PublicationStates

CONSTANTS
  MaxFaults,  \* bound: failed calls, lost answers and restarts, together
  Places      \* where they may happen

ASSUME TextWorkflowOK ==
  MaxFaults \in Nat /\ Places \subseteq {"d1", "main", "receipt", "store", "call", "service", "engine"}

VARIABLES
  d1,       \* publication_runs and its events: state, code, last successful state, keys
  main,     \* editorial_wave2b_runs and its events, receipts included
  kept,     \* artifacts with a row in the Coordinator's outbox
  calls,    \* calls[c]: results of the attempts to have artifact c written
  asks,     \* asks[c]: requests for it an agent has received
  verdict,  \* the review agent's decisions
  wf,       \* the Workflow instance of the start, and the one of the recovery
  shown,    \* the recording carries the frozen article
  faults

vars == <<d1, main, kept, calls, asks, verdict, wf, shown, faults>>
ledgers == <<kept, calls, asks, verdict, shown>>

-----------------------------------------------------------------------------
Instances == {"first", "recovery"}
Steps ==
  << "transcribing", "brief", "writing", "askDraft", "draft", "reviewing", "askReview", "review",
     "dispatch", "writing2", "askDraft2", "draft2", "reviewing2", "askReview2", "review2", "frozen" >>
StateSteps == {"transcribing", "writing", "reviewing", "writing2", "reviewing2"}
CallSteps == {"askDraft", "askReview", "askDraft2", "askReview2"}
Called == {"draft", "redraft", "review", "draft2", "review2"}
Artifacts == Called \cup {"brief", "dispatch", "frozen"}

\* The number holdForReconciliation and failAdapterRun put into their keys.
Phase(s) == CASE s \in {"askDraft", "draft"} -> "3" [] s \in {"askReview", "review"} -> "5"
              [] s \in {"askDraft2", "draft2"} -> "7" [] s \in {"askReview2", "review2"} -> "9"
              [] OTHER -> "6"

\* The artifact a step asks for or commits. A recovery's draft has an identity
\* of its own: its key ends with the retry's revision.
Art(i, s) == CASE s \in {"askDraft", "draft"} -> IF i = "recovery" THEN "redraft" ELSE "draft"
               [] s \in {"askReview", "review"} -> "review"
               [] s = "askDraft2" -> "draft2"
               [] s = "askReview2" -> "review2"
               [] OTHER -> s

ReviewState(s) == CASE verdict[s] = "pass" -> "reviewed"
                    [] verdict[s] = "revise" /\ s = "review" -> "revising"
                    [] OTHER -> "needs_action"

MainTarget(s) == CASE s = "brief" -> "transcript_ready"
                   [] s \in {"draft", "draft2"} -> "draft_generated"
                   [] s \in {"review", "review2"} -> ReviewState(s)
                   [] s = "dispatch" -> "revising"
                   [] s = "writing2" -> "writing"
                   [] s = "reviewing2" -> "reviewing"
                   [] s = "frozen" -> "content_frozen"
                   [] OTHER -> s

\* While the draft is revised, D1 stays in "revising".
InRevision == {"dispatch", "writing2", "draft2"}
D1Target(s) == IF s \in InRevision THEN "revising" ELSE MainTarget(s)

Follow(s) ==
  IF s = "review" /\ verdict["review"] = "pass" THEN "frozen"
  ELSE Steps[1 + CHOOSE n \in DOMAIN Steps : Steps[n] = s]
IsLast(s) == s = "frozen" \/ (s \in {"review", "review2"} /\ ReviewState(s) = "needs_action")

Has(log, key) == \E n \in DOMAIN log : log[n] = key
EndOf(log) == IF log = <<>> THEN <<"none", "none">> ELSE log[Len(log)]
Receipts == {a \in Artifacts : Has(main.log, <<"artifact", a>>)}
Projected == {a \in Artifacts : Has(d1.log, <<"artifact", a>>)}
RevisionRequested == "dispatch" \in Projected
LastCall(c) == IF calls[c] = <<>> THEN "none" ELSE calls[c][Len(calls[c])]

Unknown == "external_side_effect_unknown"
NonRetryable == "writing_adapter_non_retryable"

Outcomes == {"done", "lost", "failed"}
Fault(place) == place \in Places /\ faults < MaxFaults /\ faults' = faults + 1
Costs(place, o) == IF o = "done" THEN UNCHANGED faults ELSE Fault(place)

\* A step begins here; a retried step begins here again.
Begin(s) == IF s \in StateSteps THEN "d1" ELSE IF s \in CallSteps THEN "ask" ELSE "store"
At(i, pc) == wf[i].run = "live" /\ wf[i].pc = pc
Goto(i, pc) == wf' = [wf EXCEPT ![i].pc = pc]
Finish(i) == wf' = [wf EXCEPT ![i].run = "done"]
Error(i) == wf' = [wf EXCEPT ![i].run = "errored"]

\* retries: { limit: 2 }; then the instance is errored.
Retry(i) ==
  IF wf[i].tries = 3 THEN Error(i)
  ELSE wf' = [wf EXCEPT ![i].tries = @ + 1, ![i].pc = Begin(wf[i].step)]

\* A step is done at revisions (m, d), which the next one starts from.
Done(i, m, d) ==
  LET s == wf[i].step IN
  IF IsLast(s) THEN Finish(i)
  ELSE wf' = [wf EXCEPT
         ![i].step = Follow(s), ![i].pc = Begin(Follow(s)), ![i].tries = 1, ![i].main = m, ![i].d1 = d,
         ![i].arts = IF s \in StateSteps \cup CallSteps THEN @ ELSE @ \cup {Art(i, s)}]

Instance == [run |-> "none", step |-> "transcribing", pc |-> "d1", tries |-> 1, main |-> 0, d1 |-> 0,
             atMain |-> 0, atD1 |-> 0, arts |-> {}, result |-> "none"]

\* The Workflow's start is confirmed and the brief stored.
Init ==
  /\ d1 = [state |-> "queued", code |-> "none", last |-> "queued", log |-> <<>>]
  /\ main = [state |-> "queued", code |-> "none", last |-> "queued", log |-> <<>>]
  /\ kept = {"brief"}
  /\ calls = [c \in Called |-> <<>>] /\ asks = [c \in Called |-> 0]
  /\ verdict = [r \in {"review", "review2"} |-> "none"]
  /\ wf = [i \in Instances |-> IF i = "first" THEN [Instance EXCEPT !.run = "live"] ELSE Instance]
  /\ shown = FALSE /\ faults = 0

-----------------------------------------------------------------------------
(* The two writes of every step. *)

Moved(row, target, key, code) ==
  [state |-> target, code |-> code, log |-> Append(row.log, key),
   last |-> IF target \in ExceptionalStates \cup {"retrying"} THEN row.last ELSE target]

\* Seeded fault: any event at the next revision counts as a replay.
AnyEventReplays(key, rev) == Len(d1.log) = rev + 1

\* applySystemPublicationTransition: written, replayed or refused.
D1Replays(key, rev) == Len(d1.log) = rev + 1 /\ d1.log[rev + 1] = key
D1Writes(target, key, same, rev) ==
  /\ Len(d1.log) = rev /\ ~ Has(d1.log, key)
  /\ target \in ALLOWED_PROJECTION_TRANSITIONS(d1.state) \/ (same /\ target = d1.state)

Project(i, target, key, same, code, rev, next) ==
  \/ /\ D1Writes(target, key, same, rev)
     /\ \E o \in Outcomes :
          /\ Costs("d1", o)
          /\ d1' = IF o = "failed" THEN d1 ELSE Moved(d1, target, key, code)
          /\ IF o = "done" THEN Goto(i, next) ELSE Retry(i)
  \/ D1Replays(key, rev) /\ Goto(i, next) /\ UNCHANGED <<d1, faults>>
  \/ /\ ~ D1Writes(target, key, same, rev) /\ ~ D1Replays(key, rev)
     /\ Retry(i) /\ UNCHANGED <<d1, faults>>

WAVE2B_TRANSITIONS(s) ==
  CASE s = "failed" -> {}
    [] s = "needs_action" -> {"writing", "reviewing", "failed"}
    [] s = "reviewed" -> {"content_frozen", "needs_action"}
    [] s = "revising" -> {"writing", "needs_action", "failed"}
    [] s \in {"transcribing", "transcript_ready", "draft_generated"} -> PipelineSuccessors(s) \cup {"failed"}
    [] OTHER -> PipelineSuccessors(s) \cup {"needs_action", "failed"}

\* Seeded fault: a repeated write is not recognised.
NeverReplays(target, key, rev) == FALSE

\* recordFiveAgentState and completeFiveAgentArtifact, one transaction each.
MainReplays(target, key, rev) == Len(main.log) = rev + 1 /\ main.log[rev + 1] = key /\ main.state = target
MainWrites(target, rev) ==
  Len(main.log) = rev /\ (target = main.state \/ target \in WAVE2B_TRANSITIONS(main.state))
RecordOutcome(place, target, key, code, rev, o) ==
  IF o # "refused"
  THEN /\ MainWrites(target, rev) /\ Costs(place, o)
       /\ main' = IF o = "failed" THEN main ELSE Moved(main, target, key, code)
  ELSE ~ MainWrites(target, rev) /\ UNCHANGED <<main, faults>>
Record(place, i, target, key, code, rev, After) ==
  \/ MainReplays(target, key, rev) /\ After /\ UNCHANGED <<main, faults>>
  \/ /\ ~ MainReplays(target, key, rev)
     /\ \E o \in Outcomes \cup {"refused"} :
          RecordOutcome(place, target, key, code, rev, o) /\ IF o = "done" THEN After ELSE Retry(i)

-----------------------------------------------------------------------------
(* State steps: applySystemState. *)

StateD1(i) ==
  /\ At(i, "d1")
  /\ LET s == wf[i].step IN Project(i, D1Target(s), <<"state", s>>, s \in InRevision, "none", wf[i].d1, "main")
  /\ UNCHANGED <<main, ledgers>>

StateMain(i) ==
  /\ At(i, "main")
  /\ LET s == wf[i].step IN
       Record("main", i, MainTarget(s), <<"state", s>>, "none", wf[i].main, Done(i, wf[i].main + 1, wf[i].d1 + 1))
  /\ UNCHANGED <<d1, ledgers>>

-----------------------------------------------------------------------------
(* Call steps: writeDraftThroughService, reviewThroughService,             *)
(* writeRevisionThroughService.                                            *)

\* verifyExactArtifactSet: the Coordinator's artifacts, receipts and artifact
\* events and D1's artifact events are the expected ones.
Exact(expected, receipts, events) ==
  kept = expected /\ Receipts = receipts /\ Receipts = events /\ events \subseteq Projected

\* Seeded fault: a recovery does not look at what the first instance left.
RecoversBlindly(i) == TRUE

MayRecover(i) == i # "recovery" \/ wf[i].step # "askDraft" \/ Exact({"brief"}, {"brief"}, {"brief"})

\* prepareFiveAgentCall opens an attempt.
MayOpen(c) == LastCall(c) = "none" \/ (LastCall(c) = "retryable" /\ Len(calls[c]) < 3)

Ask(i) ==
  /\ At(i, "ask")
  /\ LET c == Art(i, wf[i].step) IN
       \/ Fault("store") /\ Goto(i, "hold") /\ UNCHANGED calls       \* an input cannot be read
       \/ ~ MayRecover(i) /\ Goto(i, "hold") /\ UNCHANGED <<calls, faults>>
       \/ /\ MayRecover(i)
          /\ \/ /\ MayOpen(c)
                /\ \E o \in Outcomes :
                     /\ Costs("call", o)
                     /\ calls' = [calls EXCEPT ![c] =
                          IF o = "failed" THEN @ ELSE Append(@, "open")]
                     /\ IF o = "done" THEN Goto(i, "send") ELSE Retry(i)
             \/ /\ ~ MayOpen(c) /\ UNCHANGED <<calls, faults>>
                /\ CASE LastCall(c) \in {"open", "unknown"} -> Goto(i, "hold")
                     [] LastCall(c) = "succeeded" -> Done(i, wf[i].main, wf[i].d1)
                     [] OTHER -> Goto(i, "fail")
  /\ UNCHANGED <<d1, main, kept, asks, verdict, shown>>

Close(i, result) == wf' = [wf EXCEPT ![i].pc = "close", ![i].result = result]

\* The agent answers, refuses, or does not say; an answer that never came or
\* was a 408, 429 or 5xx is retryable; the instance may also be stopped.
Send(i) ==
  LET c == Art(i, wf[i].step) IN
  /\ At(i, "send")
  /\ \/ /\ IF c \in {"review", "review2"} THEN \E v \in {"pass", "revise", "block"} : verdict' = [verdict EXCEPT ![c] = v]
                                          ELSE UNCHANGED verdict
        /\ asks' = [asks EXCEPT ![c] = @ + 1] /\ Goto(i, "keep") /\ UNCHANGED faults
     \/ /\ Fault("service") /\ UNCHANGED verdict
        /\ \/ asks' = [asks EXCEPT ![c] = @ + 1] /\ \E r \in {"failed", "retryable"} : Close(i, r)
           \/ UNCHANGED asks /\ Close(i, "retryable")
     \/ Fault("engine") /\ asks' = [asks EXCEPT ![c] = @ + 1] /\ Retry(i) /\ UNCHANGED verdict
  /\ UNCHANGED <<d1, main, kept, calls, shown>>

\* prepareArtifactStorage; the call stays open until the artifact is committed.
\* A store whose outcome is unknown holds; any other error fails the call.
Keep(i) ==
  LET c == Art(i, wf[i].step) IN
  /\ At(i, "keep")
  /\ \/ kept' = kept \cup {c} /\ Done(i, wf[i].main, wf[i].d1) /\ UNCHANGED faults
     \/ /\ Fault("store") /\ kept' \in {kept, kept \cup {c}}
        /\ \E r \in {"unknown", "broken"} : Close(i, r)
     \/ Fault("engine") /\ kept' = kept \cup {c} /\ Retry(i)
  /\ UNCHANGED <<d1, main, calls, asks, verdict, shown>>

\* completeFiveAgentCall: a second, different result is refused.
Settle(c, result, o) ==
  /\ Costs("call", o)
  /\ calls' = [calls EXCEPT ![c][Len(calls[c])] = IF o = "failed" \/ @ # "open" THEN @ ELSE result]
SettleConflicts(c, result) == LastCall(c) \notin {"open", result} /\ UNCHANGED <<calls, faults>>

CloseCall(i) ==
  LET c == Art(i, wf[i].step)
      result == wf[i].result
  IN
  /\ At(i, "close")
  /\ \E o \in Outcomes :
       /\ Settle(c, IF result = "broken" THEN "failed" ELSE result, o)
       /\ CASE o # "done" \/ result = "broken" -> Retry(i)
            [] o = "done" /\ result = "unknown" -> Goto(i, "hold")
            [] o = "done" /\ result = "retryable" /\ Len(calls[c]) < 3 -> Goto(i, "ask")
            [] OTHER -> Goto(i, "fail")
  /\ UNCHANGED <<d1, main, kept, asks, verdict, shown>>

-----------------------------------------------------------------------------
(* Commit steps: persistArtifact. *)

\* What an unreconciled artifact does to the step.
Unreconciled(i) ==
  CASE wf[i].step = "brief" -> Retry(i)
    [] wf[i].step \in {"dispatch", "frozen"} -> Goto(i, "hold")
    [] OTHER -> Goto(i, "closeHeld")

Store(i) ==
  /\ At(i, "store")
  /\ \/ kept' = kept \cup {Art(i, wf[i].step)} /\ Goto(i, "look") /\ UNCHANGED faults
     \/ /\ Fault("store") /\ kept' \in {kept, kept \cup {Art(i, wf[i].step)}}
        /\ Unreconciled(i) \/ Retry(i)
  /\ UNCHANGED <<d1, main, calls, asks, verdict, shown>>

\* The receipt in the Coordinator and the event in D1 decide what is missing.
LookAt(i) ==
  LET a == Art(i, wf[i].step)
      prior == wf[i].arts
      receipted == IF a \in Receipts THEN {a} ELSE {}
      projected == IF a \in Projected THEN {a} ELSE {}
      ready(pc) == /\ wf' = [wf EXCEPT ![i].pc = pc, ![i].atMain = Len(main.log), ![i].atD1 = Len(d1.log)]
                   /\ UNCHANGED faults
      exact == Exact(prior \cup {a}, prior \cup receipted, prior \cup projected)
  IN CASE ~ exact -> Unreconciled(i) /\ UNCHANGED faults
       [] exact /\ a \notin Receipts /\ a \notin Projected -> ready("event")
       [] exact /\ a \notin Receipts /\ a \in Projected -> ready("receipt")
       [] OTHER -> IF main.state = MainTarget(wf[i].step) /\ d1.state = D1Target(wf[i].step)
                   THEN ready("verify") ELSE Unreconciled(i) /\ UNCHANGED faults

Look(i) ==
  /\ At(i, "look")
  /\ LookAt(i) \/ (Fault("store") /\ (Unreconciled(i) \/ Retry(i)))
  /\ UNCHANGED <<d1, main, ledgers>>

Blocked(s) == IF MainTarget(s) = "needs_action" THEN "review_blocked" ELSE "none"
CommitD1(i) ==
  /\ At(i, "event")
  /\ LET s == wf[i].step IN
       Project(i, D1Target(s), <<"artifact", Art(i, s)>>, s \in InRevision, Blocked(s), wf[i].atD1, "receipt")
  /\ UNCHANGED <<main, ledgers>>

CommitReceipt(i) ==
  /\ At(i, "receipt")
  /\ LET s == wf[i].step IN
       Record("receipt", i, MainTarget(s), <<"artifact", Art(i, s)>>, Blocked(s), wf[i].atMain, Goto(i, "verify"))
  /\ UNCHANGED <<d1, ledgers>>

\* The set is verified again; the frozen article is copied to the recording.
Verify(i) ==
  /\ At(i, "verify")
  /\ \/ /\ Art(i, wf[i].step) \in Called /\ Goto(i, "settle") /\ UNCHANGED <<shown, faults>>
     \/ /\ Art(i, wf[i].step) \notin Called /\ UNCHANGED faults
        /\ shown' = (shown \/ wf[i].step = "frozen") /\ Done(i, Len(main.log), wf[i].d1 + 1)
     \/ Fault("store") /\ shown' \in {shown, shown \/ wf[i].step = "frozen"} /\ Retry(i)
  /\ UNCHANGED <<d1, main, kept, calls, asks, verdict>>

SettleCall(i) ==
  LET c == Art(i, wf[i].step) IN
  /\ At(i, "settle")
  /\ \/ SettleConflicts(c, "succeeded") /\ Retry(i)
     \/ /\ LastCall(c) \in {"open", "succeeded"}
        /\ \E o \in Outcomes :
             Settle(c, "succeeded", o) /\ IF o = "done" THEN Done(i, Len(main.log), Len(d1.log)) ELSE Retry(i)
  /\ UNCHANGED <<d1, main, kept, asks, verdict, shown>>

CloseHeld(i) ==
  LET c == Art(i, wf[i].step) IN
  /\ At(i, "closeHeld")
  /\ \/ SettleConflicts(c, "unknown") /\ Retry(i)
     \/ /\ LastCall(c) \in {"open", "unknown"}
        /\ \E o \in Outcomes : Settle(c, "unknown", o) /\ IF o = "done" THEN Goto(i, "hold") ELSE Retry(i)
  /\ UNCHANGED <<d1, main, kept, asks, verdict, shown>>

-----------------------------------------------------------------------------
(* holdForReconciliation and failAdapterRun, with the revisions the step   *)
(* began with.                                                             *)

HoldD1(i) ==
  /\ At(i, "hold")
  /\ Project(i, "needs_action", <<"hold", Phase(wf[i].step)>>, FALSE, Unknown, wf[i].d1, "holdMain")
  /\ UNCHANGED <<main, ledgers>>

HoldMain(i) ==
  /\ At(i, "holdMain")
  /\ Record("main", i, "needs_action", <<"hold", Phase(wf[i].step)>>, Unknown, wf[i].main, Finish(i))
  /\ UNCHANGED <<d1, ledgers>>

\* adapterFailureMetadata.
FailureCode(i) ==
  IF LastCall(Art(i, wf[i].step)) = "retryable" THEN "adapter_retry_exhausted"
  ELSE IF wf[i].step \in {"askDraft", "askDraft2"} THEN NonRetryable ELSE "review_adapter_non_retryable"

FailD1(i) ==
  /\ At(i, "fail")
  /\ Project(i, "failed", <<"failed", Phase(wf[i].step)>>, FALSE, FailureCode(i), wf[i].d1, "failMain")
  /\ UNCHANGED <<main, ledgers>>

FailMain(i) ==
  /\ At(i, "failMain")
  /\ Record("main", i, "failed", <<"failed", Phase(wf[i].step)>>, FailureCode(i), wf[i].main, Finish(i))
  /\ UNCHANGED <<d1, ledgers>>

-----------------------------------------------------------------------------
(* The engine and the App. *)

\* The code between the steps runs again: a run that has left "queued" is not
\* where a Workflow may start.
EngineRestart(i) ==
  /\ wf[i].run = "live" /\ Fault("engine")
  /\ ~ (main.state = "queued" /\ d1.state = "queued")
  /\ ~ (i = "recovery" /\ main.state = "writing" /\ d1.state = "writing")
  /\ wf' = [wf EXCEPT ![i].run = "errored", ![i].result = "restarted"]
  /\ UNCHANGED <<d1, main, ledgers>>

App(target, action, code) == d1' = Moved(d1, target, <<"app", action>>, code)

Cancel ==
  /\ d1.state \notin TERMINAL_STATES /\ d1.code # Unknown
  /\ App("cancelled", "cancel", "none")
  /\ UNCHANGED <<main, ledgers, wf, faults>>

RetryRun ==
  /\ d1.state = "failed" \/ (d1.state = "needs_action" /\ d1.code # Unknown)
  /\ ~ (d1.state = "failed" /\ d1.code = NonRetryable /\ RevisionRequested)
  /\ App("retrying", "retry", d1.code)
  /\ UNCHANGED <<main, ledgers, wf, faults>>

\* The same request goes on where the evidence is a writing failure.
ResumeRun ==
  /\ d1.state = "retrying" /\ d1.last = "writing" /\ d1.code = NonRetryable /\ ~ RevisionRequested
  /\ App("writing", "resume", "none")
  /\ UNCHANGED <<main, ledgers, wf, faults>>

RetryPending == EndOf(d1.log) = <<"app", "resume">> /\ d1.state = "writing"

\* Seeded fault: a recovery that failed is not tried again.
NeverRecovered == wf["recovery"].run = "none"

NeedsRecovery == wf["recovery"].run \in {"none", "errored"}

\* startFiveAgentWritingRecovery, on every repetition of the App's request.
StartRecovery ==
  /\ RetryPending /\ NeedsRecovery
  /\ wf' = [wf EXCEPT !["recovery"] = [Instance EXCEPT !.run = "live", !.step = "askDraft", !.pc = "resume"]]
  /\ UNCHANGED <<d1, main, ledgers, faults>>

Takeover == main.state = "failed" /\ main.code = NonRetryable /\ main.last = "writing"
TakenOver == main.state = "writing" /\ EndOf(main.log) = <<"app", "retry">>
Recovered(m) == wf' = [wf EXCEPT !["recovery"] =
  [@ EXCEPT !.pc = "ask", !.main = m, !.d1 = Len(d1.log), !.arts = {"brief"}]]

\* resumeWritingAfterServiceFix, outside the steps: an error ends the instance.
Resume ==
  /\ At("recovery", "resume")
  /\ \/ /\ RetryPending /\ Takeover
        /\ \E o \in Outcomes :
             /\ Costs("main", o)
             /\ main' = IF o = "failed" THEN main ELSE Moved(main, "writing", <<"app", "retry">>, "none")
             /\ IF o = "done" THEN Recovered(Len(main.log) + 1) ELSE Error("recovery")
     \/ RetryPending /\ TakenOver /\ Recovered(Len(main.log)) /\ UNCHANGED <<main, faults>>
     \/ ~ (RetryPending /\ (Takeover \/ TakenOver)) /\ Error("recovery") /\ UNCHANGED <<main, faults>>
  /\ UNCHANGED <<d1, ledgers>>

-----------------------------------------------------------------------------
Step(i) ==
  \/ StateD1(i) \/ StateMain(i)
  \/ Ask(i) \/ Send(i) \/ Keep(i) \/ CloseCall(i)
  \/ Store(i) \/ Look(i) \/ CommitD1(i) \/ CommitReceipt(i) \/ Verify(i) \/ SettleCall(i) \/ CloseHeld(i)
  \/ HoldD1(i) \/ HoldMain(i) \/ FailD1(i) \/ FailMain(i)

AppNext == Cancel \/ RetryRun \/ ResumeRun \/ StartRecovery

Next == (\E i \in Instances : Step(i) \/ EngineRestart(i)) \/ Resume \/ AppNext
Spec == Init /\ [][Next]_vars

\* The engine goes on with a live instance; the App repeats a retry that has
\* been accepted until it is answered.
FairSpec ==
  /\ Spec
  /\ \A i \in Instances : WF_vars(Step(i))
  /\ WF_vars(Resume) /\ WF_vars(ResumeRun) /\ WF_vars(StartRecovery)

-----------------------------------------------------------------------------
(* Properties. *)

Keys == {"state", "artifact", "hold", "failed", "app"} \X
        ({Steps[n] : n \in DOMAIN Steps} \cup Artifacts \cup {"3", "5", "6", "7", "9", "retry", "resume", "cancel"})
Codes == {"none", Unknown, NonRetryable, "adapter_retry_exhausted", "review_adapter_non_retryable", "review_blocked"}
IsRow(row) ==
  /\ row.state \in PUBLICATION_STATES /\ row.last \in SUCCESSFUL_STATES /\ row.code \in Codes
  /\ row.log \in Seq(Keys)
  /\ row.state = "needs_action" => row.code # "none"

\* Types; every instance's revisions exist; a held or blocked row says why.
TypeOK ==
  /\ IsRow(d1) /\ IsRow(main)
  /\ kept \subseteq Artifacts /\ shown \in BOOLEAN /\ faults \in 0..MaxFaults
  /\ \A c \in Called :
       /\ calls[c] \in Seq({"open", "succeeded", "retryable", "failed", "unknown"}) /\ Len(calls[c]) <= 3
       /\ asks[c] \in 0..3
  /\ \A i \in Instances :
       /\ wf[i].run \in {"none", "live", "done", "errored"} /\ wf[i].tries \in 1..3
       /\ wf[i].main \in 0..Len(main.log) /\ wf[i].d1 \in 0..Len(d1.log)

\* What the App shows runs ahead of the Coordinator by at most one entry of a
\* Workflow, whatever step failed and whoever retried: the Coordinator's log is
\* D1's log without the App's resumption and cancellation.
OfWorkflow(key) == key \notin {<<"app", "resume">>, <<"app", "cancel">>, <<"app", "retry">>}
MainFollowsD1 ==
  LET projected == SelectSeq(d1.log, OfWorkflow)
      recorded == SelectSeq(main.log, OfWorkflow)
  IN /\ Len(recorded) \in {Len(projected), Len(projected) - 1}
     /\ recorded = SubSeq(projected, 1, Len(recorded))

\* An agent is asked once per attempt, and again only after an answer that said
\* it may be: a call whose answer was lost is never followed by another.
AskedOncePerAttempt ==
  \A c \in Called :
    /\ asks[c] <= Len(calls[c])
    /\ \A n \in 1..Len(calls[c]) - 1 : calls[c][n] = "retryable"

\* A recovery never has a second draft written while a draft of the first
\* instance may be stored.
NoSecondDraft == calls["redraft"] # <<>> => "draft" \notin kept /\ LastCall("draft") = "failed"

\* Paid work is done once, whatever was lost and whichever instance of the
\* Workflow is at it.
AskedOnce == AskedOncePerAttempt /\ NoSecondDraft

\* The recording carries a frozen article only when both ledgers have it, every
\* artifact it rests on is receipted, and the last review passed.
FrozenIsBacked ==
  shown =>
    /\ "frozen" \in Receipts /\ "frozen" \in Projected
    /\ Receipts = kept
    /\ IF RevisionRequested THEN verdict["review2"] = "pass" /\ {"draft2", "review2"} \subseteq Receipts
                            ELSE verdict["review"] = "pass"

\* What D1 and the recording show is backed by the Coordinator: it lags by one
\* entry at most, and not at all where an article is frozen.
LedgersBacked == TypeOK /\ MainFollowsD1 /\ FrozenIsBacked

\* The run is neither finished nor failed, held or cancelled in D1 although no
\* instance works on it and no recovery is about to.
InProgress == d1.state \notin TERMINAL_STATES \cup {"needs_action", "content_frozen", "retrying"}
Stranded ==
  /\ InProgress /\ ~ (RetryPending /\ calls["redraft"] = <<>>)
  /\ \A i \in Instances : wf[i].run # "live"

\* When nobody works on a run that is still in progress, either D1 is one entry
\* ahead for good, or a call was given up whose artifact is committed, or a
\* recovery failed as its first instance had, or the engine restarted an
\* instance between two steps, or a step failed three times.
StrandedForCause ==
  Stranded =>
    \/ Len(SelectSeq(main.log, OfWorkflow)) < Len(SelectSeq(d1.log, OfWorkflow))
    \/ \E c \in Receipts \cap Called : LastCall(c) = "unknown"
    \/ LastCall("redraft") \in {"failed", "retryable"}
    \/ \E i \in Instances : wf[i].result = "restarted"
    \/ faults >= 3

\* An accepted retry of a writing failure has the draft asked for again, or the
\* run ends otherwise; except where the first instance stopped between the two
\* writes of its failure, which leaves nothing the recovery may take over.
RetryIsTakenUp ==
  RetryPending ~>
    \/ calls["redraft"] # <<>> \/ ~ RetryPending
    \/ main.state = "writing" /\ ~ TakenOver /\ wf["first"].run = "errored"

\* An artifact D1 says is committed gets its receipt, or the run says it ended.
MissingReceiptWritten ==
  \A a \in Artifacts : a \in Projected ~> (a \in Receipts \/ ~ InProgress)

==============================================================================
