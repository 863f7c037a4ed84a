------------------------------ MODULE MiningJobs ------------------------------
(***************************************************************************)
(* The mining jobs: GitHub runs that take recordings and texts from the    *)
(* R2 inbox, claim each one in D1 under a lease, hand it to the V3         *)
(* workflow or turn it into an article and a WeChat draft themselves, and  *)
(* settle the claim. Jobs may overlap, die, and lose any answer; the claim *)
(* row, the inbox object, the stored transcript, the recording's status    *)
(* and WeChat are five parties that no transaction spans.                  *)
(* infra/mining/src/index.ts (main), infra/mining/src/v3Handoff.ts,        *)
(* worker/index.ts (handleMiningClaim, updateStatus).                      *)
(***************************************************************************)
EXTENDS Integers

CONSTANTS
  Jobs,            \* job runs that may be under way at once
  Inputs,          \* objects of the inbox
  CleanupInvalid,  \* MINING_CLEANUP_PERMANENT_FAILURES: delete undecodable audio
  MaxFaults        \* bound: failed calls, lost answers and deaths, together

ASSUME MiningOK == MaxFaults \in Nat /\ CleanupInvalid \in BOOLEAN /\ "none" \notin Jobs

VARIABLES
  content,     \* what an input holds: speech, nothing, or undecodable audio
  eligible,    \* inputs the Worker admits to V3
  inbox,       \* inputs whose object is in R2
  claim,       \* claim[i]: the mining_input_claims row
  v3,          \* v3[i]: the Worker's handoff: off, pending (marked), started
  transcript,  \* transcript[i]: the stage the stored transcript says
  status,      \* status[i]: recordings.status and processing_stage
  drafts,      \* drafts[i]: drafts WeChat holds for i
  expiries,    \* history: leases of i that ran out
  job,         \* job[j]: the run's position
  faults       \* faults so far

world == <<content, eligible, expiries>>
vars == <<content, eligible, inbox, claim, v3, transcript, status, drafts, expiries, job, faults>>

-----------------------------------------------------------------------------
Stages == {"none", "ARTICLE_READY", "DRAFT_FAILED", "COMPLETED"}
Statuses == {"QUEUED", "PROCESSING", "COMPLETED", "DRAFT_FAILED", "FAILED"}
Free == [state |-> "free", owner |-> "none", expired |-> FALSE]
Claims == [state : {"free", "processing", "completed"}, owner : Jobs \cup {"none"}, expired : BOOLEAN]

\* How an input is settled: each result's steps, in the code's order.
Settlement ==
  [draft   |-> <<"save", "delete", "report", "complete">>,
   article |-> <<"save", "report", "delete", "complete">>,
   empty   |-> <<"delete", "report", "complete">>,
   invalid |-> <<"report", "delete", "complete">>,
   v3      |-> <<"complete">>]

Steps == {"next", "route", "accept", "read", "rewrite", "saveReady", "draft", "settle", "release"}
Idle == [pc |-> "idle", todo |-> {}, input |-> "none", saved |-> FALSE, result |-> "none", step |-> 1]

At(j, pc) == job[j].pc = pc
Goto(j, pc) == job' = [job EXCEPT ![j].pc = pc]
Settle(j, result) ==
  job' = [job EXCEPT ![j].pc = "settle", ![j].result = result, ![j].step = 1]
\* An exception that leaves main ends the run; what it claimed stays claimed.
End(j) == job' = [job EXCEPT ![j] = Idle]

\* A call of another party: it takes effect and is answered, takes effect and
\* the answer is lost, or fails.
Outcomes == {"done", "lost", "failed"}
Costs(o) == IF o = "done" THEN UNCHANGED faults ELSE faults < MaxFaults /\ faults' = faults + 1

\* PUT /api/internal/status writes whatever it is told, without looking at the
\* claim; the job never waits for it to succeed.
Report(i, s) == status' \in {status, [status EXCEPT ![i] = s]}

-----------------------------------------------------------------------------
(* Claims and leases. *)

Init ==
  /\ content \in [Inputs -> {"speech", "empty", "invalid"}]
  /\ eligible \in SUBSET Inputs
  /\ inbox = Inputs
  /\ claim = [i \in Inputs |-> Free]
  /\ v3 = [i \in Inputs |-> "off"]
  /\ transcript = [i \in Inputs |-> "none"]
  /\ status = [i \in Inputs |-> "QUEUED"]
  /\ drafts = [i \in Inputs |-> 0] /\ expiries = [i \in Inputs |-> 0]
  /\ job = [j \in Jobs |-> Idle]
  /\ faults = 0

\* main with the files it lists: all, or the one input a dispatch names.
Start(j, files) ==
  /\ At(j, "idle") /\ files # {}
  /\ job' = [job EXCEPT ![j].pc = "next", ![j].todo = files]
  /\ UNCHANGED <<world, inbox, claim, v3, transcript, status, drafts, faults>>

Schedule(j) == Start(j, inbox)
Dispatch(j) == \E i \in inbox : Start(j, {i})

\* Seeded fault: a claim in processing is taken over without its lease.
GrantableAlways(c) == c.state \in {"free", "processing"}

\* Seeded fault: a claim whose owner died is never granted again.
GrantableOnce(c) == c.state = "free"

\* INSERT ... ON CONFLICT DO UPDATE ... WHERE processing AND lease_expires_at <= now.
Grantable(c) == c.state = "free" \/ (c.state = "processing" /\ c.expired)

ClaimInput(j) ==
  /\ At(j, "next") /\ job[j].todo # {}
  /\ \E i \in job[j].todo, o \in Outcomes :
       /\ Costs(o)
       /\ claim' = IF o # "failed" /\ Grantable(claim[i])
                   THEN [claim EXCEPT ![i] = [state |-> "processing", owner |-> j, expired |-> FALSE]]
                   ELSE claim
       /\ IF o # "done" THEN End(j)
          ELSE job' = [job EXCEPT ![j] = [Idle EXCEPT
                 !.pc = IF Grantable(claim[i]) THEN "route" ELSE "next",
                 !.todo = job[j].todo \ {i}, !.input = i]]
  /\ UNCHANGED <<world, inbox, v3, transcript, status, drafts>>

Finish(j) ==
  /\ At(j, "next") /\ job[j].todo = {}
  /\ End(j)
  /\ UNCHANGED <<world, inbox, claim, v3, transcript, status, drafts, faults>>

Owns(j, i) == claim[i].state = "processing" /\ claim[i].owner = j

\* DELETE ... WHERE claim_id AND processing; the job goes on in any case.
Release(j) ==
  /\ At(j, "release")
  /\ \E o \in Outcomes :
       /\ Costs(o)
       /\ claim' = IF o # "failed" /\ Owns(j, job[j].input)
                   THEN [claim EXCEPT ![job[j].input] = Free] ELSE claim
  /\ Goto(j, "next")
  /\ UNCHANGED <<world, inbox, v3, transcript, status, drafts>>

\* Two hours are longer than the work on one input: a lease runs out only when
\* no run is at work under it.
LeaseExpires(i) ==
  /\ claim[i].state = "processing" /\ ~claim[i].expired
  /\ ~ (job[claim[i].owner].input = i /\ job[claim[i].owner].pc \notin {"idle", "next"})
  /\ claim' = [claim EXCEPT ![i].expired = TRUE]
  /\ expiries' = [expiries EXCEPT ![i] = @ + 1]
  /\ UNCHANGED <<content, eligible, inbox, v3, transcript, status, drafts, job, faults>>

Die(j) ==
  /\ job[j].pc # "idle"
  /\ faults < MaxFaults /\ faults' = faults + 1
  /\ End(j)
  /\ UNCHANGED <<world, inbox, claim, v3, transcript, status, drafts>>

-----------------------------------------------------------------------------
(* The V3 route. *)

\* Seeded fault: an eligibility answer that got lost counts as legacy.
UnansweredLegacy(i, o) ==
  IF o # "done" THEN {"read"} ELSE IF v3'[i] = "off" THEN {"read"} ELSE {"accept"}

\* decideMiningV3Route: after a transport failure the status may be read, but
\* "legacy" then proves nothing and the input is held.
Decided(i, o) ==
  (IF o = "done" THEN {} ELSE {"release"}) \cup
  (CASE v3'[i] = "started" -> {"v3"}
     [] v3'[i] = "pending" -> {"accept"}
     [] OTHER -> IF o = "done" THEN {"read"} ELSE {})

Route(j) ==
  LET i == job[j].input IN
  /\ At(j, "route")
  /\ \E o \in Outcomes :
       /\ Costs(o)
       /\ v3' = IF o # "failed" /\ i \in eligible /\ v3[i] = "off" THEN [v3 EXCEPT ![i] = "pending"] ELSE v3
       /\ \E d \in Decided(i, o) : IF d = "v3" THEN Settle(j, "v3") ELSE Goto(j, d)
  /\ UNCHANGED <<world, inbox, claim, transcript, status, drafts>>

\* acceptMiningV3Handoff: transcribe, start, and after an unusable answer read
\* the status before the next attempt; held when no answer proves the start.
Accept(j) ==
  LET i == job[j].input IN
  /\ At(j, "accept")
  /\ \E o \in Outcomes :
       /\ Costs(o)
       /\ v3' = IF o = "failed" THEN v3 ELSE [v3 EXCEPT ![i] = "started"]
       /\ \/ v3'[i] = "started" /\ Settle(j, "v3")
          \/ o # "done" /\ Goto(j, "release")
          \/ o = "failed" /\ v3[i] = "pending" /\ UNCHANGED job
  /\ Report(i, "PROCESSING")
  /\ UNCHANGED <<world, inbox, claim, transcript, drafts>>

-----------------------------------------------------------------------------
(* The legacy route. *)

\* A failure before there is an article: the input stays in the inbox.
GiveBack(j, i) == Goto(j, "release") /\ Report(i, "FAILED")

Read(j) ==
  LET i == job[j].input IN
  /\ At(j, "read")
  /\ \/ content[i] = "speech" /\ Goto(j, "rewrite") /\ Report(i, "PROCESSING") /\ UNCHANGED faults
     \/ content[i] = "empty" /\ Settle(j, "empty") /\ Report(i, "PROCESSING") /\ UNCHANGED faults
     \/ content[i] = "invalid" /\ CleanupInvalid /\ Settle(j, "invalid") /\ Report(i, "PROCESSING") /\ UNCHANGED faults
     \/ content[i] = "invalid" /\ ~CleanupInvalid /\ GiveBack(j, i) /\ UNCHANGED faults
     \/ Costs("failed") /\ GiveBack(j, i)
  /\ UNCHANGED <<world, inbox, claim, v3, transcript, drafts>>

Rewrite(j) ==
  LET i == job[j].input IN
  /\ At(j, "rewrite")
  /\ \/ Goto(j, "saveReady") /\ Report(i, "PROCESSING") /\ UNCHANGED faults
     \/ Costs("failed") /\ GiveBack(j, i)
  /\ UNCHANGED <<world, inbox, claim, v3, transcript, drafts>>

SaveReady(j) ==
  LET i == job[j].input IN
  /\ At(j, "saveReady")
  /\ \E o \in Outcomes :
       /\ Costs(o)
       /\ transcript' = IF o = "failed" THEN transcript ELSE [transcript EXCEPT ![i] = "ARTICLE_READY"]
       /\ IF o = "done" THEN job' = [job EXCEPT ![j].pc = "draft", ![j].saved = TRUE]
          ELSE Settle(j, "article")
  /\ Report(i, "PROCESSING")
  /\ UNCHANGED <<world, inbox, claim, v3, drafts>>

\* Seeded fault: a failed draft is left to the next job.
DraftLater(j, o) == IF o = "done" THEN Settle(j, "draft") ELSE Goto(j, "release")

AfterDraft(j, o) == IF o = "done" THEN Settle(j, "draft") ELSE Settle(j, "article")

\* Cover, token, publishDraft: WeChat may hold a draft the job never hears of.
PublishDraft(j) ==
  LET i == job[j].input IN
  /\ At(j, "draft")
  /\ \E o \in Outcomes :
       /\ Costs(o)
       /\ drafts' = IF o = "failed" THEN drafts ELSE [drafts EXCEPT ![i] = @ + 1]
       /\ AfterDraft(j, o)
  /\ UNCHANGED <<world, inbox, claim, v3, transcript, status>>

-----------------------------------------------------------------------------
(* Settling an input. *)

Settling(j, step) == At(j, "settle") /\ Settlement[job[j].result][job[j].step] = step
Advance(j) == job' = [job EXCEPT ![j].step = @ + 1]

\* Seeded fault: the article counts as saved although nothing says so.
SaveAnyway(j, o) == Advance(j) /\ UNCHANGED status

\* Without a stored article the failure is not final.
AfterSave(j, o) ==
  IF job[j].saved \/ o = "done" THEN Advance(j) /\ UNCHANGED status
  ELSE GiveBack(j, job[j].input)

SaveResult(j) ==
  LET i == job[j].input IN
  /\ Settling(j, "save")
  /\ \E o \in Outcomes :
       /\ Costs(o)
       /\ transcript' = IF o = "failed" THEN transcript
                        ELSE [transcript EXCEPT ![i] = IF job[j].result = "draft" THEN "COMPLETED" ELSE "DRAFT_FAILED"]
       /\ AfterSave(j, o)
  /\ UNCHANGED <<world, inbox, claim, v3, drafts>>

DeleteInput(j) ==
  LET i == job[j].input IN
  /\ Settling(j, "delete")
  /\ \E o \in Outcomes :
       /\ Costs(o)
       /\ inbox' = IF o = "failed" THEN inbox ELSE inbox \ {i}
       /\ CASE o = "done" \/ job[j].result \in {"draft", "article"} -> Advance(j) /\ UNCHANGED status
            [] o # "done" /\ job[j].result = "empty" -> GiveBack(j, i)
            [] OTHER -> End(j) /\ UNCHANGED status
  /\ UNCHANGED <<world, claim, v3, transcript, drafts>>

ReportResult(j) ==
  /\ Settling(j, "report")
  /\ Report(job[j].input,
       CASE job[j].result = "draft" -> "COMPLETED" [] job[j].result = "article" -> "DRAFT_FAILED" [] OTHER -> "FAILED")
  /\ Advance(j)
  /\ UNCHANGED <<world, inbox, claim, v3, transcript, drafts, faults>>

\* completeMiningInput throws unless it is told that the claim was completed.
\* What the handler of that exception does depends on where main was.
CompletionUnknown(j) ==
  CASE job[j].result = "draft" -> Settle(j, "article")
    [] job[j].result = "empty" -> Goto(j, "next")
    [] job[j].result = "v3" -> Goto(j, "release")
    [] OTHER -> End(j)

CompleteClaim(j) ==
  LET i == job[j].input IN
  /\ Settling(j, "complete")
  /\ \E o \in Outcomes :
       /\ Costs(o)
       /\ claim' = IF o # "failed" /\ Owns(j, i)
                   THEN [claim EXCEPT ![i] = [Free EXCEPT !.state = "completed"]] ELSE claim
       /\ IF o = "done" /\ Owns(j, i) THEN Goto(j, "next") ELSE CompletionUnknown(j)
  /\ UNCHANGED <<world, inbox, v3, transcript, status, drafts>>

-----------------------------------------------------------------------------
JobNext(j) ==
  \/ ClaimInput(j) \/ Finish(j) \/ Release(j) \/ Route(j) \/ Accept(j) \/ Read(j) \/ Rewrite(j)
  \/ SaveReady(j) \/ PublishDraft(j) \/ SaveResult(j) \/ DeleteInput(j) \/ ReportResult(j) \/ CompleteClaim(j)

Next ==
  \/ \E j \in Jobs : Schedule(j) \/ Dispatch(j) \/ JobNext(j) \/ Die(j)
  \/ \E i \in Inputs : LeaseExpires(i)

Spec == Init /\ [][Next]_vars

\* GitHub runs the schedule every hour, whatever was dispatched in between, and
\* a started job to its end; time passes.
FairSpec ==
  /\ Spec
  /\ \A j \in Jobs : SF_vars(Schedule(j)) /\ WF_vars(JobNext(j))
  /\ \A i \in Inputs : WF_vars(LeaseExpires(i))

-----------------------------------------------------------------------------
(* What the claims, the order of the writes and the holds are for. *)

TypeOK ==
  /\ content \in [Inputs -> {"speech", "empty", "invalid"}] /\ eligible \subseteq Inputs /\ inbox \subseteq Inputs
  /\ claim \in [Inputs -> Claims]
  /\ v3 \in [Inputs -> {"off", "pending", "started"}]
  /\ transcript \in [Inputs -> Stages] /\ status \in [Inputs -> Statuses]
  /\ drafts \in [Inputs -> Nat] /\ expiries \in [Inputs -> Nat] /\ faults \in 0..MaxFaults
  /\ \A j \in Jobs :
       /\ job[j].pc \in Steps \cup {"idle"} /\ job[j].todo \subseteq Inputs
       /\ job[j].input \in Inputs \cup {"none"} /\ job[j].saved \in BOOLEAN
       /\ job[j].pc = "settle" => job[j].result \in DOMAIN Settlement /\ job[j].step \in DOMAIN Settlement[job[j].result]

\* The result an input may leave the inbox with.
HasResult(i) == transcript[i] # "none" \/ v3[i] = "started" \/ content[i] # "speech"

\* Speech is gone from the inbox, or its claim is closed for good, only when an
\* article of it is stored or a V3 run has it: whatever fails, nobody's words
\* are lost (main, completeWithArticleOnly).
NothingIsLost == \A i \in Inputs : (i \notin inbox \/ claim[i].state = "completed") => HasResult(i)

\* A second draft of an input needs a lease that ran out: a job that still
\* answers for its claim never gives an input back after it may have published
\* (main's catch block against publishDraft).
OneDraftPerLease == \A i \in Inputs : drafts[i] <= 1 + expiries[i]

\* Two runs never work on one input, so dispatch and schedule may overlap
\* (handleMiningClaim, docs/e2e-acceptance-runbook.md:151-155).
OneWorker ==
  \A j, k \in Jobs : j # k /\ job[j].input = job[k].input /\ job[j].input # "none"
    => job[j].pc = "next" \/ job[k].pc = "next"

\* An input the Worker marked for V3 never gets a legacy draft as well,
\* whichever answers were lost (processV3HandoffClaim fails closed).
NeverBothRoutes == \A i \in Inputs : v3[i] # "off" => drafts[i] = 0 /\ transcript[i] = "none"

\* The App is told of an article only after the article is stored, although the
\* reports are not fenced by the claim (updateStatus against saveArticleTranscript).
ReportedIsStored == \A i \in Inputs : status[i] \in {"COMPLETED", "DRAFT_FAILED"} => transcript[i] # "none"

\* Whatever is said to be done is done: in the inbox, in the claims and to the App.
DoneIsDone == TypeOK /\ NothingIsLost /\ ReportedIsStored

\* Every input comes to its result although claims of dead jobs stand in the
\* way until their lease runs out (the schedule of mining-job.yml, the lease).
EveryInputServed == \A i \in Inputs : <>[](HasResult(i) /\ (content[i] = "speech" \/ CleanupInvalid => i \notin inbox \/ claim[i].state = "completed"))
==============================================================================
