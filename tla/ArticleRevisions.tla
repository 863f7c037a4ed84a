--------------------------- MODULE ArticleRevisions ---------------------------
(***************************************************************************)
(* Voice revisions of a published article: the App posts a spoken request  *)
(* against the version it shows, the Worker stores it in D1 and R2 and     *)
(* dispatches a GitHub job; the job rewrites the article, has the Worker   *)
(* append the child version to the line of EditorialVersions, rewrites the *)
(* WeChat draft in place, and reports. The request row, its R2 objects,    *)
(* the prepared article, the transcript, the recording's row and the       *)
(* WeChat draft are written one after the other; handlers and jobs die,    *)
(* answers are lost, dispatches are lost or superseded. The user's choices *)
(* about a version (adopted, not adopted) race the same versions.          *)
(* infra/worker/src/index.ts (createArticleFeedback, createArticleRevision,*)
(* createArticleRevisionVersion, updateArticleRevisionStatus),             *)
(* infra/mining/src/index.ts (processVersionedRevisionRequest).            *)
(***************************************************************************)
EXTENDS EditorialVersions

CONSTANTS
  Requests,    \* X-Revision-Request-Id of the App's revision requests
  Events,      \* client_event_id of the App's choices
  Choices,     \* what the user can say of a version: adopted, not_adopted
  Handlers,    \* requests of the App the Worker may be serving at once
  MaxFaults    \* bound: deaths, failed writes, lost answers, other jobs

ASSUME RevisionsOK ==
  MaxFaults \in Nat /\ Requests \subseteq Sources /\ Requests \cap Keys = {} /\ "none" \notin Events

VARIABLES
  requests,    \* article_revision_requests: status, parent and child
  artifacts,   \* requests whose audio and contract are in R2
  prepared,    \* the .prepared.json sidecar
  feedback,    \* feedback[e]: the article_feedback_events row
  pending,     \* ArticleFeedbackEventStore of the phone
  confirmed,   \* choices the phone saw confirmed
  transcript,  \* the R2 transcript: version, text and processingStage
  draft,       \* the text the WeChat draft shows; "none": there is no draft
  recording,   \* recordings: processing_stage and article_content
  handler,     \* handler[h]: a request in the Worker
  waiting,     \* the dispatched job that waits for the one under way
  job,         \* the job under way
  faults

app == <<feedback, pending, confirmed>>
stores == <<requests, artifacts, prepared>>
published == <<transcript, draft, recording>>
vars == <<editorial, app, stores, published, handler, waiting, job, faults>>

Stages == {"COMPLETED", "ASR", "REWRITING", "PUBLISHING", "ARTICLE_READY", "DRAFTING", "DRAFT_FAILED", "REVISION_FAILED"}
NoRequest == [status |-> "none", parent |-> "none", child |-> "none", failed |-> FALSE]
NoHandler == [pc |-> "idle", on |-> "initial", id |-> "none", choice |-> "none", replay |-> FALSE]
NoJob == [pc |-> "idle", id |-> "none", text |-> "none", restored |-> FALSE, failed |-> FALSE]

\* The workflow published the first version, with a draft or without one.
Init ==
  /\ EditorialInit
  /\ requests = [r \in Requests |-> NoRequest]
  /\ artifacts = {}
  /\ prepared = [r \in Requests |-> "none"]
  /\ feedback = [e \in Events |-> <<>>]
  /\ pending = [v \in Ids |-> [c \in Choices |-> "none"]]
  /\ confirmed = [v \in Ids |-> [c \in Choices |-> 0]]
  /\ transcript = [id |-> "initial", text |-> Latest.text, stage |-> "COMPLETED"]
  /\ draft \in {Latest.text, "none"}
  /\ recording = [stage |-> "COMPLETED", text |-> Latest.text]
  /\ handler = [h \in Handlers |-> NoHandler]
  /\ waiting = "none" /\ job = NoJob /\ faults = 0

Outcomes == {"done", "lost", "failed"}
Costs(o) == faults' = faults + (IF o = "done" THEN 0 ELSE 1) /\ faults' <= MaxFaults

At(h, pc) == handler[h].pc = pc
Goto(h, pc) == handler' = [handler EXCEPT ![h].pc = pc]
Becomes(h, r) == handler' = [handler EXCEPT ![h] = r]
Leave(h) == handler' = [handler EXCEPT ![h] = NoHandler]
Arrives == calls < MaxCalls /\ calls' = calls + 1
ServerKeeps == UNCHANGED <<editorial, published, waiting, job>>
Arrived == UNCHANGED <<versions, stage, moves, records, producer, published, waiting, job>>

-----------------------------------------------------------------------------
(* Choices: submitAndConfirmArticleFeedback and createArticleFeedback.     *)

\* getOrCreatePending: a choice not yet confirmed keeps its id.
EventFor(e, v, c) ==
  IF pending[v][c] # "none" THEN e = pending[v][c]
  ELSE feedback[e] = <<>> /\ \A w \in Ids, d \in Choices : pending[w][d] # e

\* The existing event answers; otherwise the version must be the latest one.
Choose(h) ==
  /\ At(h, "idle") /\ Arrives
  /\ \E e \in Events, v \in versions, c \in Choices :
       /\ EventFor(e, v.id, c)
       /\ \A g \in Handlers : handler[g].id # e
       /\ pending' = [pending EXCEPT ![v.id][c] = e]
       /\ LET sent == [NoHandler EXCEPT !.on = v.id, !.id = e, !.choice = c] IN
          \/ feedback[e] # <<>> /\ Becomes(h, [sent EXCEPT !.pc = "chosen"])
          \/ feedback[e] = <<>> /\ v = Latest /\ Becomes(h, [sent EXCEPT !.pc = "insertChoice"])
          \/ feedback[e] = <<>> /\ v # Latest /\ UNCHANGED handler
  /\ UNCHANGED <<feedback, confirmed, stores, faults>> /\ Arrived

\* Seeded fault: the INSERT trusts the version read before it.
InsertsUnchecked(v) == TRUE

\* INSERT ... WHERE ? = (SELECT id ... ORDER BY version_no DESC LIMIT 1).
StillLatest(v) == v = Latest.id

InsertChoice(h) ==
  LET e == handler[h].id IN
  /\ At(h, "insertChoice")
  /\ \/ StillLatest(handler[h].on) /\ feedback' = [feedback EXCEPT ![e] = <<handler[h].on, handler[h].choice>>] /\ Goto(h, "chosen")
     \/ ~ StillLatest(handler[h].on) /\ Leave(h) /\ UNCHANGED feedback
  /\ UNCHANGED <<pending, confirmed, stores, faults>> /\ ServerKeeps

\* The phone gets the answer and marks the choice completed.
ConfirmChoice(h) ==
  LET v == handler[h].on
      c == handler[h].choice
  IN
  /\ At(h, "chosen")
  /\ pending' = [pending EXCEPT ![v][c] = IF @ = handler[h].id THEN "none" ELSE @]
  /\ confirmed' = [confirmed EXCEPT ![v][c] = @ + 1]
  /\ Leave(h)
  /\ UNCHANGED <<feedback, stores, faults>> /\ ServerKeeps

-----------------------------------------------------------------------------
(* Requests: createArticleRevision.                                        *)

\* Seeded fault: only a request that never ran is dispatched again.
ReplaysQueued(row) == row.status = "queued"

\* A repeated request is dispatched again unless its version is on its way or done.
Replays(row) == row.status \in {"queued", "wechat_failed"}

\* The App posts a request about a version. The Worker reads the latest version
\* and the row of the request: the same request is replayed, one about an older
\* version or with another payload is refused, a new one goes on.
Submit(h) ==
  /\ At(h, "idle")
  /\ \E r \in Requests, v \in versions :
       LET row == requests[r]
           sent == [NoHandler EXCEPT !.on = v.id, !.id = r]
       IN
       \/ /\ row # NoRequest /\ row.parent = v.id /\ Replays(row)
          /\ Becomes(h, [sent EXCEPT !.pc = "store", !.replay = TRUE])
          /\ UNCHANGED calls
       \/ /\ row = NoRequest /\ v = Latest /\ Arrives
          /\ Becomes(h, [sent EXCEPT !.pc = "insert"])
  /\ UNCHANGED <<app, stores, faults>> /\ Arrived

\* INSERT ... WHERE NOT EXISTS a child, and the table's UNIQUE constraints.
RequestInsertable(r, parent) ==
  requests[r] = NoRequest /\ ~ HasChild(parent) /\ \A q \in Requests : requests[q].parent # parent

InsertRequest(h) ==
  LET r == handler[h].id
      parent == handler[h].on
  IN
  /\ At(h, "insert")
  /\ \/ /\ RequestInsertable(r, parent)
        /\ requests' = [requests EXCEPT ![r] = [NoRequest EXCEPT !.status = "queued", !.parent = parent]]
        /\ Goto(h, "store")
     \/ ~ RequestInsertable(r, parent) /\ Leave(h) /\ UNCHANGED requests
  /\ UNCHANGED <<app, artifacts, prepared, faults>> /\ ServerKeeps

\* persistArticleRevisionArtifacts: the audio, then the contract. A request whose
\* artifacts are missing has no job, and only its repetition stores them.
StoreArtifacts(h) ==
  /\ At(h, "store")
  /\ \/ artifacts' = artifacts \cup {handler[h].id} /\ Goto(h, "dispatch") /\ UNCHANGED faults
     \/ Costs("failed") /\ Leave(h) /\ UNCHANGED artifacts
  /\ UNCHANGED <<app, requests, prepared>> /\ ServerKeeps

\* markRecordingRevisionQueued, unless it is a replay, and waitUntil of
\* triggerGitHubAction, whose failure is only logged. GitHub keeps one waiting
\* run of the concurrency group; a newer dispatch replaces it.
Dispatch(h) ==
  /\ At(h, "dispatch") /\ Leave(h)
  /\ recording' = IF handler[h].replay THEN recording ELSE [recording EXCEPT !.stage = "REWRITING"]
  /\ \/ waiting' = handler[h].id /\ UNCHANGED faults
     \/ Costs("lost") /\ UNCHANGED waiting
  /\ UNCHANGED <<app, stores, editorial, transcript, draft, job>>

\* The Worker dies, or the phone gives up, in the middle of a request.
Drop(h) ==
  /\ ~ At(h, "idle") /\ Costs("lost") /\ Leave(h)
  /\ UNCHANGED <<app, stores>> /\ ServerKeeps

HandlerNext(h) ==
  \/ Choose(h) \/ InsertChoice(h) \/ ConfirmChoice(h)
  \/ Submit(h) \/ InsertRequest(h) \/ StoreArtifacts(h) \/ Dispatch(h) \/ Drop(h)

-----------------------------------------------------------------------------
(* The jobs: one of the concurrency group vibepub-mining at a time.        *)

JobAt(pc) == job.pc = pc
JobTo(pc) == job' = [job EXCEPT !.pc = pc]
End == job' = NoJob
HandlersKeep == UNCHANGED <<app, artifacts, producer, calls, moves, records, handler>>

\* updateStatus of the job, after the write it reports; a failure is only logged.
Report(o, stage_, text_) ==
  recording' = IF o = "done" THEN [stage |-> stage_, text |-> text_] ELSE recording

\* An upload's job takes the place of the one that waits.
OtherDispatch ==
  /\ waiting # "other" /\ Costs("lost")
  /\ waiting' = "other"
  /\ UNCHANGED <<editorial, app, stores, published, handler, job>>

StartJob ==
  /\ JobAt("idle") /\ waiting # "none"
  /\ waiting' = "none"
  /\ job' = [NoJob EXCEPT !.pc = IF waiting = "other" THEN "other" ELSE "load", !.id = waiting]
  /\ UNCHANGED <<editorial, app, stores, published, handler, faults>>

JobKeeps == UNCHANGED <<editorial, app, stores, published, handler, waiting>>
EndOther == JobAt("other") /\ End /\ JobKeeps /\ UNCHANGED faults

\* loadPreparedRevision finds the article an earlier run prepared.
Restored(r) == prepared[r] # "none"

Load ==
  /\ JobAt("load")
  /\ \/ /\ Restored(job.id)
        /\ job' = [job EXCEPT !.pc = "version", !.text = prepared[job.id], !.restored = TRUE,
                               !.failed = transcript.stage = "DRAFT_FAILED"]
        /\ UNCHANGED recording
     \/ ~ Restored(job.id) /\ JobTo("prepare") /\ Report("done", "REWRITING", recording.text)
  /\ HandlersKeep /\ UNCHANGED <<versions, stage, requests, prepared, transcript, draft, waiting, faults>>

\* The article is rewritten and the sidecar stored; any of it may fail.
Prepare ==
  /\ JobAt("prepare")
  /\ \E t \in Texts, o \in Outcomes :
       /\ Costs(o)
       /\ prepared' = IF o = "failed" THEN prepared ELSE [prepared EXCEPT ![job.id] = t]
       /\ job' = [job EXCEPT !.pc = IF o = "done" THEN "version" ELSE "fail", !.text = IF o = "done" THEN t ELSE @]
  /\ HandlersKeep /\ UNCHANGED <<versions, stage, requests, published, waiting>>

-----------------------------------------------------------------------------
(* createArticleRevisionVersion and updateArticleRevisionStatus. Their     *)
(* callers are the jobs, one at a time; the versions they compete for are  *)
(* those of EditorialVersions, whose constraints decide in the batch.      *)

\* Seeded fault: any child of the parent is taken for the revision's own.
AnyChild(r, text) == HasChild(requests[r].parent)

\* articleRevisionChildMatches.
OwnChild(r, text) == Has(r) /\ VersionOf(r).text = text

\* The batch's update of the request, and ensureArticleRevisionProjection's.
Linked(r) ==
  requests' = [requests EXCEPT ![r].child = r,
                 ![r].status = IF @ = "queued" THEN "wechat_pending" ELSE @]

\* The Worker's answers to POST .../version and what each leaves behind.
VersionCreated(r, text) ==
  LET parent == requests[r].parent IN
  /\ ~ HasChild(parent) /\ Latest.id = parent
  /\ versions' = versions \cup {Version(r, Latest.no + 1, parent, text)}
  /\ stage' = [stage EXCEPT ![r] = NewStage("content_frozen")]
  /\ Linked(r)
  /\ recording' = [stage |-> "PUBLISHING", text |-> text]

VersionReplayed(r, text) ==
  /\ HasChild(requests[r].parent) /\ OwnChild(r, text)
  /\ Linked(r)
  /\ recording' = [recording EXCEPT !.text = IF Latest.id = r THEN text ELSE @]
  /\ UNCHANGED <<versions, stage>>

VersionRefused(r, text) ==
  /\ HasChild(requests[r].parent) /\ ~ OwnChild(r, text)
  /\ UNCHANGED <<versions, stage, requests, recording>>

PostVersion ==
  LET r == job.id IN
  /\ JobAt("version")
  /\ \/ /\ VersionCreated(r, job.text) \/ VersionReplayed(r, job.text)
        /\ \/ UNCHANGED faults /\ JobTo(IF job.restored /\ job.failed THEN "prior" ELSE "ready")
           \/ Costs("lost") /\ JobTo("fail")
     \/ VersionRefused(r, job.text) /\ JobTo("fail") /\ UNCHANGED faults
  /\ HandlersKeep /\ UNCHANGED <<prepared, transcript, draft, waiting>>

\* A completed request never regresses.
StatusAfter(r, status) == IF requests[r].status = "completed" THEN "completed" ELSE status

PostStatus(from, status, reported, next, failure) ==
  LET r == job.id IN
  /\ JobAt(from)
  /\ \E o \in Outcomes :
       /\ Costs(o)
       /\ requests' = IF o = "failed" THEN requests
                      ELSE [requests EXCEPT ![r].status = StatusAfter(r, status), ![r].failed = StatusAfter(r, status) = "wechat_failed"]
       /\ IF next = "end" \/ (o # "done" /\ failure = "end") THEN End
          ELSE JobTo(IF o = "done" THEN next ELSE failure)
       /\ IF reported = "none" THEN UNCHANGED recording ELSE Report(o, reported, job.text)
  /\ HandlersKeep /\ UNCHANGED <<versions, stage, prepared, transcript, draft, waiting>>

PostPrior == PostStatus("prior", "wechat_failed", "none", "ready", "end")

\* uploadTranscript and the report after it; when the upload fails the revision fails.
SaveTranscript(from, stage_, next) ==
  /\ JobAt(from)
  /\ \E o \in Outcomes, reported \in {"done", "failed"} :
       /\ Costs(reported) /\ (o # "done" => reported = "failed")
       /\ transcript' = IF o = "failed" THEN transcript ELSE [id |-> job.id, text |-> job.text, stage |-> stage_]
       /\ JobTo(IF o = "done" THEN next ELSE "fail")
       /\ Report(reported, stage_, job.text)
  /\ HandlersKeep /\ UNCHANGED <<versions, stage, requests, prepared, draft, waiting>>

SaveReady == SaveTranscript("ready", "ARTICLE_READY", "pending")
PostPending == PostStatus("pending", "wechat_pending", "DRAFTING", "draft", "fail")

\* updateDraft, then the readback compared with the article.
AfterDraft(o) == IF o = "done" THEN "complete" ELSE "notDrafted"

UpdateDraft ==
  /\ JobAt("draft")
  /\ \/ draft = "none" /\ JobTo("complete") /\ UNCHANGED <<draft, faults>>
     \/ /\ draft # "none"
        /\ \E o \in Outcomes :
             /\ Costs(o)
             /\ draft' = IF o = "failed" THEN draft ELSE job.text
             /\ JobTo(AfterDraft(o))
  /\ HandlersKeep /\ UNCHANGED <<versions, stage, requests, prepared, transcript, recording, waiting>>

SaveDraftFailed == SaveTranscript("notDrafted", "DRAFT_FAILED", "postFailed")
PostFailed == PostStatus("postFailed", "wechat_failed", "none", "end", "end")
SaveCompleted == SaveTranscript("complete", "COMPLETED", "postCompleted")
PostCompleted == PostStatus("postCompleted", "completed", "none", "end", "end")

\* Any other failure: the article stays, the recording says REVISION_FAILED.
FailRevision ==
  /\ JobAt("fail") /\ End
  /\ \E o \in {"done", "failed"} : Costs(o) /\ Report(o, "REVISION_FAILED", recording.text)
  /\ HandlersKeep /\ UNCHANGED <<versions, stage, requests, prepared, transcript, draft, waiting>>

\* The runner dies; writing and image services may fail the revision.
Die == ~ JobAt("idle") /\ Costs("lost") /\ End /\ JobKeeps
RewriteFails == JobAt("prepare") /\ Costs("failed") /\ JobTo("fail") /\ JobKeeps

JobSteps ==
  \/ StartJob \/ EndOther \/ Load \/ Prepare \/ PostVersion \/ PostPrior
  \/ SaveReady \/ PostPending \/ UpdateDraft \/ SaveDraftFailed \/ PostFailed
  \/ SaveCompleted \/ PostCompleted \/ FailRevision

JobNext == JobSteps \/ OtherDispatch \/ Die \/ RewriteFails

Next ==
  \/ EditorialNext /\ UNCHANGED <<app, stores, published, handler, waiting, job, faults>>
  \/ \E h \in Handlers : HandlerNext(h)
  \/ JobNext

Spec == Init /\ [][Next]_vars

\* The client repeats its request with the payload it first sent, the Worker
\* serves what it gets, and GitHub runs what waits.
RepeatRequest(h, r) ==
  /\ At(h, "idle") /\ requests[r] # NoRequest /\ Replays(requests[r])
  /\ Becomes(h, [NoHandler EXCEPT !.pc = "store", !.on = requests[r].parent, !.id = r, !.replay = TRUE])
  /\ UNCHANGED <<app, stores, faults>> /\ ServerKeeps

Serve(h) ==
  \/ InsertChoice(h) \/ ConfirmChoice(h) \/ InsertRequest(h) \/ StoreArtifacts(h) \/ Dispatch(h)

FairSpec ==
  /\ Spec
  /\ \A h \in Handlers : WF_vars(Serve(h))
  /\ \A h \in Handlers, r \in Requests : SF_vars(RepeatRequest(h, r))
  /\ WF_vars(JobSteps)

-----------------------------------------------------------------------------
TypeOK ==
  /\ EditorialTypeOK
  /\ requests \in [Requests -> [status : {"none", "queued", "wechat_pending", "completed", "wechat_failed"},
                                parent : Ids \cup {"none"}, child : Requests \cup {"none"}, failed : BOOLEAN]]
  /\ artifacts \subseteq Requests
  /\ prepared \in [Requests -> Texts \cup {"none"}]
  /\ transcript \in [id : Ids, text : Texts, stage : Stages]
  /\ draft \in Texts \cup {"none"}
  /\ recording \in [stage : Stages, text : Texts]
  /\ waiting \in Requests \cup {"none", "other"}
  /\ faults \in 0 .. MaxFaults

\* A version is revised by at most one request, and a request knows its child
\* exactly when the child exists (article_revision_requests, the batch of
\* createArticleRevisionVersion): no crash leaves a version nobody owns.
ChildHasOwner ==
  /\ \A r \in Requests, q \in Requests :
       requests[r] # NoRequest /\ requests[r].parent = requests[q].parent => r = q
  /\ \A r \in Requests :
       /\ Has(r) <=> requests[r].child = r
       /\ Has(r) => VersionOf(r).parent = requests[r].parent /\ requests[r].status # "queued"

\* The versions of an article are one line, each stage explained by its moves,
\* every answer about a version is in the tables, and the versions that requests
\* ask for have their owner, whoever writes at once.
VersionsSound == TypeOK /\ StraightLine /\ MovesExplainStage /\ AnswersAreStored /\ ChildHasOwner

\* What WeChat and the transcript show was a stored version first: "child
\* Article Version before WeChat publishing" (infra/worker/README.md:18), and
\* a repeated job never rewrites it differently (the prepared sidecar).
ShownIsVersioned ==
  /\ Has(transcript.id) /\ transcript.text = VersionOf(transcript.id).text
  /\ recording.text \in {v.text : v \in versions}
  /\ draft # "none" => draft \in {v.text : v \in versions}

\* A transcript that says COMPLETED is backed by the draft: losing the answer
\* of WeChat leaves DRAFT_FAILED or ARTICLE_READY, never COMPLETED.
CompletedIsDrafted ==
  transcript.stage = "COMPLETED" /\ draft # "none" => draft = transcript.text

\* A choice is recorded only about the version that is then the latest, however
\* long its request was under way (the WHERE of createArticleFeedback).
ChoiceOnCurrent ==
  [][\A e \in Events : feedback[e] = <<>> /\ feedback'[e] # <<>> => feedback'[e][1] = Latest.id]_vars

\* A choice the user repeats because its answer was lost is recorded once
\* (ArticleFeedbackEventStore and client_event_id).
ChoiceOnce ==
  \A v \in Ids, c \in Choices :
    Cardinality({e \in Events : feedback[e] = <<v, c>>}) <= confirmed[v][c] + 1

\* The user's choice is recorded once, about what the user was shown.
ChoicesAreSound == []ChoiceOnce /\ ChoiceOnCurrent

\* A completed request stays completed, also when a late or repeated dispatch
\* runs its job once more (updateArticleRevisionStatus).
CompletedStays ==
  [][\A r \in Requests : requests[r].status = "completed" => requests'[r].status = "completed"]_vars

\* What is published stays published, from a version that was stored and in the
\* draft WeChat has, although jobs are repeated, superseded and die.
PublishedIsStored == [](ShownIsVersioned /\ CompletedIsDrafted) /\ CompletedStays

\* Left with a version and without a job: a repeated request is not dispatched
\* again while it is wechat_pending.
LeftPending(r) == requests[r].status = "wechat_pending" /\ job.id # r /\ waiting # r

\* The version was taken by an agent's revision meanwhile.
Overtaken(r) == HasChild(requests[r].parent) /\ ~ Has(r)

\* A request that the client keeps repeating is completed, or left pending, or
\* overtaken: losing dispatches, superseding jobs, deaths and failures of WeChat
\* only delay it.
EventuallyPublished ==
  \A r \in Requests :
    requests[r] # NoRequest ~> requests[r].status = "completed" \/ LeftPending(r) \/ Overtaken(r)
===============================================================================
