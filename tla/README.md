# VibePub: verification of the publishing pipeline

VibePub turns a recording made on an Android phone into a published article: the
App uploads audio or text, a mining job transcribes it, five agents write,
review, illustrate, lay out and publish it, and the App follows the run and may
retry or cancel it. These modules model the protocols that keep that pipeline
right when requests race, executions die and answers get lost. Paths below are
relative to the repository; `worker/` abbreviates `infra/worker/src/`.

## 1. The system and its parts

| part | code | state | operations |
|---|---|---|---|
| Publication projection | `worker/publicationProjection.ts`, `infra/worker/migrations/0011_*.sql` | D1: one `publication_runs` row per run, its append-only events, its action ledger | create a run; apply a workflow step's transition; apply the App's retry, cancel, automatic resume |
| Five-agent Workflow | `worker/fiveAgentPublishing.ts` | what the Workflow runtime remembers of finished steps; R2 artifacts; outbox | start route, text phases, visual phase, formatting, visual QA, draft sync and verification, holds and their reconciliation |
| Coordinator | `worker/editorialAgents.ts` | one Durable Object per run: run state and revision, artifact receipts, call ledger, start ledger | prepare and complete a call, prepare and complete an artifact, record a state, confirm or hold a start, recover a writing failure |
| Image adapter | `infra/image-generation-adapter/src/index.ts` | one operation object per image: claims; R2: intents, results | execute, reconcile |
| WeChat adapter | `infra/wechat-publishing-adapter/src/index.ts` | one operation object per operation: claims, draft map; token and upload cache; R2 intents, results | upload, add, update and read back a draft, reconcile |
| Editorial pipeline | `worker/editorialPipeline.ts`, `editorialContracts.ts` | D1: article versions, reviews, version states | create a version, a review; transition a version |
| Article feedback | `worker/index.ts:1557-2135` | D1: feedback, revisions | create a revision, update its status |
| Mining claims | `worker/index.ts:2669-2830`, `infra/mining/src` | D1: claims with a lease, recording status | claim, complete, release, report a status |
| Mining handoff | `worker/miningV3Handoff.ts`, `infra/mining/src` | R2 markers and transcripts | hand a transcript over, prove that the run started |
| Accounts, sessions | `worker/index.ts:563-1068` | D1: users, sessions, invites | register, log in, refresh, revoke, reset |
| Uploads, texts, deletion | `worker/index.ts:1154-1435, 2412-2463` | R2 objects, D1 recordings | upload, submit, delete |
| Android requests | `AuthenticatedHttpClient.kt`, `AppPreferences` | the session's tokens | authenticated call, refresh under a mutex, session change |
| Android recordings | `RecordingUploadCoordinator.kt`, `UploadWorker`, `SyncWorker`, `data/RecordingDao` | Room rows, WorkManager queue | enqueue, upload, sync, upsert the better state |
| Writing, review agents; mining media | `infra/writing-agent`, `infra/review-agent`, `infra/mining/src` | none | stateless calls to models and media services |
| Recorder, import, screens; build and scripts | `android/`, `scripts/`, `.github/`, `infra/staging` | device and tooling | no protocol of the running system |

**How they interact.** The App talks to the Worker over HTTP. The Worker starts
a Workflow and tells the Coordinator. The Workflow executes durable steps; each
of them is executed again after an error, a timeout or a crash, up to three
times, and an older execution may still be running. A step that has a side
effect writes an intent into the Coordinator's call ledger, asks an adapter, and
writes the outcome back. The adapter keeps claims of its own and immutable
intents and results in R2. Every change of a run's state is written to D1 first
(by comparing a revision) and to the Coordinator second; no transaction spans
the two, R2, or a provider. When nobody can tell whether a side effect happened,
the run is *held* (`needs_action` with `external_side_effect_unknown`) until a
read-only reconciliation finds evidence.

**What makes each part correct.**

- *Projection*: the log is complete and duplicate-free; a success answer is
  durable; a row read several awaits ago is not written over a newer one; a hold
  is left only through reconciliation; TypeScript and SQL guards agree.
- *Calls*: a paid side effect happens at most once; attempts are bounded and
  ordered; the three ledgers never contradict one another; a failure is recorded
  only when it is one.
- *Visual phase and Coordinator*: the Coordinator never runs ahead of D1; a ready run
  has every artifact; the ledgers come together again; a hold with evidence ends;
  a ready run stays ready; a granted retry resumes.
- *Start*: one transcript per recording; a start is confirmed only for a Workflow
  that exists; a lost confirmation is reconciled, not repeated.
- *Text phases*: the Coordinator follows D1 by at most one entry; an agent is asked
  once per attempt; a frozen article rests on receipts and a passing review.
- *WeChat*: one draft, announced in both ledgers before it is written, and found
  again after a lost answer; a ready run has a passing read-back; every request about
  one attempt hears one result; the account is blamed only when WeChat refused it.
- *Versions and revisions*: history is a straight line; what is published was a stored
  version first; a choice is about the version the user was shown.
- *Claims*: one job works on an input; nothing leaves the inbox without a result; an
  input never takes both routes; a lease yields one draft at most.
- *Sessions*: a request is repeated only for the login it was sent for; a login is
  cleared only when the server refused it.
- *Recordings*: a deletion stays; what is shown as uploaded was stored; a finished
  article reaches the phone.

**The hard behaviours** are listed one by one, each with its line and the
properties that cover it, under `hazards` in `PROJECT.json`: interleavings on one
row, stale revisions, repeated steps, answers lost after an effect, deaths
between two stores, evidence read before the transaction that uses it, keys that
name too little to be used twice, and rules written twice in two languages.

## 2. What is modelled

The modules follow a run from the phone to the draft. `MC` modules hold nothing but
the instances of §3; `...Proofs` modules hold the proofs of §4.

### Publication projection: `PublicationStates`, `PublicationProjection`, `PublicationLedger`

`PublicationStates` has the vocabulary the publication modules share: states,
TypeScript's `ALLOWED_PROJECTION_TRANSITIONS`, the trigger's transitions, the
progress per state. `PublicationProjection` is one run in D1. `run`, `events` and
`actions` are the three tables; `request[r]` is an HTTP request of the App
between its reads and its batch, `task[w]` an execution of a workflow step. D1
executes a batch atomically, so each batch is one action (`CommitStep`,
`CommitStepFails`, `CommitAction`, `CommitActionAborts`), and each read before it
(`ReadForStep`, `Lookup`, `ReadForAction`, `SettleConflict`) is another. The
triggers and UNIQUE constraints of migration 0011 are the operators
`UpdateAccepted`, `EventInsertAccepted`, `ActionInsertAccepted`. `RestartStep`
repeats a step whose outcome was lost, `DropRequest` loses an HTTP answer, and
`answers` is a history of the successes told. What is written is a constant, the
table `Steps` of [key, kind, target, same, code], so that the theorems hold for
any pipeline.

`PublicationLedger` is what callers may rely on: an idempotency key takes effect
at most once, atomically, by a legal move, and is acknowledged only after it took
effect. `ImplementsLedger` is the refinement.

### One image call: `VisualCalls`, `SideEffect`

From `runVisualAdapterCall` to the provider. `call` is the Coordinator's ledger,
`claim` the operation object's, `intent` and `result` are R2, `requests` and
`images` the provider. A `worker` is an execution of the visual step; a `visit`
is a request inside the adapter, which goes on when its caller is gone. Each
await another party can get between is a step: collecting evidence from R2
(`CollectEvidence`) precedes the transaction that repairs the claims with it
(`Claim`), the intent is put before the provider is asked, the result is put
before the claim is settled. Workers and visits die anywhere (`WorkerDies`,
`VisitDies`), answers get lost (`LoseAnswer`), the run may be cancelled.
The adapter may turn a request away unread (`RefuseRequest`: 401, 403, 503 before the
operation object is reached); `refused` remembers in which modes it did, for an attempt
to be made or only asked about, and no step reads it.

`SideEffect` is the abstract promise, tries that open and close and at most one
effect; `ImplementsSideEffect` maps the ledgers to it.

### The visual phase: `VisualRecovery`

`runVisualProductionPhase` with both ledgers: plan, slots, QA, the hold
(`visualHold`), the failure (`visualFailure`), and re-entry
(`resumeVisualReconciliationHold`). `run` and `log` are D1, `coordinator` and
`receipt` the Coordinator, and `evidence[u]` stands for everything
`VisualCalls` models of the call of unit u: nothing, open, known, failed. A
worker's `pc` is its position; `begin` and `write` read and write D1, `record`
the Coordinator, and `mark`, `requeue`, `return`, `repair` are the four writes of
a resumption. The phase numbers 11 to 20 are the code's. `Faults`,
`CrashPoints` and `MaxFaults` choose what goes wrong where; `faults` counts it by kind,
a second execution beside a living one (`Starts`) among them, so that a property can say
for which faults it holds (`OnlyAnswersLost`).

### The start of a run: `RunStart`

`persistTranscript`, the start route, `startFiveAgentWorkflow`, the Coordinator's
start ledger and the first steps of the Workflow. `transcripts` are the canonical
transcripts under the handoff's prefix, `d1` the publication row with its start
events, `ledger`, `starts`, `evidence` and `receipts` the Coordinator's four start
tables, `brief` the artifact that is stored before the Workflow is created, `wf` the
instance. `req[r]` is a handoff request: `Begin` to `Prove` are its reads and writes in
the code's order, and each write comes in three outcomes (done, done with the
answer lost, failed). The two holds, for a brief and for a creation nobody can
vouch for, are taken in the ledger first and in D1 second, and left by
a receipt and three events (`PrepareReconciliation`, `WriteEvent`,
`FinalizeReconciliation`). The Workflow looks
three times within fifteen seconds for its own confirmation (`Confirm`, `GiveUp`); the
first of the project's two timing assumptions is that a request that lives writes the
confirmation sooner.

### The text half: `TextWorkflow`

All sixteen steps of `FiveAgentPublishingWorkflow.run` up to the frozen article, as
one table (`Steps`) with the state, the artifact and the call of each. `d1` and `main` are
the two ledgers with their events, `kept` the outbox, `calls` and `asks` the two ends of
a call to an agent. An artifact goes through the code's stages: verify the exact set, prepare in the
outbox, store in R2 and the mirror, project in D1, write the receipt; a
call is opened in the Coordinator, sent, closed. The engine repeats a failed step
three times with the revisions the instance remembers (`wf[i].d1`, `wf[i].main`),
and a restart of the whole
instance (`EngineRestart`) is refused by its first guard once the run has moved. `HoldD1`/`HoldMain`
and `FailD1`/`FailMain` are the two writes of a hold and of a failure. The App's retry
of a writing failure starts a second instance (`"recovery"`), whose draft has an
identity of its own.

### The WeChat half: `WechatDraft`

`runWechatDraftPhase` with the publishing adapter's operation object. Artifacts are
kept per execution scope: scope 0 is the first epoch, and a failed read-back or a
repaired account opens a fresh one. `ops` holds per operation the attempts in the
Coordinator and what the adapter's claim says of each; `wechat` is the provider:
number of drafts, content, the adapter's draft map. The checkpoint before the first
write (`ensureWechatDraftSyncingCheckpoint`), the reconciliation of a write
by reading (`draft_identity_unresolved` when it cannot tell), and the three recordings
of the end (recording row, D1, Coordinator) are steps of their own. `Restart` is the
operator's restart, which enters `resumeWechatNeedsAction`; `EditDraft` is the author,
who may change the draft in WeChat at any time.

### Inside the publishing adapter: `WechatOperation`

The operation object of one article, which serves several requests of the Worker at a
time. A Durable Object's storage calls let nobody else in, its fetches and R2 calls do, so
an action is the code between two of the latter. `sent`, `claims`, `stored` and `told`
follow an attempt from the Worker through `wechat-claim` to the R2 result and the answer
(`Ask`, `Look`, `LookForResult`, `StoreResult`); `generation`, `intents`, `evidence` and
`cache` are the token and its attempts, up to three per generation (`Attempt`, `Replay`,
`TokenAnswered`, `LookForToken`, `PutToken`); `asks` and `effects` count what WeChat was
asked for and did. `Provider` is the call with a token: done, answered or not, refused
for the token (which is refreshed once), refused for good. `Die` ends a request at any
of its awaits. `TokenEnds` and `EditDraft` are WeChat and the author. Time is left out:
an intent may be taken for stale by anybody who meets it.

### Mining jobs: `MiningJobs`

`main` of the mining job against the Worker's claims. `claim[i]` is the row with owner
and lease; an expired one may be taken over and its old owner's writes are then
refused. An input takes the V3 route (marker, accept, status) or the legacy one
(transcript, draft, status); the table `Settlement` is the order of the four
settling writes per result. Each write has the outcomes done, lost and failed,
`Report` is the unfenced status report, and `Die` leaves a claim to its lease. The route
an accepted input then takes is `RunStart`. The second timing assumption is here: a job that
lives is done with an input before the lease of two hours ends (`worker/index.ts:124`; the
code renews no lease), so a lease expires under a dead job only. `OneDraftPerLease` and
`OneWorker` rest on it.

### Versions and revisions: `EditorialVersions`, `ArticleRevisions`

`EditorialVersions` is the editorial pipeline: `versions`, each with its `stage`,
`moves` and `records`, and producers whose calls carry idempotency keys; a number is
read (`Allocate`) before the insert that the UNIQUE constraints guard.
`ArticleRevisions` extends it with the App's revision of a published article:
request row, R2 artifacts, dispatch; GitHub's concurrency group (one job at work, one
waiting, a newer one supersedes it); the job with its prepared sidecar, the child
version, the draft rewritten in place, the transcript and the reports; and the user's
choices with the phone's store of pending ones.

### The phone: `PhoneSession`, `PhoneRecordings`

`PhoneSession` is `AuthenticatedHttpClient` against login, refresh, logout and
authentication: a worker's request takes a snapshot of the login, meets a 401, waits for
the mutex, refreshes or finds that another worker has, and is repeated once. Tokens
expire, sessions end at the server (revoked, refresh token expired or user disabled, which
`index.ts:677` answers alike) and the user logs out and in between any two steps.
`PhoneRecordings` extends it with one recording: a Room row per account, the upload
worker, the coroutine that marks the row, the sync worker with list and transcript, the
deletion here and at the server, the death of the process, and the server's row, audio,
claim and transcript. Somebody logs in first; a later login is a fault; the
first access token expires for free, but only under a request.

### Composition

`TextWorkflow` begins in the state `RunStart` ends in, `VisualRecovery` where
`TextWorkflow` ends (`content_frozen`) and `WechatDraft` where `VisualRecovery` ends
(`visual_ready`); `MiningJobs` hands to `RunStart`, and `ArticleRevisions` begins with
the article a run published. `WechatOperation` is what `WechatDraft` asks: there an
operation's attempt is one record that is open, then has one result; here that promise
(`ResultsSound`) is checked against the object's own interleavings. The three phase modules use the projection by its
promise: a D1 write either is a logged event at the next revision or fails
(`PublicationLedger`). `VisualRecovery` uses calls by theirs: a call's evidence only
goes from nothing to open to an outcome (`SideEffect`). `ArticleRevisions` and
`PhoneRecordings` contain the component below them and share its variables.

## 3. The runs

Several of the properties below are conjunctions of named parts; a module states and
explains each part separately, and TLC checks the conjunction. Type invariants are parts
of such a conjunction; those of the projection, of the calls and of the phone are proved
instead (§4).

| run | instance | what it shows |
|---|---|---|
| `publication_races` | 2 requests, 2 step executions, 1 action key, a writing failure and a hold, revision ≤ 5 | log and action ledger are complete and agree; TypeScript's and SQL's rules agree and comparing the revision suffices (`RulesAgree`); only reconciliation ends a hold; every batch is a step of `PublicationLedger` |
| `visual_calls` | 2 workers, 2 visits, 3 attempts | at most one image; the three ledgers agree, and a recorded failure is one unless its reconciliation was refused; refinement of `SideEffect` |
| `visual_recovery` | 2 workers, 2 slots, 2 faults of any kind at any place, retry and cancel | the Coordinator follows D1; no blind resumption; a ready run is complete and progress is kept; where only answers are lost the phase settles in both ledgers, fails only for a failure, and a first hold with evidence ends |
| `run_start` | 2 requests, 2 texts, 2 faults | two handoffs that overlap agree on one transcript; a start is called only what the stores prove; holds are for doubt only; a repeated start confirms the run or leaves a named hold |
| `text_workflow` | 1 run, both instances, 3 faults at any place | what is shown is backed by both ledgers; paid work is asked for once; a run nobody works on is so for a named cause; an accepted retry is taken up |
| `wechat_draft` | 1 run, 2 faults at any place, 4 holds | one draft, announced first, at most one late change after a cancellation; ready is proven; ledgers in step; every run settles but for the named states no restart leads out of |
| `wechat_operation` | 2 requests at a time, 1 read, 1 write, 3 attempts each, 2 faults | WeChat is asked for a token once per attempt, in order, and what is kept is what R2 holds; one result per attempt for all who ask; a write takes effect once over all attempts and refreshed tokens; the account is blamed for cause |
| `mining_jobs` | 2 jobs, 1 input of any content, clean-up on, 3 faults | nothing is lost, and nothing is reported that is not stored; one draft per lease; one worker per input; never both routes; every input is served |
| `article_revisions` | 2 producers, 1 key, 2 requests, 2 choices' events, 1 handler, 1 fault | versions are a straight line and explained by their moves; a version has its owner; what is published was stored; choices are sound; a repeated request is published, left pending or overtaken |
| `phone_recordings` | 2 accounts, 2 logins, 1 fault | a request is repeated for its own login only; what is shown is stored; a deletion stays; a login is cleared for cause; a finished article is shown |

Two more runs check one property each that a comment in the code states and the code
does not keep. They are the findings:

| run | what TLC finds |
|---|---|
| `text_workflow_receipt` | D1 logged an artifact and the Coordinator's receipt failed: every repetition compares the Coordinator's events with D1's and throws, so the receipt is never written, and the hold conflicts on its stale revision |
| `wechat_response_loss` | the receipt of the draft is lost once: the recovery replays it, finds no read-back, starts the phase again, and its checkpoint refuses a run past `visual_qa`; the run is held again at every recovery |

**Further divergences that need no run of their own**, each one change of a
configuration away (F is `worker/fiveAgentPublishing.ts`, D is
`docs/editorial-visual-publishing-pipeline.md`):

| to see it | what happens |
|---|---|
| `FailureIsKnown` in `VisualCalls.cfg` | a reconciliation that was merely refused (expired scope, missing configuration) is recorded as a final failure though the image may have been drawn (F:2438, D:444-446) |
| `ReadyIsFinal` in `VisualRecovery.cfg` | of two executions that finish together, the loser fails the run the winner made ready (F:2323) |
| `FailsForCause` in `VisualRecovery.cfg` | a death between the write of D1 and the Coordinator's: the next execution cannot write either, and fails a healthy run |
| `HoldEnds` without `~OnlyAnswersLost` | a death, or a lost reply, between the hold in D1 and the one in the Coordinator: re-entry looks at the Coordinator only (F:2680, D:455-461); with `CrashPoints = {"requeue"}` the guard F:2578 refuses a hold that is already marked |
| `HoldEnds` of any hold, not the first in its state | a second hold in the same state: the keys of the resumption events are taken (F:2591, comment F:2373-2374) |
| `RetryResumes` in `VisualRecovery.cfg` | the App's retry of a failed run moves D1 to `retrying`; nothing resumes it (F:2757, D:367-368) |
| `stored` in `WechatOperation` (adapter 980-983) | the account lookup fails for a moment (503): the answer is called retryable, but nothing was claimed, and the next attempt, which looks for the claim of the one before, is unknown for good |
| the same, while an attempt is reconciled (adapter 1015-1038) | the Worker records that attempt as failed; the next one is answered with the earlier one's result, which the protocol check refuses (against D:563-564: a lost response is reconciled by the same operation) |
| `generation` in `WechatOperation` (adapter 564-620) | three failed token requests exhaust a generation; the next one opens only when a token that was issued is refused, so the article's operations fail from then on |
| `ConfirmedRuns` in `RunStart` with one request, one text, one fault | the confirmation comes after the Workflow's own wait ended: the start is confirmed and the instance failed (D:289-290) |

**Bounds, and why they are enough.** `MaxRevision` stops new work, never work that was
begun: 5 revisions hold a failure, its retry and the automatic resume, or a hold and its
reconciliation, together with an action that races them. `MaxStaleness` = 1 lets a
request ask for the revision before the current one, which is refused for the same reason
as any older. Two parties of a kind are enough for each race in the code, since every
conflict is between one writer and one stale reader of the same row, claim or object; so are
one input, one recording and one run, since no row of the code belongs to two. The three
attempts (`MaxAttempts`, `StepTries`, `wf[i].tries`) are the code's own. Two slots show
every interleaving of two executions, since slots are made one after the other, and let one
hold follow another in the same state. `MaxFaults` counts failed calls, lost answers, deaths and
restarts together: one for each scenario in which a single loss is the question, two where a
recovery must survive a loss itself (`RunStart`, `WechatDraft`), where two executions must
overlap and something else go wrong (`VisualRecovery`), or a token's end and a lost
answer meet (`WechatOperation`), three where the
code's limit is three tries (`TextWorkflow`) or a lease must run out twice
(`MiningJobs`). `MaxHolds` = 4 lets each kind of hold follow another. `MaxCalls` = 2
editorial calls race two revisions for the same parent; `MaxLogins` = 2 is leaving an
account and coming back to another.

**Deadlock** is checked for `VisualCalls`. Elsewhere the system really stops: a run ends
ready, failed, cancelled or held, an inbox is served, a bound is reached.

**Fairness.** Faults are bounded by `MaxFaults` and never fair. What is fair is what
somebody runs:

| specification | fair | because |
|---|---|---|
| `VisualRecovery` | WF of each worker's steps | the Workflow runtime replays an execution that died, and an operator enters a held run again (D:455-461) |
| `RunStart` | SF of `Begin`, WF of a request's and the Workflow's steps | the mining schedule comes back every hour until the input is settled, whatever requests that only ask for the status (`AskStatus`) come between |
| `TextWorkflow` | WF of an instance's steps, of `Resume`, `ResumeRun`, `StartRecovery` | the engine goes on with a live instance; the App repeats a retry until it is answered |
| `WechatDraft` | WF of the Workflow, of the provider and of `Restart` | as above, and an operator restarts what stopped |
| `MiningJobs` | SF of `Schedule`, WF of a job's steps and of `LeaseExpires` | hourly schedule; time passes |
| `ArticleRevisions` | WF of the Worker's and of the job's steps, SF of `RepeatRequest` | the client repeats a request it has no final answer to |
| `PhoneRecordings` | WF of the workers' requests, of the mark, of upload and sync | WorkManager runs what is enqueued and the periodic sync |

`HoldEnds` promises an end only to the first hold in a state, once its calls have evidence,
which nothing makes arrive, and only if nothing but answers is lost. The other liveness properties name their exceptions in definitions of
their own (`Stranded` in `WechatDraft`, `LeftPending` and `Overtaken` in
`ArticleRevisions`, the disjuncts of `EventuallyStarted` and of `RetryIsTakenUp`): they
are states of the code no step leads out of, and worth a reader's attention.

**Symmetry** is declared for requests, workers and visits, in runs without liveness
properties only (`publication_races`, `visual_calls`, `wechat_operation`).

Every property of every passing run has a seeded fault under which TLC finds it
violated: an operator of the module, or a changed form given in `PROJECT.json`.

## 4. What is proved

`PublicationProofs` has the publication row and the WeChat phase. About the row it proves, for every set of requests, executions and
keys, every step table and every bound, from `ConstantsOK` alone (step keys and
action keys are distinct; a step that may repeat its state is an artifact or the
reconciliation mark; no step cancels and only the requeue of a reconciled hold goes to
`retrying`, as F:1302-1347, 2583-2615 and 4508 write them):

- `TypeCorrect`: `Spec => []TypeOK`;
- `TablesCorrect`: `TablesAgree`: the log is gapless, without duplicates, and ends in the
  row, and the action ledger names the same actions;
- `AnswersCorrect`: every success told is in the log at the revision it named;
- `SnapshotsCorrect`: comparing the revision suffices;
- `HoldCorrect`: the action property that only reconciliation ends a hold;
- `RulesCorrect`: `RulesAgree`, all of it: what TypeScript lets pass SQL accepts too, and
  the row is what the log condenses to.

The inductive invariant (`Invariance`) is the conjunction of `TypeOK`,
`SnapshotsFresh`, `LogIsComplete`, `ActionsMatchLog` and `AnswersAreDurable`. No
conjunct is inductive alone: a batch derives the new row from a snapshot, so that
the log grows by exactly one event only if a snapshot at the current revision *is*
the current row; and the action ledger follows the log only because a batch that
matched the revision inserted both. The lemmas say what a projected row is
(typed, one revision on), that every action of `Next` either leaves row and log
alone or appends one event, and what that does to each conjunct. `HoldCorrect`
follows from the transition tables and the invariant. `RulesCorrect` needs two facts more
(`RulesInvariance`): which step or action the row's marker names, so that a new one differs
from it (`MarkerIdentifies`), and what a handler was sure of when it began and still is while
the revision stands (`HandlersKnow`). Then every projected row passes the trigger
(`ProjectionAccepted`), for which the transition table is contained in the trigger's but for
a failed run's cancellation, which no handler asks for (`TriggerCoversTable`).

It also proves `Refinement`, `Spec => Ledger!Spec`: Init
maps to the ledger's Init with the creation event applied, a successful batch maps
to `Apply` with the caller told at once or later, an answer that repeats a stored
success maps to `Acknowledge`, and everything else stutters.

About `WechatDraft` it proves, for any number of holds and of faults at any place,
`LedgersStayInStep`: `LedgersInStep`, and `ReadyCorrect`: `ReadyIsProven`. A receipt is written for an artifact of the scope the
Workflow is in, by a recovery for all that are pending, and again after an answer was lost;
that none is ever two behind needs, inductively (`LedgersInvariance`), that artifacts of a
scope are receipted in one order (`ArtifactsInTurn`), that where the Workflow stands all
earlier ones are receipted (`WalkOK`), that holds are numbered and a recovery's scope is the
number of the latest hold of its code (`HoldsOK`, `ScopesOK`), and that a call that is waited
for, or settled by an artifact, has its operation (`CallsMade`). For `ReadyIsProven`
(`ReadyInv`) every event of D1 and every receipt is traced to who may write it (`D1Steps`,
`MainSteps`): once verified, a run is touched by the App's events and by the last ones only,
which move no artifact, hold or recovery in the log, so that the verification would pass
again (`ExactKept`); and a run ready in D1 is final there.

The invariants stand in `WechatDraftInvariants`, without a theorem, so that TLC can be asked for them
as well: with `Nat` bounded and two faults it finds every one of them in all 279404 states.

`WritesCorrect` is `DraftWritesSafe`, with `WritesInv`. What a recovery may resume at is
known from the log: all recoveries out of one hold name one checkpoint, the one D1 keeps
until it is left (`RecoveriesOK`, `ResumesOK`). A write at WeChat was announced in its
scope, or the scope began at `draft_verifying`; a write that succeeded means that D1
has reached `draft_verifying`; and what the draft map or a search told is still so (`OperationsOK`, `DraftOK`). Of several
attempts at adding a draft, only the last one of an operation not given up can have made it (`AddsOK`).
Where the Workflow stands, its scope is known to D1, the call an artifact settles
is the one that made it, and past the sync checkpoint the write is announced and not yet
verified (`StandsOK`). The one late change is bounded by what is left to do after it:
only stages that ask for nothing new, while D1's cancelled row takes no artifact (`LateOK`).

`AdapterProofs` has both adapters. About the image call it proves, for every set of workers
and of visits and every number of attempts, from `VisualCallsOK` alone:

- `TypeCorrect`, `OrderCorrect`, `LedgersCorrect`, `ImageCorrect`: `TypeOK`,
  `AttemptsInOrder`, `LedgersAgree`, `AtMostOneImage`;
- `FailureCorrect`: `FailureForCause`, a part of `LedgersAgree`: an attempt whose request
  left becomes a final failure only if R2 says so or a reconciliation of it was turned away
  (that a turned away reconciliation does so is a divergence: §3, `FailureIsKnown`);
- `Refinement`: `Spec => ImplementsSideEffect`.

The four safety properties speak of the stores only and are not inductive: a step
between two awaits acts on what it read before. `IInv` adds what each party may rely
on at each of its awaits. A visit that is about to ask the provider, waits for it or
is about to put the result is the only such visit for its attempt, put its intent
itself and has no result (`VisitOK`, `OneOwner`); a visit that settles, and a worker
that records or persists, hold an outcome that R2 holds too (`WorkerOK`); a visit
answers one worker, about the attempt it asked for (`OneWaiter`); the stores are
written in one order (`StoresTrace`) and the Coordinator opens an attempt only after
refusals (`CallsInOrder`, `CallsBacked`). For `FailureForCause` a second invariant on top of
it, `RefusalsHarmless` (`RefusalCorrect`), says that an attempt has one execution that may
send it, and nothing under way before it does or after it was refused. The proof has one step per action;
`WorkersKept` and `VisitsKept` say once that parties at rest keep what they rely on
while the stores only grow. For the refinement, `Frontier` shows that the attempt at
work is the last one sent, so that `Tries`, a cardinality, is its number; then
`RequestImage` maps to `Begin`, an image drawn to `Happen`, a result put to `Refuse`
or `Close`, and every other step stutters.

`MiningJobsProofs` proves, for every set of jobs and of inputs, with and without the
clean-up and for any number of faults, from `MiningOK` alone:

- `DoneCorrect`: `DoneIsDone`; `DraftCorrect`: `OneDraftPerLease`;
- `WorkerCorrect`: `OneWorker`; `RouteCorrect`: `NeverBothRoutes`.

The properties speak of the stores; what makes them hold is where the jobs stand. `IInv` is
the type invariant with three parts. `Alone`: no two jobs at work have the same input.
`JobOK`: a job at work owns its claim with the lease still running, or the claim is
completed; it has saved only what is stored; before it drafts, drafts are at most the
leases that ran out; at a legacy position its input is not eligible for V3; and at each
position of `Settlement` the writes before it were done (`SettleOK`). `InputOK`: a claim
that may be granted has no draft more than expired leases, an eligible input has neither
transcript nor draft, what is gone or completed has a result, what is reported is stored.
The claim's UPDATE guards the first two, the order of the settling writes the last. The
proof has a lemma per action; `OthersKept`, `LeavingKeeps` and `WorkKeeps` are the frame:
what jobs elsewhere, a job that leaves, and a step within one input's work keep.

`PhoneRecordingsProofs` proves, for every set of accounts and any number of logins and
faults, from `PhoneOK` alone:

- `TypeCorrect`; `AccountKept`: `RetryKeepsAccount`; `ClearCorrect`: `ClearedForCause`;
- `DeletedCorrect`: `DeletedStays`; `StoredCorrect`: `ShownIsStored`.

`SessionInv` says that each request under way belongs to a login there was, its token to
that login, and that it is found invalid only after that session ended; a refresh that comes back
after the account changed thus compares with a snapshot that differs. `RowsInv`,
`UploadInv`, `SyncInv` and `CloudInv` say what each worker may rely on between its read and
its write of the row; `StoredInv` adds that a deletion is asked for only where the user
deleted, and that either the server has the recording, or had it until a deletion, or
nobody shows anything of it nor is about to.

`RunStartProofs` proves, for every set of requests, whatever texts a recognition may
return and any number of faults, from `RunStartOK` alone (there is a text):

- `TranscriptCorrect`: `OneTranscript`; `StartCorrect`: `StartIsProven`;
- `HoldsCorrect`: `HoldsForDoubtOnly`.

The stores do not carry the argument: what a request found out is remembered in its position
only. `RequestOK` says for each position what the stores hold by then (past the handoff there
is a transcript, and the request's text is it; a request that marks the start knows that the
Workflow exists; one that proves it knows brief and row; one that writes the events of a
reconciliation has the receipt), and it stays true because every store only grows.
`StoresOK` has the order of the writes: confirmed after created, receipt before events,
an accepted start past the ledger's first two statuses, no hold on a run that moved.

`ArticleRevisionsProofs` proves, for every set of producers, requests, texts and choices and
any number of calls and faults, from `EditorialOK` and `RevisionsOK` (there are a key and a
text; keys, revision requests and the first version have different names):

- `VersionsCorrect`: `VersionsSound`, the owners of versions included (`OwnersKnown`);
- `PublishedCorrect`: `PublishedIsStored`; `ChoicesCorrect`: `ChoicesAreSound`.

`EditorialInv` is the pipeline's part: the versions are one line (`Line`: ids, numbers and
parents differ, each follows its parent, one is last), each version's moves are its history
(`Staged`), and a producer's answer is in the tables (`CallOK`). `RevisionInv` is the
revision's: a request has a version to be about, alone, and a child only of its own
(`RequestsKept`); the job has stored what it is about to show (`JobOK`, `Shown`); of the
handlers of one choice only one holds the id the phone kept for it (`ChoosersDiffer`), so
that all recorded choices but one were confirmed (`ChoicesCounted`). What is stored is said
by an existential over the tables, so that their growth keeps it; the proof has a lemma per
action, over frame lemmas for handlers, job and requests.

`VisualRecoveryProofs` proves, for every set of executions, any number of slots up to the
code's five, of tries and of faults, whatever may get lost and wherever an execution may
die, from `VisualRecoveryOK` alone:

- `LedgersCorrect`: `LedgersInStep`; `DoneCorrect`: `DoneStaysDone`;
- `ResumeCorrect`: `NoBlindResume`;
- `SettlesCorrect`: `SettlesForCause`.

The invariant of the first two, `IInv`, has the ledgers (`RunOK`, `CoordinatorOK`, `CallsOK`:
the Coordinator's progress is at most D1's, calls are made in order, a receipt is for a
known result) and, for each position of an execution, what is still true of the stores of what
it read before its last await (`PlaceOK`): what it has seen is recorded, what it
writes it has a result for, what it records in the Coordinator is in D1's log, and what it
read of the Coordinator is either overtaken, so that the revision refuses the write, or still so.
Two executions may overlap at every step. `Grows` says what no step takes back (log,
receipts, revisions, progress), and one lemma, `PlaceKept`, that `PlaceOK` of the executions
that did not move survives whatever grows.

`NoBlindResume` needs a second invariant on top, `HoldInv`. Calls are made in order, so
only the one the hold waits for can be open (`Pending`), and nothing un-answers a
call: it is enough that it was answered (`Quiet`) when the hold was called reconciled. The hard part is
who may act on a hold. `Fresh` is a hold the Coordinator has and nobody marked; by then D1
is held too, no execution can still record at the Coordinator's revision, and one that
is about to mark it has seen its call answered (`HoldingOK`). Each step either leaves the
Coordinator alone (`Calm`) or moves it when no hold waits to be marked, which ends the claim
of whoever read it before (`Stirs`); every lemma of a step shows which.

`SettlesForCause` says nothing of a run in which more than answers was lost, and its invariant
`SettlesInv` is conditional as well: until then it is `Clean`, and `NothingLost` excludes
the steps that end it. `Clean` is what one execution at a time can rely on (`Alone`). Before
its write both ledgers agree, unless the App cancelled; after the write to D1 the row is in the
state the Coordinator is about to take (`Knows`). So D1 refuses nothing but a write to a
cancelled run (`ForwardGranted`, for which `ReachedOK` says that the event of a forward state
is in the log only if the row got there), the Coordinator refuses nothing (`RecordTaken`),
and what is left to fail a run is a call that failed (`Answers`). A reconciled answer stays
known while it is carried, so that the call it is for cannot fail. When the last execution ends,
the ledgers are as it left them but for the App's `retrying` or `cancelled` (`Parted`).

`TextWorkflowProofs` proves, for any number of faults at any of the places, from
`TextWorkflowOK` alone:

- `AskedCorrect`: `AskedOnce`;
- `FrozenCorrect`: `FrozenIsBacked`, the last conjunct of `LedgersBacked`.

What excludes a second draft is the order of the writes. The App's retry is answered only after
D1 has a writing failure and no revision was requested (`FailureOK`), D1 has it only after the
call was closed as failed, and an instance whose draft was closed so stays at that step: it can
only end in a hold or a failure (`Relies`, its last conjunct). So both instances are live only
when the first one is past asking (`RecoveryOK`, `Apart`), and the recovery, which looks at the
exact set of artifacts before it asks, finds the brief alone. That each attempt is asked for
once needs what an instance relies on where it stands: at `send` its call is the open one
and has a request less than attempts, and until `close` nobody else closes it. `StepKeeps` says
what any step has to keep (`Safe`), `GotoKeeps`, `DoneKeeps` and `RetryKeeps` how an instance
may move; the proof has one lemma per action over them.

For the frozen article, `FInv` says on top what an instance *at work* (live, its draft
not given up; there is only ever one) knows of the stores. From the look at the exact set of
artifacts until the verification nobody else stores or receipts anything, so that what is
kept stays the step's inputs and its artifact (`Knows`); an instance past the
second review has both revised artifacts among its inputs, and one at the freeze a review
that passed (`Follows`). The invariant need not exclude a recovery after an article was
shown: that one would find more than the brief, and hold. `Backs` is what a step owes the stores, `FrozenStep` that this is enough. The order of the two logs
(`MainFollowsD1`) filters sequences by recursion over them and stays with TLC.

The same module proves about `WechatOperation`, for every set of requests and operations, any
number of token generations and of faults, from `WechatOperationOK` alone:

- `TokensCorrect`: `TokensSound`; `ResultsCorrect`: `ResultsSound`.

`Ledger` is the token ledger as a predicate of intents, R2 results, generation and the count of
what WeChat was asked, so that each lemma holds before and after a step: an intent names no
result R2 does not hold, an attempt follows one that failed for the moment, and an
announced attempt was asked for once. What carries it is what a request relies on at each
of its awaits (`Holds`): the attempt it looks at is announced and what it saw of it agrees with
R2; a token it was given after a refusal follows a token that ended; and the error it is about to store
has its cause (`Blame`), which is still one later because results and ended tokens only
grow. For the results, `Alone`: of all requests one works on a write, it has not stored its
result, and it knows when the write took effect; attempts are begun only after every
earlier one failed without effect, so that effects are at most one over all attempts.

**Only model-checked**: `TextWorkflow` (`TypeOK` and
`MainFollowsD1` of `LedgersBacked`, `StrandedForCause`), for which
no proof is written yet; and liveness, which is outside the prover's reach. `RECURSIVE` is
used nowhere.

## 5. What is not modelled, and the plan

Left out for good: the content of prompts, articles, images and layouts; the
agents and media functions, which keep no state; screens, recorder and import;
build, deployment and device scripts. Content hashes are not data: an artifact is
identified by its kind and place. The checks of an answer's form appear as an answer that
cannot be used, and the configuration checks of the Worker as a service that fails.

Left out of the modelled parts, and worth knowing:

- *Start*: a profile that changes between two handoffs of one recording
  (`miningV3Handoff.ts:1455`); a lookup that stays unknown sets `starts` back to unknown
  although another request confirmed (`editorialAgents.ts:1901`); a `fetch` that throws is
  mapped to a retryable 503 (`serviceClients.ts:22`, against D:228-232).
- *Text*: executions of one step that overlap after a timeout; the App's retry of a held run
  or a run that failed its review, beyond the write to D1.
- *Visual*: the adapter's answer that breaks off after its status line; an image paid for
  after the cancellation was checked (F:2527); a hold without a call intent (F:2702), which is
  left to a person by design; failed reads of immutable artifacts.
- *WeChat*: several images; an account whose configuration changes (F:4203), and with it the
  cache of uploaded images and the token kept for another account; results under the keys of
  earlier releases. `WechatDraft` takes the operation object as one step, whose inside
  `WechatOperation` has.
- *Mining*: only the first page of the inbox is listed (`r2.ts:46`); the older revision
  jobs; a repeated dispatch of an older `wechat_failed` request, which writes its older
  text again (`infra/mining/src/index.ts:714`); a `COMPLETED` report overtaken by
  `DRAFT_FAILED` (1390-1413).
- *Versions*: requests without a parent version. `editorialContracts.ts:164` lets
  `failed` go to `queued`, which the CHECK of migration 0010 does not: the moves of the
  module are those both allow.
- *Accounts*: registration, invitations, rate limits and password reset; other callers of
  `AuthenticatedHttpClient` than the two workers; `updateCurrentUser`.
- *Phone*: recordings made while nobody is logged in; text submissions; rows the server
  reports as failed; `SyncWorker`'s user, captured once (`SyncWorker.kt:265`); the
  periodic sync beside the one-time one (the module has one sync at a time; `upsertBest` guards
  each write of either); the deletion
  of `MainActivity.kt:358`, which is asked for once. An account that changes between
  `UploadWorker.kt:65` and the snapshot of `execute` uploads the recording under the
  other account, which `ShownIsStored` admits by its "some account".
- *Server deletion*: `worker/index.ts:2437` against an upload or a mining job at work.

What is left of the plan, in order: a proof of `StrandedForCause`; the handoff's
profile epochs; several images per WeChat draft.

## 6. Checking

    tlc -config PublicationRaces.cfg MCPublicationProjection.tla
    tlc -config MiningJobs.cfg MCMiningJobs.tla
    tlapm PublicationProofs.tla
    tlapm AdapterProofs.tla
    tlapm MiningJobsProofs.tla
    tlapm PhoneRecordingsProofs.tla
    tlapm RunStartProofs.tla
    tlapm ArticleRevisionsProofs.tla
    tlapm VisualRecoveryProofs.tla
    tlapm TextWorkflowProofs.tla

The longest run takes about three minutes with two workers. `PROJECT.json` lists every run with its module, configuration
and expected result, the seeded faults, the lines each definition stands for, and the
hazards.
