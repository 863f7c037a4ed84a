--------------------------- MODULE PhoneRecordings ---------------------------
(***************************************************************************)
(* One recording from the phone to its finished article. The phone keeps a *)
(* row per account in Room and the audio and transcript as files; the      *)
(* upload worker, the sync worker, the coroutine that marks an upload and  *)
(* the deletion all read a row and later write a whole row back. The       *)
(* server keeps a row, the audio, the transcript and the claim of the      *)
(* mining job. Requests go through the login of PhoneSession, which may    *)
(* change between any two steps; workers are replaced and the process dies.*)
(* UploadWorker.kt, SyncWorker.kt, RecordingUploadCoordinator.kt,          *)
(* RecordingDao.kt, MainActivity.kt, RecordingFiles.kt; uploadAudio,       *)
(* deleteRecording, listRecordings, getTranscript, updateStatus and        *)
(* handleMiningClaim of infra/worker/src/index.ts.                         *)
(***************************************************************************)
EXTENDS PhoneSession

VARIABLES
  rows,    \* rows[u]: the Room row of account u
  audio,   \* the recording's file is on the phone
  cached,  \* its transcript file is on the phone
  upload,  \* the unique upload work
  mark,    \* enqueueUpload's coroutine that marks the row UPLOADING
  sync,    \* the sync work
  asks,    \* the server is still to be asked for the deletion
  cloud    \* cloud[u]: the server's row, audio, transcript and claim under account u

local == <<rows, audio, cached>>
works == <<upload, mark, sync>>
vars == <<session, call, faults, local, works, asks, cloud>>

Statuses == {"none", "UPLOADING", "UPLOADED", "PROCESSING", "COMPLETED", "FAILED"}
NoRow == [status |-> "none", deleted |-> FALSE]
Nothing == [row |-> "none", audio |-> FALSE, transcript |-> FALSE, claim |-> "none"]
Resting(u) == [pc |-> "idle", user |-> u, token |-> Token(0, 0), row |-> NoRow, seen |-> "none"]

Init ==
  /\ SessionInit
  /\ rows = [u \in Users |-> NoRow]
  /\ audio = FALSE /\ cached = FALSE /\ asks = FALSE
  /\ upload = Resting(Someone) /\ mark = Resting(Someone) /\ sync = Resting(Someone)
  /\ cloud = [u \in Users |-> Nothing]

-----------------------------------------------------------------------------
(* RecordingDao.                                                           *)

Row(status) == [status |-> status, deleted |-> FALSE]

\* getRecordingByFilename.
Visible(u) == rows[u].status # "none" /\ ~ rows[u].deleted

\* Seeded fault: the row is written without a look at the stored one.
WritesBlindly(u) == TRUE

\* upsertBest leaves a deleted row alone.
Writes(u) == ~ rows[u].deleted

Upsert(u, status) == rows' = IF Writes(u) THEN [rows EXCEPT ![u] = Row(status)] ELSE rows

-----------------------------------------------------------------------------
(* RecordingUploadCoordinator.                                             *)

Me == sessions[login.id].user

\* The work carries the account and the token of the moment it is enqueued.
Enqueued == [Resting(Me) EXCEPT !.pc = "enqueued", !.token = login.token]
Marking == [Resting(Me) EXCEPT !.pc = "read"]

\* A recording is saved and enqueued. Bound: one recording, under the first login.
Record ==
  /\ login.id = 1 /\ \A u \in Users : rows[u] = NoRow
  /\ audio' = TRUE
  /\ rows' = [rows EXCEPT ![Me] = Row("UPLOADING")]
  /\ upload' = Enqueued /\ mark' = Marking
  /\ UNCHANGED <<session, call, faults, cached, sync, asks, cloud>>

\* The user retries: the new work replaces the account's own.
RetryUpload ==
  /\ login.id # 0 /\ audio /\ Visible(Me) /\ rows[Me].status = "FAILED"
  /\ mark.pc = "idle" /\ (upload.pc = "idle" \/ upload.user = Me)
  /\ upload' = Enqueued /\ mark' = Marking
  /\ call' = [call EXCEPT !["upload"] = Idle]
  /\ UNCHANGED <<session, faults, local, sync, asks, cloud>>

MarkRead ==
  /\ mark.pc = "read"
  /\ mark' = IF Visible(mark.user) /\ rows[mark.user].status # "COMPLETED"
             THEN [mark EXCEPT !.pc = "write"] ELSE Resting(Someone)
  /\ UNCHANGED <<session, call, faults, local, upload, sync, asks, cloud>>

MarkWrite ==
  /\ mark.pc = "write"
  /\ Upsert(mark.user, "UPLOADING")
  /\ mark' = Resting(Someone)
  /\ UNCHANGED <<session, call, faults, audio, cached, upload, sync, asks, cloud>>

-----------------------------------------------------------------------------
(* UploadWorker.doWork.                                                    *)

UploadTo(pc) == upload' = [upload EXCEPT !.pc = pc]
UploadKeeps == UNCHANGED <<session, audio, cached, mark, sync, asks>>

\* uploadAudio: the audio is stored, then the row is inserted or reset.
Put(v) == cloud' = [cloud EXCEPT ![v].audio = TRUE, ![v].row = "UPLOADED"]

\* The account is compared first, then the request takes its own snapshot; an
\* upload of another account is sent with the token it was enqueued with.
StartUpload ==
  /\ upload.pc = "enqueued"
  /\ UploadTo(IF ~ audio THEN "gone"
              ELSE IF login.id # 0 /\ sessions[login.id].user = upload.user THEN "begin" ELSE "direct")
  /\ UNCHANGED <<call, faults, rows, cloud>> /\ UploadKeeps

BeginUpload ==
  /\ upload.pc = "begin" /\ UploadTo("request") /\ Begin("upload")
  /\ UNCHANGED <<faults, rows, cloud>> /\ UploadKeeps

\* The answer may be lost after the server stored everything; the server may
\* store the audio and fail on the row; the request may not arrive.
Uploaded(v, answered) ==
  \/ Put(v) /\ answered = "ok" /\ UNCHANGED faults
  \/ Put(v) /\ answered = "failed" /\ Fault
  \/ cloud' = [cloud EXCEPT ![v].audio = TRUE] /\ answered = "failed" /\ Fault
  \/ UNCHANGED cloud /\ answered = "failed" /\ Fault

UploadArrives ==
  /\ upload.pc = "request" /\ Reaches("upload")
  /\ \E a \in {"ok", "failed"} : Uploaded(UserOf(call["upload"].token), a) /\ Finish("upload", a)
  /\ UNCHANGED <<rows, upload>> /\ UploadKeeps

DirectUpload ==
  /\ upload.pc = "direct" /\ UploadTo("request")
  /\ \/ /\ Accepts(upload.token)
        /\ \E a \in {"ok", "failed"} : Uploaded(UserOf(upload.token), a) /\ Finish("upload", a)
     \/ ~ Accepts(upload.token) /\ Finish("upload", "refused") /\ UNCHANGED <<cloud, faults>>
  /\ UNCHANGED rows /\ UploadKeeps

\* Seeded fault: a request that failed counts as an upload.
AlwaysUploaded(answer) == "UPLOADED"

\* The status of the answer and of classifyUploadFailure.
StatusOf(answer) == CASE answer = "ok" -> "UPLOADED" [] answer = "failed" -> "UPLOADING" [] OTHER -> "FAILED"

\* updateLocalStatus reads the row ...
UploadReads ==
  /\ \/ upload.pc = "request" /\ On("upload", "done")
     \/ upload.pc = "gone"
  /\ LET status == IF upload.pc = "gone" THEN "FAILED" ELSE StatusOf(call["upload"].answer)
         again == IF status = "UPLOADING" THEN "enqueued" ELSE "idle"
     IN
     IF Visible(upload.user) /\ rows[upload.user].status # "COMPLETED"
     THEN upload' = [upload EXCEPT !.pc = "write", !.seen = status]
     ELSE upload' = IF again = "idle" THEN Resting(Someone) ELSE [upload EXCEPT !.pc = again]
  /\ call' = [call EXCEPT !["upload"] = Idle]
  /\ UNCHANGED <<faults, rows, cloud>> /\ UploadKeeps

\* ... and writes it back; a retryable failure runs again.
UploadWrites ==
  /\ upload.pc = "write"
  /\ Upsert(upload.user, upload.seen)
  /\ upload' = IF upload.seen = "UPLOADING" THEN [upload EXCEPT !.pc = "enqueued", !.seen = "none"] ELSE Resting(Someone)
  /\ UNCHANGED <<call, faults, cloud>> /\ UploadKeeps

UploadSteps == StartUpload \/ BeginUpload \/ UploadArrives \/ DirectUpload \/ UploadReads \/ UploadWrites

-----------------------------------------------------------------------------
(* SyncWorker.doWork.                                                      *)

SyncKeeps == UNCHANGED <<session, audio, upload, mark, asks, cloud>>
SyncEnds == sync' = Resting(Someone)

StartSync ==
  /\ sync.pc = "idle" /\ login.id # 0
  /\ sync' = [Resting(Me) EXCEPT !.pc = "list"]
  /\ Begin("sync")
  /\ UNCHANGED <<faults, rows, cached>> /\ SyncKeeps

\* The request for the transcript takes a snapshot of its own.
BeginFetch ==
  /\ sync.pc = "fetch" /\ On("sync", "idle")
  /\ Begin("sync")
  /\ UNCHANGED <<faults, rows, cached, sync>> /\ SyncKeeps

\* GET recordings and GET transcript answer for the account of the token.
SyncArrives ==
  LET v == UserOf(call["sync"].token) IN
  /\ sync.pc \in {"list", "fetch"} /\ Reaches("sync")
  /\ \/ /\ Finish("sync", IF sync.pc = "fetch" /\ ~ cloud[v].transcript THEN "missing" ELSE "ok")
        /\ sync' = IF sync.pc = "list" THEN [sync EXCEPT !.seen = cloud[v].row] ELSE sync
        /\ UNCHANGED faults
     \/ Fault /\ Finish("sync", "failed") /\ UNCHANGED sync
  /\ UNCHANGED <<rows, cached>> /\ SyncKeeps

\* shouldSkipRemoteRecording, for a recording of the list.
Skips(row) == sync.seen = "none" \/ row.deleted

\* markSyncAuthFailure: the uploads under way.
Active(row) == ~ row.deleted /\ row.status \in {"UPLOADING", "UPLOADED", "PROCESSING"}

\* The list's row is merged with the stored one; a refused list fails the rows
\* of uploads under way; without an answer the stored rows are next.
ListAnswered ==
  LET answer == call["sync"].answer
      row == rows[sync.user]
  IN
  /\ sync.pc = "list" /\ On("sync", "done")
  /\ call' = [call EXCEPT !["sync"] = Idle]
  /\ sync' = CASE answer = "ok" /\ ~ Skips(row) -> [sync EXCEPT !.row = row, !.pc = "merge"]
               [] answer = "refused" /\ Active(row) -> [sync EXCEPT !.pc = "authFailed"]
               [] answer = "refused" /\ ~ Active(row) -> Resting(Someone)
               [] OTHER -> [Resting(sync.user) EXCEPT !.pc = "snapshot"]
  /\ UNCHANGED <<faults, rows, cached>> /\ SyncKeeps

\* mergeRemoteRecordingFromListItem: what the stored row becomes.
Merged(row, remote) ==
  CASE remote = "COMPLETED" \/ row.status = "COMPLETED" -> "COMPLETED"
    [] remote = "UPLOADED" /\ row.status = "UPLOADING" -> "PROCESSING"
    [] OTHER -> remote

\* A finished row the list does not call finished is refined, or left alone.
MergeRow ==
  /\ sync.pc = "merge"
  /\ \/ Upsert(sync.user, Merged(sync.row, sync.seen))
     \/ sync.row.status = "COMPLETED" /\ sync.seen # "COMPLETED" /\ UNCHANGED rows
  /\ sync' = [Resting(sync.user) EXCEPT !.pc = "snapshot"]
  /\ UNCHANGED <<call, faults, cached>> /\ SyncKeeps

FailActive ==
  /\ sync.pc = "authFailed" /\ Upsert(sync.user, "FAILED") /\ SyncEnds
  /\ UNCHANGED <<call, faults, cached>> /\ SyncKeeps

\* Seeded fault: only rows the list calls finished are looked at.
LooksAtFinished(u) == Visible(u) /\ rows[u].status = "COMPLETED"

\* getAllRecordings.
LooksAt(u) == Visible(u)

\* The row as it is now; all that follows writes copies of it. The transcript is
\* fetched where the file is missing or older than the server's.
SnapshotRow ==
  /\ sync.pc = "snapshot"
  /\ IF ~ LooksAt(sync.user) THEN SyncEnds
     ELSE \E pc \in IF cached THEN {"fetch", "fromFile"} ELSE {"fetch"} :
            sync' = [sync EXCEPT !.row = rows[sync.user], !.pc = pc]
  /\ UNCHANGED <<call, faults, rows, cached>> /\ SyncKeeps

Refetched(answer, row) ==
  CASE answer = "ok" -> "COMPLETED"
    [] answer = "missing" /\ row.status \in {"UPLOADED", "UPLOADING"} -> "PROCESSING"
    [] answer = "refused" -> "FAILED"
    [] OTHER -> "none"

FetchAnswered ==
  LET answer == call["sync"].answer
      next == Refetched(answer, sync.row)
  IN
  /\ sync.pc = "fetch" /\ On("sync", "done")
  /\ cached' = (cached \/ answer = "ok")
  /\ IF next = "none" THEN UNCHANGED rows ELSE Upsert(sync.user, next)
  /\ call' = [call EXCEPT !["sync"] = Idle]
  /\ SyncEnds
  /\ UNCHANGED faults /\ SyncKeeps

\* The file is there: the row is finished from it.
FinishFromFile ==
  /\ sync.pc = "fromFile"
  /\ IF sync.row.status = "COMPLETED" THEN UNCHANGED rows ELSE Upsert(sync.user, "COMPLETED")
  /\ SyncEnds
  /\ UNCHANGED <<call, faults, cached>> /\ SyncKeeps

SyncSteps ==
  \/ StartSync \/ BeginFetch \/ SyncArrives \/ ListAnswered \/ MergeRow \/ FailActive
  \/ SnapshotRow \/ FetchAnswered \/ FinishFromFile

\* A new sync replaces the one under way (ExistingWorkPolicy.REPLACE).
ReplaceSync ==
  /\ sync.pc # "idle" /\ Fault /\ SyncEnds
  /\ call' = [call EXCEPT !["sync"] = Idle]
  /\ UNCHANGED <<rows, cached>> /\ SyncKeeps

-----------------------------------------------------------------------------
(* The user deletes the recording; the App dies.                           *)

\* The row is marked, the files go ...
Delete ==
  /\ login.id # 0 /\ Visible(Me) /\ ~ asks
  /\ rows' = [rows EXCEPT ![Me].deleted = TRUE]
  /\ audio' = FALSE /\ cached' = FALSE /\ asks' = TRUE
  /\ UNCHANGED <<session, call, faults, works, cloud>>

\* ... and the server is asked once, in the name of the login then: deleteRecording
\* removes the row and the objects, the claim stays. The token's renewal is left out.
Valid == login.id # 0 /\ ~ sessions[login.id].ended

DeleteRemote ==
  /\ asks /\ asks' = FALSE
  /\ \/ /\ Valid
        /\ cloud' = [cloud EXCEPT ![Me] = [Nothing EXCEPT !.claim = cloud[Me].claim]]
        /\ UNCHANGED faults
     \/ ~ Valid /\ UNCHANGED <<cloud, faults>>
     \/ Fault /\ UNCHANGED cloud
  /\ UNCHANGED <<session, call, local, works>>

\* The process dies: works start over, the coroutine and the request do not.
Die ==
  /\ Fault
  /\ call' = [w \in Workers |-> Idle] /\ asks' = FALSE
  /\ mark' = Resting(Someone) /\ sync' = Resting(Someone)
  /\ upload' = IF upload.pc = "idle" THEN upload ELSE [upload EXCEPT !.pc = "enqueued", !.seen = "none"]
  /\ UNCHANGED <<session, local, cloud>>

-----------------------------------------------------------------------------
(* The mining job at the server.                                           *)

MiningKeeps == UNCHANGED <<session, call, local, works, asks>>
Reported(v, status) == IF cloud[v].row = "none" THEN "none" ELSE status

\* An input is claimed once; its claim outlives it (mining_input_claims).
ClaimInput(v) ==
  /\ cloud[v].audio /\ cloud[v].claim = "none"
  /\ cloud' = [cloud EXCEPT ![v].claim = "processing", ![v].row = Reported(v, "PROCESSING")]
  /\ UNCHANGED faults /\ MiningKeeps

\* The transcript is stored and the input deleted; the report may be lost.
FinishInput(v) ==
  /\ cloud[v].claim = "processing"
  /\ \E status \in {Reported(v, "COMPLETED"), cloud[v].row} :
       /\ IF status = Reported(v, "COMPLETED") THEN UNCHANGED faults ELSE Fault
       /\ cloud' = [cloud EXCEPT ![v] = [row |-> status, audio |-> FALSE, transcript |-> TRUE, claim |-> "completed"]]
  /\ MiningKeeps

Mining == \E v \in Users : ClaimInput(v) \/ FinishInput(v)

-----------------------------------------------------------------------------
Next ==
  \/ Accounts /\ UNCHANGED <<local, works, asks, cloud>>
  \/ \E w \in Workers : CallSteps(w) /\ UNCHANGED <<local, works, asks, cloud>>
  \/ Record \/ RetryUpload \/ MarkRead \/ MarkWrite
  \/ UploadSteps \/ SyncSteps \/ ReplaceSync
  \/ Delete \/ DeleteRemote \/ Die \/ Mining

Spec == Init /\ [][Next]_vars

\* WorkManager runs what is enqueued and the periodic sync; started requests end.
FairSpec ==
  /\ Spec
  /\ \A w \in {"upload", "sync"} : WF_vars(CallSteps(w) /\ UNCHANGED <<local, works, asks, cloud>>)
  /\ WF_vars(MarkRead \/ MarkWrite) /\ WF_vars(UploadSteps) /\ WF_vars(SyncSteps)

-----------------------------------------------------------------------------
TypeOK ==
  /\ SessionTypeOK
  /\ rows \in [Users -> [status : Statuses, deleted : BOOLEAN]]
  /\ \A u \in Users : rows[u].deleted => rows[u].status # "none"
  /\ audio \in BOOLEAN /\ cached \in BOOLEAN /\ asks \in BOOLEAN
  /\ upload.pc # "idle" => rows[upload.user].status # "none"
  /\ cloud \in [Users -> [row : Statuses, audio : BOOLEAN, transcript : BOOLEAN,
                          claim : {"none", "processing", "completed"}]]

\* A recording the user deleted never comes back, although every worker writes
\* back the row it read before the deletion, and lists of the server may still
\* hold it (RecordingDao.upsertBest, shouldSkipRemoteRecording).
DeletedStays ==
  [][\A u \in Users : rows[u].deleted => rows'[u].deleted]_rows

\* The phone says that the server has the recording only if it has it, or had it
\* until a deletion: not after an upload that failed in any way (doWork's outcomes).
ShownIsStored ==
  \A u \in Users : rows[u].status \in {"UPLOADED", "COMPLETED"} /\ ~ rows[u].deleted =>
    \E v \in Users : cloud[v].audio \/ cloud[v].claim # "none" \/ rows[v].deleted

\* The article of a recording the phone lists reaches the phone, also when a
\* repeated upload has reset the server's row for good, when rows overtook each
\* other, or when tokens expired meanwhile; unless it is deleted here or at the server,
\* or the account's login ends (SyncWorker asks for the transcript of every row).
EventuallyShown ==
  \A u \in Users :
    cloud[u].transcript /\ Visible(u) ~>
      rows[u].status = "COMPLETED" \/ ~ (cloud[u].transcript /\ Visible(u)) \/ login.id = 0 \/ Me # u
===============================================================================
