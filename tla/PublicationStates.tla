-------------------------- MODULE PublicationStates --------------------------
(***************************************************************************)
(* The vocabulary every publication module shares: the states of a         *)
(* publication run, the transitions the TypeScript projection allows, the  *)
(* transitions the database trigger accepts, and the progress each state   *)
(* reports to the App (infra/worker/src/publicationProjection.ts and       *)
(* migrations/0011_five_agent_publication_projection.sql).                 *)
(***************************************************************************)
EXTENDS Naturals

\* The states a run reaches when the workflow succeeds, in pipeline order.
SUCCESSFUL_STATES ==
  { "queued", "transcribing", "transcript_ready", "writing",
    "draft_generated", "reviewing", "revising", "reviewed",
    "content_frozen", "visual_planning", "visual_generating",
    "visual_ready", "formatting", "visual_qa", "draft_syncing",
    "draft_verifying", "draft_ready" }

PUBLICATION_STATES ==
  SUCCESSFUL_STATES \cup {"retrying", "needs_action", "failed", "cancelled"}

TERMINAL_STATES == {"draft_ready", "failed", "cancelled"}

\* States that keep an error code and a next action.
ExceptionalStates == {"needs_action", "failed", "cancelled"}

\* The next state of the pipeline; revising loops back to reviewing.
PipelineSuccessors(s) ==
  CASE s = "queued"            -> {"transcribing"}
    [] s = "transcribing"      -> {"transcript_ready"}
    [] s = "transcript_ready"  -> {"writing"}
    [] s = "writing"           -> {"draft_generated"}
    [] s = "draft_generated"   -> {"reviewing"}
    [] s = "reviewing"         -> {"revising", "reviewed"}
    [] s = "revising"          -> {"reviewing"}
    [] s = "reviewed"          -> {"content_frozen"}
    [] s = "content_frozen"    -> {"visual_planning"}
    [] s = "visual_planning"   -> {"visual_generating"}
    [] s = "visual_generating" -> {"visual_ready"}
    [] s = "visual_ready"      -> {"formatting"}
    [] s = "formatting"        -> {"visual_qa"}
    [] s = "visual_qa"         -> {"draft_syncing"}
    [] s = "draft_syncing"     -> {"draft_verifying"}
    [] s = "draft_verifying"   -> {"draft_ready"}
    [] OTHER                   -> {}

\* The states the TypeScript table does not let a run leave for needs_action.
NotHoldable == {"transcribing", "transcript_ready", "draft_generated", "content_frozen"}

\* ALLOWED_PROJECTION_TRANSITIONS of publicationProjection.ts.
ALLOWED_PROJECTION_TRANSITIONS(s) ==
  CASE s \in {"draft_ready", "cancelled", "retrying"} -> {}
    [] s \in {"needs_action", "failed"} -> {"retrying", "cancelled"}
    [] s \in NotHoldable -> PipelineSuccessors(s) \cup {"failed", "cancelled"}
    [] OTHER -> PipelineSuccessors(s) \cup {"needs_action", "failed", "cancelled"}

\* PROGRESS_BY_STATE: the percentage the App shows for a successful state.
publicationProgress(s) ==
  CASE s = "transcribing"                 -> 14
    [] s = "transcript_ready"             -> 20
    [] s = "writing"                      -> 28
    [] s = "draft_generated"              -> 36
    [] s \in {"reviewing", "revising"}    -> 50
    [] s = "reviewed"                     -> 56
    [] s = "content_frozen"               -> 62
    [] s = "visual_planning"              -> 68
    [] s = "visual_generating"            -> 74
    [] s = "visual_ready"                 -> 80
    [] s = "formatting"                   -> 84
    [] s = "visual_qa"                    -> 90
    [] s = "draft_syncing"                -> 96
    [] s = "draft_verifying"              -> 98
    [] s = "draft_ready"                  -> 100
    [] OTHER                              -> 0

\* Whether publication_runs_projection_update lets a row in state "from",
\* resuming at "resume", be rewritten to state "to".
TriggerTransition(from, resume, to) ==
  \/ to = from
  \/ to \in PipelineSuccessors(from)
  \/ to = "failed" /\ from \in (SUCCESSFUL_STATES \ {"draft_ready"}) \cup {"retrying"}
  \/ to \in {"needs_action", "cancelled"} /\ from \notin TERMINAL_STATES
  \/ to = "retrying" /\ from \in {"failed", "needs_action"}
  \/ from = "retrying" /\ to = resume

==============================================================================
