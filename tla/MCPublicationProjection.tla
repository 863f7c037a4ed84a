----------------------- MODULE MCPublicationProjection -----------------------
(***************************************************************************)
(* Instances of PublicationProjection for TLC.                             *)
(***************************************************************************)
EXTENDS PublicationProjection, TLC

\* Request executions are interchangeable, and so are step executions.
Both == Permutations(Requests) \cup Permutations(Workers)

Advance(key, target) == [key |-> key, kind |-> "advance", target |-> target, same |-> FALSE, code |-> "none"]
Fail(key, code) == [key |-> key, kind |-> "fail", target |-> "failed", same |-> FALSE, code |-> code]

Hold == [key |-> "hold", kind |-> "hold", target |-> "needs_action", same |-> FALSE, code |-> "unknown"]
Mark == [key |-> "mark", kind |-> "mark", target |-> "needs_action", same |-> TRUE, code |-> "reconciled"]
Requeue == [key |-> "requeue", kind |-> "requeue", target |-> "retrying", same |-> FALSE, code |-> "none"]
Return(target) == [key |-> "return", kind |-> "return", target |-> target, same |-> FALSE, code |-> "none"]

\* A writing failure a service fix cures (the shortest way to a retry that
\* resumes automatically), a pre-start hold with its reconciliation, and the
\* two places a recovered run returns to.
AllSteps ==
  { Advance("transcribing", "transcribing"), Fail("writing_failed", "service_fix"),
    Hold, Mark, Requeue, Return("queued"), Return("transcribing") }
==============================================================================
