-------------------------- MODULE PublicationLedger --------------------------
(***************************************************************************)
(* What the publication projection promises its callers, with no row       *)
(* snapshots, no compare-and-set and no retries: a run is a state that     *)
(* atomic steps move, each step carries an idempotency key that takes      *)
(* effect at most once, and success is acknowledged only for keys that     *)
(* took effect.                                                            *)
(***************************************************************************)
EXTENDS PublicationStates

CONSTANT Keys

VARIABLES
  status,       \* the run's state
  resume,       \* the state a retrying run returns to, or "none"
  held,         \* an external side effect is unknown
  applied,      \* keys that took effect
  acknowledged  \* keys whose success some caller was told

ledgerVars == <<status, resume, held, applied, acknowledged>>

Init ==
  /\ status = "queued" /\ resume = "none" /\ held = FALSE
  /\ applied \in {{k} : k \in Keys}
  /\ acknowledged = {}

\* A cancelled or finished run is over.
Final == status \in {"draft_ready", "cancelled"}

\* Where a run may go: out of a hold only to its reconciled needs_action,
\* out of a retry only to where it stopped or to cancelled.
MayMove(s, h) ==
  /\ ~Final
  /\ held => s = "needs_action" /\ ~h
  /\ status = "retrying" => s \in {resume, "cancelled"}
  /\ s = "retrying" => status \in {"failed", "needs_action"}
  /\ status \in {"failed", "needs_action"} => s \in {status, "retrying", "cancelled"}
  /\ h => s = "needs_action"

\* A key takes effect; its caller may be told in the same instant.
Apply(k, s) ==
  /\ k \notin applied
  /\ \E h \in BOOLEAN : MayMove(s, h) /\ held' = h
  /\ status' = s
  /\ resume' \in IF s = "retrying" THEN SUCCESSFUL_STATES ELSE {"none"}
  /\ applied' = applied \cup {k}
  /\ acknowledged' \in {acknowledged, acknowledged \cup {k}}

\* A caller is told, possibly again, that its key took effect.
Acknowledge(k) ==
  /\ k \in applied
  /\ acknowledged' = acknowledged \cup {k}
  /\ UNCHANGED <<status, resume, held, applied>>

Next == \E k \in Keys : Acknowledge(k) \/ \E s \in PUBLICATION_STATES : Apply(k, s)

Spec == Init /\ [][Next]_ledgerVars

==============================================================================
