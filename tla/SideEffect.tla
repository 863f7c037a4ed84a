------------------------------ MODULE SideEffect ------------------------------
(***************************************************************************)
(* What the publishing pipeline promises about an external operation it    *)
(* cannot make idempotent (an image generation that is paid for), with no  *)
(* ledgers, no adapters and no crashes: numbered attempts, at most one of  *)
(* them open, a new one only after the one before was refused in a way     *)
(* that may be tried again, and at most one effect in all.                 *)
(***************************************************************************)
EXTENDS Naturals

CONSTANT MaxAttempts

VARIABLES
  tries,   \* requests ever sent
  phase,   \* "ready", "open", "refused" (may be tried again) or "closed"
  effects  \* effects that ever happened

effectVars == <<tries, phase, effects>>

Init == tries = 0 /\ phase = "ready" /\ effects = 0

\* A request goes out.
Begin ==
  /\ phase \in {"ready", "refused"} /\ tries < MaxAttempts
  /\ tries' = tries + 1 /\ phase' = "open"
  /\ UNCHANGED effects

\* The open request has its effect; nobody may know yet.
Happen ==
  /\ phase = "open" /\ effects = 0
  /\ effects' = 1
  /\ UNCHANGED <<tries, phase>>

\* The open request is known to have been refused without effect.
Refuse ==
  /\ phase = "open" /\ effects = 0
  /\ phase' = "refused"
  /\ UNCHANGED <<tries, effects>>

\* The operation is over: done, or given up.
Close ==
  /\ phase # "closed"
  /\ phase' = "closed"
  /\ UNCHANGED <<tries, effects>>

Next == Begin \/ Happen \/ Refuse \/ Close

Spec == Init /\ [][Next]_effectVars

==============================================================================
