--------------------------- MODULE MCVisualRecovery ---------------------------
(***************************************************************************)
(* An instance of VisualRecovery for TLC.                                  *)
(***************************************************************************)
EXTENDS VisualRecovery

===============================================================================
