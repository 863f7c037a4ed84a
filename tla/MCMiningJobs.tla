----------------------------- MODULE MCMiningJobs -----------------------------
(***************************************************************************)
(* Instances of MiningJobs for TLC.                                        *)
(***************************************************************************)
EXTENDS MiningJobs, TLC

==============================================================================
