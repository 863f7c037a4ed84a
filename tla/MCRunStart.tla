------------------------------ MODULE MCRunStart ------------------------------
(***************************************************************************)
(* Instances of RunStart for TLC.                                          *)
(***************************************************************************)
EXTENDS RunStart, TLC

Symmetric == Permutations(Requests) \cup Permutations(Texts)
==============================================================================
