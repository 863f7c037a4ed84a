---------------------------- MODULE MCVisualCalls ----------------------------
(***************************************************************************)
(* Instances of VisualCalls for TLC.                                       *)
(***************************************************************************)
EXTENDS VisualCalls, TLC

\* Step executions are interchangeable, and so are adapter requests.
Symmetry == Permutations(Workers) \cup Permutations(Visits)

==============================================================================
