---------------------------- MODULE MCTextWorkflow ----------------------------
(* TextWorkflow with the faults a run of the checker may inject. *)
EXTENDS TextWorkflow

AllPlaces == {"d1", "main", "receipt", "store", "call", "service", "engine"}
OnlyReceipt == {"receipt"}

==============================================================================
