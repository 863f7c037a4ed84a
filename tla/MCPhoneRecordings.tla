-------------------------- MODULE MCPhoneRecordings --------------------------
(* Instances of PhoneRecordings for TLC. *)
EXTENDS PhoneRecordings, TLC
===============================================================================
