---------------------------- MODULE MCWechatOperation ----------------------------
(* Two requests at a time for a read and a write of one article. *)
EXTENDS WechatOperation, TLC

RequestSymmetry == Permutations(Requests)
=============================================================================
