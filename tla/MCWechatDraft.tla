---------------------------- MODULE MCWechatDraft ----------------------------
(* The WeChat phase with every kind of fault. *)
EXTENDS WechatDraftInvariants

AllPlaces == {"store", "d1", "main", "call", "settle", "service", "account", "engine", "edit", "app"}
OnlyCoordinator == {"main"}
==============================================================================
