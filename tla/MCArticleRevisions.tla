------------------------- MODULE MCArticleRevisions -------------------------
(* Instances of ArticleRevisions for TLC. *)
EXTENDS ArticleRevisions, TLC

Both == Keys \cup Requests
=============================================================================
