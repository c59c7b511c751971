------------------------- MODULE MCArticleProcessing -------------------------
(* Instances of ArticleProcessing for TLC. *)
EXTENDS ArticleProcessing, TLC

CONSTANTS w1, w2, k1, k2, r1, r2, h1, h2
=============================================================================
