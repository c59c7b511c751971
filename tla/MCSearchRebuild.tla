--------------------------- MODULE MCSearchRebuild ---------------------------
(* Instances of SearchRebuild for TLC. *)
EXTENDS SearchRebuild

CONSTANTS t1, t2, c1, c2

Indices2 == {t1, t2}
=============================================================================
