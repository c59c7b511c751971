--------------------------- MODULE MCSearchDelivery --------------------------
(* Instances of SearchDelivery for TLC. *)
EXTENDS SearchDelivery

CONSTANTS d1, w1, w2, t1, t2

Workers2 == {w1, w2}
Tokens2  == {t1, t2}
=============================================================================
