------------------------------ MODULE MCStories -------------------------------
(* Articles that may be alike in a row, a1 - a2 - a3 - a4, so that two stories   *)
(* may meet when their middle is read again.                                   *)
EXTENDS Stories, TLC

CONSTANTS a1, a2, a3, a4, f1, f2

InARow == SUBSET {{a1, a2}, {a2, a3}, {a3, a4}}

\* Neighbours are of different outlets.
Alternating == {a1 :> {f1} @@ a2 :> {f2} @@ a3 :> {f1} @@ a4 :> {f2}}

\* Three articles, of two outlets.
AnyPairs == SUBSET kSubset(2, {a1, a2, a3})

TwoOutlets == {a1 :> {f1} @@ a2 :> {f2} @@ a3 :> {f1}}
=============================================================================
