---------------------------- MODULE IndexDelivery ---------------------------
(***************************************************************************)
(* What the rest of NewsIntel may rely on of one article's delivery to one *)
(* search index, whatever leases, retries, crashes and late HTTP requests  *)
(* happen below: the promise of README section 3 ("Two details make the    *)
(* index trustworthy") stated as a machine.  A revision may be requested   *)
(* at any time; the index moves only forward and never past what was       *)
(* requested; a delivery is done only when the index holds the newest      *)
(* request, or when the index is one of an older schema that is no longer  *)
(* written.                                                                *)
(*                                                                         *)
(* SearchDelivery implements this module, SearchRebuild builds on it.      *)
(***************************************************************************)
EXTENDS Naturals

CONSTANTS
  Deliveries,    \* one per article and index target
  Outdated       \* those whose index an older schema version built

VARIABLES
  requested,     \* the newest revision asked for
  indexed,       \* the revision the row says was delivered
  stored,        \* the version the index holds; 0 when it has no document
  outcome        \* open, done or failed

vars == <<requested, indexed, stored, outcome>>

Init ==
  /\ requested \in [Deliveries -> Nat \ {0}]
  /\ indexed = [d \in Deliveries |-> 0]
  /\ stored  = [d \in Deliveries |-> 0]
  /\ outcome = [d \in Deliveries |-> "open"]

\* The article changed.
Request(d) ==
  /\ requested' = [requested EXCEPT ![d] = @ + 1]
  /\ outcome'   = [outcome EXCEPT ![d] = "open"]
  /\ UNCHANGED <<indexed, stored>>

\* A document reaches the index: newer than what is there, though not
\* necessarily the newest one asked for.
Land(d) ==
  /\ \E revision \in (stored[d] + 1)..requested[d] :
       stored' = [stored EXCEPT ![d] = revision]
  /\ UNCHANGED <<requested, indexed, outcome>>

Done(d) ==
  /\ outcome[d] = "open"
  /\ d \in Outdated \/ stored[d] = requested[d]
  /\ indexed' = [indexed EXCEPT ![d] = requested[d]]
  /\ outcome' = [outcome EXCEPT ![d] = "done"]
  /\ UNCHANGED <<requested, stored>>

GiveUp(d) ==
  /\ outcome[d] = "open"
  /\ outcome' = [outcome EXCEPT ![d] = "failed"]
  /\ UNCHANGED <<requested, indexed, stored>>

Retry(d) ==
  /\ outcome[d] = "failed"
  /\ outcome' = [outcome EXCEPT ![d] = "open"]
  /\ UNCHANGED <<requested, indexed, stored>>

Next ==
  \E d \in Deliveries : Request(d) \/ Land(d) \/ Done(d) \/ GiveUp(d) \/ Retry(d)

Spec == Init /\ [][Next]_vars
=============================================================================
