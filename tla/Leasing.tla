------------------------------ MODULE Leasing -------------------------------
(***************************************************************************)
(* The claims, leases and retries every queue table of NewsIntel shares    *)
(* (backend/app/jobs/leasing.py): operators on one row, as the functions   *)
(* there change one row in memory while the caller holds its lock.         *)
(*                                                                         *)
(* Time is abstracted to what the code compares with `now`: `due` stands   *)
(* for next_attempt_at <= now and `leased` for claim_expires_at > now; the *)
(* modules that use a row let the clock make either comparison flip at any *)
(* moment.  A token is a uuid4: a member of a set of which the user of the *)
(* module picks one that nothing refers to any more.  The attempt counter  *)
(* stops at the queue's limit, because the code only asks whether it has   *)
(* reached it.                                                             *)
(***************************************************************************)
EXTENDS Naturals

CONSTANT
  None           \* a column that is NULL

ActiveStatuses == {"queued", "running", "retrying"}
QueueStatuses  == ActiveStatuses \cup {"succeeded", "failed"}

\* A lease always belongs to a token; a token may outlive its lease.
LeaseRows(Tokens, limit) ==
  {row \in [status : QueueStatuses, due : BOOLEAN, token : Tokens \cup {None},
            leased : BOOLEAN, attempts : 0..limit] : row.leased => row.token # None}

\* A row as the producing transaction inserts it.
NewRow == [status |-> "queued", due |-> TRUE, token |-> None,
           leased |-> FALSE, attempts |-> 0]

\* Mutant: only a row nobody has claimed, so that no lease is ever taken over.
ClaimableUnclaimed(row) ==
  row.status \in ActiveStatuses /\ row.due /\ row.token = None

\* Active, due, and not leased to a worker (a lease that ran out frees it).
Claimable(row) == row.status \in ActiveStatuses /\ row.due /\ ~row.leased

Claimed(row, token, limit) ==
  [row EXCEPT !.status   = "running",
              !.token    = token,
              !.leased   = TRUE,
              !.attempts = IF @ < limit THEN @ + 1 ELSE @]

\* Mutant: the lease is left behind.
ReleasedTokenOnly(row) == [row EXCEPT !.token = None]

Released(row) == [row EXCEPT !.token = None, !.leased = FALSE]

Exhausted(attempts, limit) == attempts >= limit

\* Mutant: the attempt that is not the last keeps its token.
FailureRecordedUnreleased(row, limit, permanent) ==
  IF permanent \/ Exhausted(row.attempts, limit)
  THEN [Released(row) EXCEPT !.status = "failed"]
  ELSE [row EXCEPT !.status = "retrying", !.due = FALSE]

\* Released, and failed for good or left to wait for its backoff.
FailureRecorded(row, limit, permanent) ==
  IF permanent \/ Exhausted(row.attempts, limit)
  THEN [Released(row) EXCEPT !.status = "failed"]
  ELSE [Released(row) EXCEPT !.status = "retrying", !.due = FALSE]
=============================================================================
