------------------------ MODULE SearchDeliveryProofs ------------------------
(***************************************************************************)
(* Proofs about SearchDelivery for any number of deliveries, workers and   *)
(* tokens and any limits.                                                  *)
(***************************************************************************)
EXTENDS SearchDelivery, TLAPS

\* The three row operators keep a row well formed.
LEMMA RowOperators ==
  ASSUME NEW limit \in Nat \ {0}, NEW row0 \in LeaseRows(Tokens, limit)
  PROVE  /\ \A token \in Tokens : Claimed(row0, token, limit) \in LeaseRows(Tokens, limit)
         /\ Released(row0) \in LeaseRows(Tokens, limit)
         /\ \A permanent \in BOOLEAN :
              FailureRecorded(row0, limit, permanent) \in LeaseRows(Tokens, limit)
         /\ Requeued(row0) \in LeaseRows(Tokens, limit)
         /\ [Released(row0) EXCEPT !.status = "succeeded"] \in LeaseRows(Tokens, limit)
         /\ [row0 EXCEPT !.leased = FALSE] \in LeaseRows(Tokens, limit)
         /\ [row0 EXCEPT !.due = TRUE] \in LeaseRows(Tokens, limit)
<1> USE SearchConstants DEF LeaseRows, QueueStatuses, ActiveStatuses
<1>1. \A token \in Tokens : Claimed(row0, token, limit) \in LeaseRows(Tokens, limit)
  <2> TAKE token \in Tokens
  <2> DEFINE counted == IF row0.attempts < limit THEN row0.attempts + 1 ELSE row0.attempts
  <2>1. counted \in 0..limit
    OBVIOUS
  <2>2. Claimed(row0, token, limit) =
          [row0 EXCEPT !.status = "running", !.token = token, !.leased = TRUE,
                       !.attempts = counted]
    BY DEF Claimed
  <2> HIDE DEF counted
  <2> QED
    BY <2>1, <2>2
<1>2. Released(row0) \in LeaseRows(Tokens, limit)
  BY DEF Released
<1>3. \A permanent \in BOOLEAN :
        FailureRecorded(row0, limit, permanent) \in LeaseRows(Tokens, limit)
  BY DEF FailureRecorded, Released
<1>4. /\ Requeued(row0) \in LeaseRows(Tokens, limit)
      /\ [row0 EXCEPT !.leased = FALSE] \in LeaseRows(Tokens, limit)
      /\ [row0 EXCEPT !.due = TRUE] \in LeaseRows(Tokens, limit)
  BY DEF Requeued
<1>5. [Released(row0) EXCEPT !.status = "succeeded"] \in LeaseRows(Tokens, limit)
  BY DEF Released
<1> QED
  BY <1>1, <1>2, <1>3, <1>4, <1>5

\* A worker that is not idle has a delivery, a token and a revision.
LEMMA BusyWorker ==
  ASSUME NEW state \in WorkerStates, state.pc # "idle"
  PROVE  /\ state \in [pc : {"write", "ack", "fail"}, delivery : Deliveries, token : Tokens,
                       revision : Nat, outcome : Outcomes \cup {"none"}]
         /\ state # Idle
  BY DEF WorkerStates, Idle

-----------------------------------------------------------------------------
LEMMA TypeInit == Init => TypeOK
  BY SearchConstants DEF Init, TypeOK, LeaseRows, NewRow, QueueStatuses, ActiveStatuses,
     WorkerStates, Idle, Messages

LEMMA TypeStep == TypeOK /\ [Next]_vars => TypeOK'
<1> SUFFICES ASSUME TypeOK, [Next]_vars PROVE TypeOK'
  OBVIOUS
<1> USE SearchConstants DEF TypeOK
<1>1. ASSUME NEW d \in Deliveries, RequestIndexing(d) PROVE TypeOK'
  <2>1. row' \in [Deliveries -> LeaseRows(Tokens, MaxAttempts)]
    BY <1>1, RowOperators DEF RequestIndexing
  <2>2. requested' \in [Deliveries -> Nat \ {0}]
    BY <1>1 DEF RequestIndexing
  <2> QED
    BY <1>1, <2>1, <2>2 DEF RequestIndexing
<1>2. ASSUME NEW d \in Deliveries, RetryDelivery(d) PROVE TypeOK'
  BY <1>2, RowOperators DEF RetryDelivery
<1>3. ASSUME NEW d \in Deliveries, LeaseExpires(d) PROVE TypeOK'
  BY <1>3, RowOperators DEF LeaseExpires
<1>4. ASSUME NEW d \in Deliveries, BackoffEnds(d) PROVE TypeOK'
  BY <1>4, RowOperators DEF BackoffEnds
<1>5. ASSUME NEW d \in Deliveries, NEW token \in Tokens, NEW sent \in BOOLEAN,
             ClaimDelivery(d, token, sent)
      PROVE  TypeOK'
  <2>1. row' \in [Deliveries -> LeaseRows(Tokens, MaxAttempts)]
    BY <1>5, RowOperators DEF ClaimDelivery
  <2>2. messages' \subseteq Messages
    BY <1>5 DEF ClaimDelivery, Messages
  <2> QED
    BY <1>5, <2>1, <2>2 DEF ClaimDelivery
<1>6. ASSUME NEW w \in Workers, NEW m \in messages, LoadStale(w, m) PROVE TypeOK'
  BY <1>6 DEF LoadStale
<1>7. ASSUME NEW w \in Workers, NEW m \in messages, NEW raises \in BOOLEAN, Load(w, m, raises)
      PROVE  TypeOK'
  BY <1>7 DEF Load, Messages, WorkerStates, Outcomes
<1>8. ASSUME NEW w \in Workers, Write(w) PROVE TypeOK'
  <2>1. worker[w] \in [pc : {"write", "ack", "fail"}, delivery : Deliveries, token : Tokens,
                       revision : Nat, outcome : Outcomes \cup {"none"}]
    BY <1>8, BusyWorker DEF Write, WriteApplied, WriteConflicts, WriteRejected, WriteUnavailable
  <2>2. worker' \in [Workers -> WorkerStates]
    BY <1>8, <2>1 DEF Write, WriteApplied, WriteConflicts, WriteRejected, WriteUnavailable,
       Answered, ResultOutcome, WorkerStates, Outcomes
  <2>3. stored' \in [Deliveries -> Nat] /\ late' \subseteq [delivery : Deliveries, revision : Nat]
    BY <1>8, <2>1 DEF Write, WriteApplied, WriteConflicts, WriteRejected, WriteUnavailable
  <2> QED
    BY <1>8, <2>2, <2>3
    DEF Write, WriteApplied, WriteConflicts, WriteRejected, WriteUnavailable
<1>9. ASSUME NEW w \in Workers, Acknowledge(w) PROVE TypeOK'
  <2>1. worker[w] \in [pc : {"write", "ack", "fail"}, delivery : Deliveries, token : Tokens,
                       revision : Nat, outcome : Outcomes \cup {"none"}]
    BY <1>9, BusyWorker DEF Acknowledge
  <2>2. Acknowledged(worker[w].delivery, worker[w].outcome) \in LeaseRows(Tokens, MaxAttempts)
    BY <2>1, RowOperators DEF Acknowledged
  <2>3. row' \in [Deliveries -> LeaseRows(Tokens, MaxAttempts)]
    BY <1>9, <2>1, <2>2, RowOperators DEF Acknowledge
  <2>4. worker' \in [Workers -> WorkerStates] /\ messages' \subseteq Messages
    BY <1>9 DEF Acknowledge, Finished, WorkerStates
  <2> QED
    BY <1>9, <2>1, <2>3, <2>4 DEF Acknowledge
<1>10. ASSUME NEW w \in Workers, AcknowledgeRaises(w) PROVE TypeOK'
  <2>1. worker[w] \in [pc : {"write", "ack", "fail"}, delivery : Deliveries, token : Tokens,
                       revision : Nat, outcome : Outcomes \cup {"none"}]
    BY <1>10, BusyWorker DEF AcknowledgeRaises
  <2> QED
    BY <1>10, <2>1 DEF AcknowledgeRaises, WorkerStates
<1>11. ASSUME NEW w \in Workers, FailAttempt(w) PROVE TypeOK'
  <2>1. worker[w] \in [pc : {"write", "ack", "fail"}, delivery : Deliveries, token : Tokens,
                       revision : Nat, outcome : Outcomes \cup {"none"}]
    BY <1>11, BusyWorker DEF FailAttempt
  <2>2. row' \in [Deliveries -> LeaseRows(Tokens, MaxAttempts)]
    BY <1>11, <2>1, RowOperators DEF FailAttempt
  <2> QED
    BY <1>11, <2>2 DEF FailAttempt, Finished, WorkerStates
<1>12. ASSUME NEW w \in Workers, NEW requeued \in BOOLEAN, Crash(w, requeued) PROVE TypeOK'
  BY <1>12 DEF Crash, WorkerStates
<1>13. ASSUME NEW write \in late, LateWriteLands(write) PROVE TypeOK'
  BY <1>13 DEF LateWriteLands
<1>14. CASE UNCHANGED vars
  BY <1>14 DEF vars
<1> QED
  BY <1>1, <1>2, <1>3, <1>4, <1>5, <1>6, <1>7, <1>8, <1>9, <1>10, <1>11, <1>12, <1>13, <1>14
  DEF Next, Write

\* Every reachable state is well formed: in particular a lease always belongs
\* to a token, and a worker that is doing something has a delivery to do.
THEOREM TypeCorrect == Spec => []TypeOK
  BY TypeInit, TypeStep, PTL DEF Spec

-----------------------------------------------------------------------------
(* The inductive invariant.  That indexed revisions are stored needs to know
   what a worker's answer proves about the index by the time it is
   acknowledged, and that a conflict cannot pass for the requested revision
   needs that nothing in the system, written or under way, is ahead of the
   request. *)

NothingAheadOfRequest ==
  /\ \A d \in Deliveries : stored[d] <= requested[d] /\ indexed[d] <= requested[d]
  /\ \A write \in late : write.revision <= requested[write.delivery]
  /\ \A w \in Workers :
       worker[w].pc # "idle" => worker[w].revision <= requested[worker[w].delivery]

AnswersHold ==
  \A w \in Workers :
    /\ worker[w].outcome # "none" => worker[w].pc = "ack"
    /\ worker[w].outcome = "success" /\ worker[w].delivery \notin Outdated
         => stored[worker[w].delivery] >= worker[w].revision
    /\ worker[w].outcome = "duplicate"
         => stored[worker[w].delivery] > worker[w].revision

SettledIsFree ==
  \A d \in Deliveries : row[d].status \in {"succeeded", "failed"} => row[d].token = None

IndInv ==
  /\ TypeOK
  /\ NothingAheadOfRequest
  /\ AnswersHold
  /\ SettledIsFree
  /\ SucceededIsCurrent
  /\ IndexedIsStored

LEMMA IndInit == Init => IndInv
<1> SUFFICES ASSUME Init PROVE IndInv
  OBVIOUS
<1>1. TypeOK
  BY TypeInit
<1>2. NothingAheadOfRequest /\ IndexedIsStored
  BY SearchConstants DEF Init, NothingAheadOfRequest, IndexedIsStored, Idle
<1>3. AnswersHold
  BY DEF Init, AnswersHold, Idle
<1>4. SettledIsFree /\ SucceededIsCurrent
  BY DEF Init, SettledIsFree, SucceededIsCurrent, NewRow
<1> QED
  BY <1>1, <1>2, <1>3, <1>4 DEF IndInv

LEMMA IndStep == IndInv /\ [Next]_vars => IndInv'
<1> SUFFICES ASSUME IndInv, [Next]_vars PROVE IndInv'
  OBVIOUS
<1>0. TypeOK'
  BY TypeStep DEF IndInv
<1> USE SearchConstants
    DEF IndInv, TypeOK, NothingAheadOfRequest, AnswersHold, SettledIsFree,
        SucceededIsCurrent, IndexedIsStored
<1>1. ASSUME NEW d \in Deliveries, RequestIndexing(d) PROVE IndInv'
  <2>1. requested'[d] = requested[d] + 1 /\ requested[d] \in Nat
        /\ \A e \in Deliveries \ {d} : requested'[e] = requested[e]
    BY <1>1 DEF RequestIndexing
  <2>2. row'[d].status = "queued" /\ \A e \in Deliveries \ {d} : row'[e] = row[e]
    BY <1>1 DEF RequestIndexing, Requeued, LeaseRows
  <2>3. \A e \in Deliveries : requested[e] \in Nat /\ requested'[e] \in Nat /\ requested'[e] >= requested[e]
    BY <2>1
  <2>4. NothingAheadOfRequest'
    <3>1. \A e \in Deliveries : stored'[e] <= requested'[e] /\ indexed'[e] <= requested'[e]
      BY <1>1, <2>3 DEF RequestIndexing
    <3>2. \A write \in late' : write.revision <= requested'[write.delivery]
      BY <1>1, <2>3 DEF RequestIndexing
    <3>3. \A w \in Workers :
            worker'[w].pc # "idle" => worker'[w].revision <= requested'[worker'[w].delivery]
      BY <1>1, <2>3, BusyWorker DEF RequestIndexing
    <3> QED
      BY <3>1, <3>2, <3>3
  <2>5. SettledIsFree' /\ SucceededIsCurrent'
    BY <1>1, <2>1, <2>2 DEF RequestIndexing
  <2> QED
    BY <1>0, <1>1, <2>4, <2>5 DEF RequestIndexing
<1>2. ASSUME NEW d \in Deliveries, RetryDelivery(d) PROVE IndInv'
  BY <1>0, <1>2 DEF RetryDelivery, Requeued, LeaseRows
<1>3. ASSUME NEW d \in Deliveries, LeaseExpires(d) PROVE IndInv'
  BY <1>0, <1>3 DEF LeaseExpires, LeaseRows
<1>4. ASSUME NEW d \in Deliveries, BackoffEnds(d) PROVE IndInv'
  BY <1>0, <1>4 DEF BackoffEnds, LeaseRows
<1>5. ASSUME NEW d \in Deliveries, NEW token \in Tokens, NEW sent \in BOOLEAN,
             ClaimDelivery(d, token, sent)
      PROVE  IndInv'
  BY <1>0, <1>5 DEF ClaimDelivery, Claimed, LeaseRows
<1>6. ASSUME NEW w \in Workers, NEW m \in messages, LoadStale(w, m) PROVE IndInv'
  BY <1>0, <1>6 DEF LoadStale
<1>7. ASSUME NEW w \in Workers, NEW m \in messages, NEW raises \in BOOLEAN, Load(w, m, raises)
      PROVE  IndInv'
  BY <1>0, <1>7 DEF Load, Messages
<1>8. ASSUME NEW w \in Workers, Write(w) PROVE IndInv'
  BY <1>0, <1>8, BusyWorker DEF Write, WriteApplied, WriteConflicts, WriteRejected, WriteUnavailable, Answered, ResultOutcome, Accepts
<1>9. ASSUME NEW w \in Workers, Acknowledge(w) PROVE IndInv'
  BY <1>0, <1>9, BusyWorker DEF Acknowledge, Acknowledged, Settles, Finished, Idle, Released, FailureRecorded, LeaseRows
<1>10. ASSUME NEW w \in Workers, AcknowledgeRaises(w) PROVE IndInv'
  BY <1>0, <1>10, BusyWorker DEF AcknowledgeRaises
<1>11. ASSUME NEW w \in Workers, FailAttempt(w) PROVE IndInv'
  BY <1>0, <1>11, BusyWorker DEF FailAttempt, Finished, Idle, Released, FailureRecorded, LeaseRows
<1>12. ASSUME NEW w \in Workers, NEW requeued \in BOOLEAN, Crash(w, requeued) PROVE IndInv'
  BY <1>0, <1>12 DEF Crash, Idle
<1>13. ASSUME NEW write \in late, LateWriteLands(write) PROVE IndInv'
  <2>1. write.delivery \in Deliveries /\ write.revision \in Nat
    BY <1>13
  <2>2. \A d \in Deliveries : stored'[d] >= stored[d] /\ stored'[d] <= requested[d]
    BY <1>13, <2>1 DEF LateWriteLands, Accepts
  <2>3. IndexedIsStored'
    BY <1>0, <1>13, <2>2 DEF LateWriteLands
  <2>4. AnswersHold'
    <3> SUFFICES ASSUME NEW w \in Workers
                 PROVE  /\ worker[w].outcome # "none" => worker[w].pc = "ack"
                        /\ worker[w].outcome = "success" /\ worker[w].delivery \notin Outdated
                             => stored'[worker[w].delivery] >= worker[w].revision
                        /\ worker[w].outcome = "duplicate"
                             => stored'[worker[w].delivery] > worker[w].revision
      BY <1>13 DEF LateWriteLands
    <3>1. CASE worker[w].pc = "idle"
      BY <3>1
    <3>2. CASE worker[w].pc # "idle"
      <4>1. worker[w].delivery \in Deliveries /\ worker[w].revision \in Nat
        BY <3>2, BusyWorker
      <4> QED
        BY <1>0, <2>2, <4>1
    <3> QED
      BY <3>1, <3>2
  <2>5. NothingAheadOfRequest'
    BY <1>13, <2>2 DEF LateWriteLands
  <2>6. SettledIsFree' /\ SucceededIsCurrent'
    BY <1>13 DEF LateWriteLands
  <2> QED
    BY <1>0, <2>3, <2>4, <2>5, <2>6
<1>14. CASE UNCHANGED vars
  BY <1>14 DEF vars
<1> QED
  BY <1>1, <1>2, <1>3, <1>4, <1>5, <1>6, <1>7, <1>8, <1>9, <1>10, <1>11, <1>12, <1>13, <1>14
  DEF Next, Write

LEMMA Invariant == Spec => []IndInv
  BY IndInit, IndStep, PTL DEF Spec

\* Whatever order workers, late writes and errors come in, a revision the row
\* reports as indexed is in the index, or a newer one is.
THEOREM IndexedIsStoredHolds == Spec => []IndexedIsStored
<1>1. IndInv => IndexedIsStored
  BY DEF IndInv
<1> QED
  BY <1>1, Invariant, PTL

\* A row that has succeeded owes no revision and is held by nobody.
THEOREM SucceededIsCurrentHolds == Spec => []SucceededIsCurrent
<1>1. IndInv => SucceededIsCurrent
  BY DEF IndInv
<1> QED
  BY <1>1, Invariant, PTL

\* Counting a 409 as delivered is right: the conflict proves a newer request.
THEOREM ConflictMeansNewerRequestHolds == Spec => []ConflictMeansNewerRequest
<1>1. ASSUME IndInv PROVE ConflictMeansNewerRequest
  <2> SUFFICES ASSUME NEW w \in Workers, worker[w].outcome = "duplicate"
               PROVE  worker[w].revision < requested[worker[w].delivery]
    BY DEF ConflictMeansNewerRequest
  <2>1. worker[w].pc = "ack"
    BY <1>1 DEF IndInv, AnswersHold
  <2>2. /\ worker[w].delivery \in Deliveries
        /\ worker[w].revision \in Nat
    BY <1>1, <2>1, BusyWorker DEF IndInv, TypeOK
  <2>3. /\ stored[worker[w].delivery] > worker[w].revision
        /\ stored[worker[w].delivery] <= requested[worker[w].delivery]
    BY <1>1, <2>2 DEF IndInv, AnswersHold, NothingAheadOfRequest
  <2> QED
    BY <1>1, <2>2, <2>3 DEF IndInv, TypeOK
<1> QED
  BY <1>1, Invariant, PTL

\* The three together: what the queue says of its deliveries is so, for any sets of
\* deliveries, workers and tokens.
THEOREM ReportsAreTrueHolds == Spec => []ReportsAreTrue
  BY IndexedIsStoredHolds, SucceededIsCurrentHolds, ConflictMeansNewerRequestHolds, PTL
  DEF ReportsAreTrue

-----------------------------------------------------------------------------
(* Every step of the queue is a step of an IndexDelivery, or leaves it as it
   is. *)

\* What a step may do to the delivery it acknowledges, in the terms of the
\* abstraction; both the refinement and the monotonicity below rest on it.
LEMMA AcknowledgeSettles ==
  ASSUME IndInv, NEW w \in Workers, Acknowledge(w)
  PROVE  \/ UNCHANGED <<requested, indexed, stored, Outcome>>
         \/ Abstract!Done(worker[w].delivery)
         \/ Abstract!GiveUp(worker[w].delivery)
<1> DEFINE d == worker[w].delivery
<1>1. /\ d \in Deliveries /\ worker[w].token \in Tokens
      /\ worker[w].revision \in Nat /\ worker[w].outcome \in Outcomes \cup {"none"}
  BY BusyWorker DEF Acknowledge, IndInv, TypeOK
<1>2. row \in [Deliveries -> LeaseRows(Tokens, MaxAttempts)]
  BY DEF IndInv, TypeOK
<1>3. CASE row[d].token # worker[w].token
  BY <1>1, <1>3 DEF Acknowledge, Outcome
<1>4. CASE row[d].token = worker[w].token
  <2>1. row[d].status \in ActiveStatuses /\ Outcome[d] = "open"
    BY <1>1, <1>2, <1>4, SearchConstants
    DEF IndInv, SettledIsFree, Outcome, LeaseRows, QueueStatuses, ActiveStatuses
  <2>2. CASE ~Settles(d, worker[w].revision)
    <3>1. row' = [row EXCEPT ![d] = Released(@)] /\ indexed' = indexed
      BY <1>4, <2>2 DEF Acknowledge
    <3>2. row'[d].status = row[d].status /\ \A e \in Deliveries \ {d} : row'[e] = row[e]
      BY <1>1, <1>2, <3>1 DEF Released, LeaseRows
    <3> QED
      BY <3>1, <3>2 DEF Acknowledge, Outcome
  <2>3. CASE Settles(d, worker[w].revision)
    <3>1. row' = [row EXCEPT ![d] = Acknowledged(d, worker[w].outcome)]
      BY <1>4, <2>3 DEF Acknowledge
    <3>2. requested' = requested /\ stored' = stored
      BY DEF Acknowledge
    <3>3. CASE worker[w].outcome \in {"success", "duplicate"}
      <4>1. row'[d].status = "succeeded"
        BY <1>1, <1>2, <3>1, <3>3 DEF Acknowledged, Released, LeaseRows
      <4>2. Outcome' = [Outcome EXCEPT ![d] = "done"]
        <5>1. \A e \in Deliveries \ {d} : row'[e] = row[e]
          BY <1>1, <1>2, <3>1
        <5> QED
          BY <1>1, <4>1, <5>1 DEF Outcome
      <4>3. indexed' = [indexed EXCEPT ![d] = requested[d]]
        BY <1>4, <2>3, <3>3 DEF Acknowledge, Settles
      <4>4. d \in Outdated \/ stored[d] = requested[d]
        <5>1. stored[d] <= requested[d] /\ stored[d] \in Nat /\ requested[d] \in Nat
          BY <1>1 DEF IndInv, TypeOK, NothingAheadOfRequest
        <5>2. worker[w].revision = requested[d]
          BY <2>3 DEF Settles
        <5>3. d \in Outdated \/ stored[d] >= worker[w].revision
          BY <1>1, <3>3, <5>1 DEF IndInv, AnswersHold
        <5> QED
          BY <5>1, <5>2, <5>3
      <4> QED
        BY <2>1, <3>2, <4>2, <4>3, <4>4 DEF Abstract!Done
    <3>4. CASE worker[w].outcome \notin {"success", "duplicate"}
      <4>1. indexed' = indexed
        BY <3>4 DEF Acknowledge
      <4>2. row'[d].status \in {"failed", "retrying"}
        BY <1>1, <1>2, <3>1, <3>4
        DEF Acknowledged, FailureRecorded, Released, LeaseRows
      <4>3. Outcome' = [Outcome EXCEPT ![d] = "failed"] \/ Outcome' = [Outcome EXCEPT ![d] = "open"]
        <5>1. \A e \in Deliveries \ {d} : row'[e] = row[e]
          BY <1>1, <1>2, <3>1
        <5>2. CASE row'[d].status = "failed"
          BY <1>1, <5>1, <5>2 DEF Outcome
        <5>3. CASE row'[d].status = "retrying"
          BY <1>1, <5>1, <5>3 DEF Outcome
        <5> QED
          BY <4>2, <5>2, <5>3
      <4>4. [Outcome EXCEPT ![d] = "open"] = Outcome
        BY <2>1 DEF Outcome
      <4> QED
        BY <2>1, <3>2, <4>1, <4>3, <4>4 DEF Abstract!GiveUp
    <3> QED
      BY <3>3, <3>4
  <2> QED
    BY <2>2, <2>3
<1> QED
  BY <1>3, <1>4

\* Acknowledging is the only step that moves a row's indexed revision, and only
\* to the newest request, which nothing is ahead of.
THEOREM IndexNeverRegressesHolds == Spec => IndexNeverRegresses
<1> DEFINE Forward ==
      \A d \in Deliveries : stored'[d] >= stored[d] /\ indexed'[d] >= indexed[d]
<1>1. ASSUME IndInv, [Next]_vars PROVE Forward
  <2> USE <1>1 DEF IndInv, TypeOK
  <2>1. ASSUME NEW w \in Workers, Write(w) PROVE Forward
    BY <2>1 DEF Write, WriteApplied, WriteConflicts, WriteRejected, WriteUnavailable, Accepts
  <2>2. ASSUME NEW w \in Workers, Acknowledge(w) PROVE Forward
    <3>1. stored' = stored
      BY <2>2 DEF Acknowledge
    <3>2. \/ indexed' = indexed
          \/ \E d \in Deliveries : indexed' = [indexed EXCEPT ![d] = requested[d]]
      BY <2>2, BusyWorker DEF Acknowledge, Settles
    <3> QED
      BY <3>1, <3>2 DEF NothingAheadOfRequest
  <2>3. ASSUME NEW write \in late, LateWriteLands(write) PROVE Forward
    BY <2>3 DEF LateWriteLands, Accepts
  <2>4. CASE UNCHANGED <<stored, indexed>>
    BY <2>4
  <2> QED
    BY <2>1, <2>2, <2>3, <2>4
    DEF Next, vars, Write, RequestIndexing, RetryDelivery, LeaseExpires, BackoffEnds,
        ClaimDelivery, LoadStale, Load, AcknowledgeRaises, FailAttempt, Crash
<1>2. IndInv /\ [Next]_vars => [Forward]_vars
  BY <1>1
<1> HIDE DEF Forward
<1>3. Spec => [][Forward]_vars
  BY <1>2, Invariant, PTL DEF Spec
<1> QED
  BY <1>3 DEF IndexNeverRegresses, Forward

LEMMA AbstractInit == Init => Abstract!Init
<1> SUFFICES ASSUME Init PROVE Abstract!Init
  OBVIOUS
<1>1. Outcome = [d \in Deliveries |-> "open"]
  BY DEF Init, Outcome, NewRow
<1>2. requested \in [Deliveries -> Nat \ {0}]
  BY SearchConstants DEF Init
<1> QED
  BY <1>1, <1>2 DEF Init, Abstract!Init

LEMMA AbstractStep == IndInv /\ [Next]_vars => [Abstract!Next]_(Abstract!vars)
<1> DEFINE Same   == UNCHANGED <<requested, indexed, stored, Outcome>>
           Step   == \/ Same
                     \/ \E d \in Deliveries :
                          \/ Abstract!Request(d) \/ Abstract!Land(d) \/ Abstract!Done(d)
                          \/ Abstract!GiveUp(d) \/ Abstract!Retry(d)
<1> SUFFICES ASSUME IndInv, [Next]_vars PROVE Step
  BY DEF Abstract!Next, Abstract!vars
<1>0. /\ row \in [Deliveries -> LeaseRows(Tokens, MaxAttempts)]
      /\ requested \in [Deliveries -> Nat] /\ stored \in [Deliveries -> Nat]
      /\ worker \in [Workers -> WorkerStates]
      /\ late \subseteq [delivery : Deliveries, revision : Nat]
  BY DEF IndInv, TypeOK
<1>a. ASSUME NEW d \in Deliveries, NEW r \in LeaseRows(Tokens, MaxAttempts),
             row' = [row EXCEPT ![d] = r],
             r.status = row[d].status \/ {r.status, row[d].status} \subseteq ActiveStatuses
      PROVE  Outcome' = Outcome
  <2>1. \A e \in Deliveries \ {d} : row'[e] = row[e]
    BY <1>0, <1>a
  <2>2. row'[d] = r
    BY <1>0, <1>a
  <2> QED
    BY <1>0, <1>a, <2>1, <2>2 DEF Outcome, ActiveStatuses
<1>1. ASSUME NEW d \in Deliveries, RequestIndexing(d) PROVE Step
  <2>1. row'[d].status = "queued" /\ \A e \in Deliveries \ {d} : row'[e] = row[e]
    BY <1>0, <1>1 DEF RequestIndexing, Requeued, LeaseRows
  <2>2. Outcome' = [Outcome EXCEPT ![d] = "open"]
    BY <2>1 DEF Outcome
  <2> QED
    BY <1>1, <2>2 DEF RequestIndexing, Abstract!Request
<1>2. ASSUME NEW d \in Deliveries, RetryDelivery(d) PROVE Step
  <2>1. row'[d].status = "queued" /\ \A e \in Deliveries \ {d} : row'[e] = row[e]
    BY <1>0, <1>2 DEF RetryDelivery, Requeued, LeaseRows
  <2>2. Outcome' = [Outcome EXCEPT ![d] = "open"] /\ Outcome[d] = "failed"
    BY <1>2, <2>1 DEF Outcome, RetryDelivery
  <2> QED
    BY <1>2, <2>2 DEF RetryDelivery, Abstract!Retry
<1>3. ASSUME NEW d \in Deliveries, LeaseExpires(d) \/ BackoffEnds(d) PROVE Step
  <2>1. \/ row' = [row EXCEPT ![d] = [row[d] EXCEPT !.leased = FALSE]]
        \/ row' = [row EXCEPT ![d] = [row[d] EXCEPT !.due = TRUE]]
    BY <1>3 DEF LeaseExpires, BackoffEnds
  <2>2. row[d] \in LeaseRows(Tokens, MaxAttempts)
    BY <1>0
  <2>3. /\ [row[d] EXCEPT !.leased = FALSE] \in LeaseRows(Tokens, MaxAttempts)
        /\ [row[d] EXCEPT !.due = TRUE] \in LeaseRows(Tokens, MaxAttempts)
    BY <2>2, RowOperators, SearchConstants
  <2>4. /\ [row[d] EXCEPT !.leased = FALSE].status = row[d].status
        /\ [row[d] EXCEPT !.due = TRUE].status = row[d].status
    BY <2>2 DEF LeaseRows
  <2>5. Outcome' = Outcome
    BY <1>a, <2>1, <2>3, <2>4
  <2> QED
    BY <1>3, <2>5 DEF LeaseExpires, BackoffEnds
<1>4. ASSUME NEW d \in Deliveries, NEW token \in Tokens, NEW sent \in BOOLEAN,
             ClaimDelivery(d, token, sent)
      PROVE  Step
  <2>1. row' = [row EXCEPT ![d] = Claimed(row[d], token, MaxAttempts)]
    BY <1>4 DEF ClaimDelivery
  <2>2. Claimed(row[d], token, MaxAttempts) \in LeaseRows(Tokens, MaxAttempts)
    BY <1>0, RowOperators, SearchConstants
  <2>3. Claimed(row[d], token, MaxAttempts).status = "running" /\ row[d].status \in ActiveStatuses
    BY <1>0, <1>4 DEF ClaimDelivery, Claimable, Claimed, LeaseRows
  <2>4. Outcome' = Outcome
    BY <1>a, <2>1, <2>2, <2>3 DEF ActiveStatuses
  <2> QED
    BY <1>4, <2>4 DEF ClaimDelivery
<1>5. ASSUME UNCHANGED <<row, requested, indexed, stored>> PROVE Step
  BY <1>5 DEF Outcome
<1>6. ASSUME NEW w \in Workers, Acknowledge(w) PROVE Step
  <2>1. worker[w].delivery \in Deliveries
    BY <1>0, <1>6, BusyWorker DEF Acknowledge
  <2> QED
    BY <1>6, <2>1, AcknowledgeSettles
<1>7. ASSUME NEW w \in Workers, FailAttempt(w) PROVE Step
  <2> DEFINE d == worker[w].delivery
             r == FailureRecorded(row[d], MaxAttempts, FALSE)
  <2>1. d \in Deliveries /\ worker[w].token \in Tokens
    BY <1>0, <1>7, BusyWorker DEF FailAttempt
  <2>2. UNCHANGED <<requested, indexed, stored>>
    BY <1>7 DEF FailAttempt
  <2>3. CASE row[d].token # worker[w].token
    BY <1>7, <2>2, <2>3 DEF FailAttempt, Outcome
  <2>4. CASE row[d].token = worker[w].token
    <3>1. row' = [row EXCEPT ![d] = r]
      BY <1>7, <2>4 DEF FailAttempt
    <3>2. row[d].status \in ActiveStatuses /\ Outcome[d] = "open"
      BY <1>0, <2>1, <2>4, SearchConstants
      DEF IndInv, SettledIsFree, Outcome, LeaseRows, QueueStatuses, ActiveStatuses
    <3>3. r \in LeaseRows(Tokens, MaxAttempts) /\ r.status \in {"failed", "retrying"}
      <4>1. row[d] \in LeaseRows(Tokens, MaxAttempts)
        BY <1>0, <2>1
      <4>2. r \in LeaseRows(Tokens, MaxAttempts)
        BY <4>1, RowOperators, SearchConstants
      <4>3. r.status \in {"failed", "retrying"}
        BY <4>1 DEF FailureRecorded, Released, LeaseRows
      <4> QED
        BY <4>2, <4>3
    <3>4. CASE r.status = "retrying"
      BY <1>a, <2>1, <2>2, <3>1, <3>2, <3>3, <3>4 DEF ActiveStatuses
    <3>5. CASE r.status = "failed"
      <4>1. row'[d].status = "failed" /\ \A e \in Deliveries \ {d} : row'[e] = row[e]
        BY <1>0, <2>1, <3>1, <3>5
      <4>2. Outcome' = [Outcome EXCEPT ![d] = "failed"]
        BY <4>1 DEF Outcome
      <4> QED
        BY <2>1, <2>2, <3>2, <4>2 DEF Abstract!GiveUp
    <3> QED
      BY <3>3, <3>4, <3>5
  <2> QED
    BY <2>3, <2>4
<1>8. ASSUME NEW d \in Deliveries, NEW revision \in Nat, revision <= requested[d],
             UNCHANGED <<row, requested, indexed>>,
             \/ stored' = stored
             \/ revision >= stored[d] /\ stored' = [stored EXCEPT ![d] = revision]
      PROVE  Step
  <2>1. Outcome' = Outcome
    BY <1>8 DEF Outcome
  <2>2. CASE stored' = stored
    BY <1>8, <2>1, <2>2
  <2>3. CASE revision > stored[d] /\ stored' = [stored EXCEPT ![d] = revision]
    <3>1. revision \in (stored[d] + 1)..requested[d]
      BY <1>0, <1>8, <2>3
    <3> QED
      BY <1>8, <2>1, <2>3, <3>1 DEF Abstract!Land
  <2>4. CASE revision = stored[d] /\ stored' = [stored EXCEPT ![d] = revision]
    BY <1>0, <1>8, <2>1, <2>4
  <2> QED
    BY <1>0, <1>8, <2>2, <2>3, <2>4
<1>9. ASSUME NEW w \in Workers, Write(w) PROVE Step
  <2>1. /\ worker[w].delivery \in Deliveries /\ worker[w].revision \in Nat
        /\ worker[w].revision <= requested[worker[w].delivery]
    BY <1>0, <1>9, BusyWorker
    DEF Write, WriteApplied, WriteConflicts, WriteRejected, WriteUnavailable,
        IndInv, NothingAheadOfRequest
  <2>2. /\ UNCHANGED <<row, requested, indexed>>
        /\ \/ stored' = stored
           \/ /\ worker[w].revision >= stored[worker[w].delivery]
              /\ stored' = [stored EXCEPT ![worker[w].delivery] = worker[w].revision]
    BY <1>9 DEF Write, WriteApplied, WriteConflicts, WriteRejected, WriteUnavailable, Accepts
  <2> QED
    BY <1>8, <2>1, <2>2
<1>10. ASSUME NEW write \in late, LateWriteLands(write) PROVE Step
  <2>1. /\ write.delivery \in Deliveries /\ write.revision \in Nat
        /\ write.revision <= requested[write.delivery]
    BY <1>0 DEF IndInv, NothingAheadOfRequest
  <2> QED
    BY <1>8, <1>10, <2>1 DEF LateWriteLands, Accepts
<1> QED
  BY <1>1, <1>2, <1>3, <1>4, <1>5, <1>6, <1>7, <1>9, <1>10
  DEF Next, vars, Write, LoadStale, Load, AcknowledgeRaises, Crash

\* The queue keeps the promise stated in IndexDelivery: the index only moves
\* forward, never past a request, and a delivery is done only when the index
\* holds the newest one.
THEOREM Refinement == Spec => ImplementsIndexDelivery
  BY AbstractInit, AbstractStep, Invariant, PTL
  DEF Spec, ImplementsIndexDelivery, Abstract!Spec
=============================================================================
