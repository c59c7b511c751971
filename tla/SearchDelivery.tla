--------------------------- MODULE SearchDelivery ---------------------------
(***************************************************************************)
(* The queue that carries articles to Elasticsearch                        *)
(* (backend/app/search/service.py, indexing.py, elasticsearch.py).         *)
(*                                                                         *)
(* A delivery is the row search_deliveries(article, target).  Changing an  *)
(* article requests its next revision in the same transaction; the         *)
(* scheduler claims a due row and sends a message; a worker reads one      *)
(* snapshot of row and document, writes it to the index under the          *)
(* revision as an external version, and then acknowledges the outcome in   *)
(* a transaction of its own.  Between these steps anything else may        *)
(* happen: the article changes, the lease runs out and another worker      *)
(* takes over, a worker dies, the broker delivers a message twice or       *)
(* never, Elasticsearch answers an error and applies the write later.      *)
(*                                                                         *)
(* The document is its revision: every change and its request commit       *)
(* together and the worker reads both in one REPEATABLE READ snapshot.     *)
(***************************************************************************)
EXTENDS Leasing

CONSTANTS
  Deliveries,
  Outdated,      \* deliveries to an index of an older schema version
  Workers,
  Tokens,        \* bounds the claims referred to at one time, not their number
  MaxAttempts,   \* settings.search_max_attempts
  MaxRevision    \* bounds the changes of one article

ASSUME SearchConstants ==
  /\ Outdated \subseteq Deliveries
  /\ None \notin Tokens
  /\ None \notin Deliveries
  /\ MaxAttempts \in Nat \ {0}
  /\ MaxRevision \in Nat \ {0}

VARIABLES
  row,           \* the leased columns of the delivery
  requested,     \* delivery.requested_revision
  indexed,       \* delivery.indexed_revision
  stored,        \* the external version the index holds, 0 for no document
  messages,      \* index_article messages the broker has not seen acknowledged
  worker,        \* what each worker process is doing
  late           \* writes whose request failed but that may still be applied

vars == <<row, requested, indexed, stored, messages, worker, late>>

Messages == [delivery : Deliveries, token : Tokens]

Outcomes == {"success", "duplicate", "transient", "permanent"}

\* write: the document is loaded; ack: Elasticsearch answered; fail: an
\* exception is on its way to process_delivery's handler.
Idle == [pc |-> "idle", delivery |-> None, token |-> None,
         revision |-> 0, outcome |-> "none"]

WorkerStates ==
  {Idle} \cup [pc : {"write", "ack", "fail"}, delivery : Deliveries, token : Tokens,
               revision : Nat, outcome : Outcomes \cup {"none"}]

TypeOK ==
  /\ row \in [Deliveries -> LeaseRows(Tokens, MaxAttempts)]
  /\ requested \in [Deliveries -> Nat \ {0}]
  /\ indexed \in [Deliveries -> Nat]
  /\ stored \in [Deliveries -> Nat]
  /\ messages \subseteq Messages
  /\ worker \in [Workers -> WorkerStates]
  /\ late \subseteq [delivery : Deliveries, revision : Nat]

\* A row is inserted for the article's current revision, which a new index
\* need not have seen from the first.
Init ==
  /\ row = [d \in Deliveries |-> NewRow]
  /\ requested \in [Deliveries -> 1..MaxRevision]
  /\ indexed = [d \in Deliveries |-> 0]
  /\ stored  = [d \in Deliveries |-> 0]
  /\ messages = {}
  /\ worker = [w \in Workers |-> Idle]
  /\ late = {}

-----------------------------------------------------------------------------
(* The API and the other stages. *)

Requeued(delivery) == [delivery EXCEPT !.status = "queued", !.due = TRUE]

\* request_indexing, in the transaction that changes the article.  A claim on
\* the row stays as it is: the running worker finds out when it acknowledges.
RequestIndexing(d) ==
  /\ requested[d] < MaxRevision
  /\ requested' = [requested EXCEPT ![d] = @ + 1]
  /\ row' = [row EXCEPT ![d] = Requeued(@)]
  /\ UNCHANGED <<indexed, stored, messages, worker, late>>

\* "Retry" on the Processes page.
RetryDelivery(d) ==
  /\ row[d].status = "failed"
  /\ row' = [row EXCEPT ![d] = Requeued(@)]
  /\ UNCHANGED <<requested, indexed, stored, messages, worker, late>>

-----------------------------------------------------------------------------
(* The scheduler, the broker and the clock. *)

FreshTokens ==
  Tokens \ ({row[d].token : d \in Deliveries} \cup {m.token : m \in messages}
              \cup {worker[w].token : w \in Workers})

\* One iteration of schedule_due_search: the claim commits, then the message
\* is sent.  A send that fails is only logged; the lease will run out.
ClaimDelivery(d, token, sent) ==
  /\ Claimable(row[d])
  /\ token \in FreshTokens
  /\ row' = [row EXCEPT ![d] = Claimed(@, token, MaxAttempts)]
  /\ messages' = IF sent THEN messages \cup {[delivery |-> d, token |-> token]}
                         ELSE messages
  /\ UNCHANGED <<requested, indexed, stored, worker, late>>

LeaseExpires(d) ==
  /\ row[d].leased
  /\ row' = [row EXCEPT ![d].leased = FALSE]
  /\ UNCHANGED <<requested, indexed, stored, messages, worker, late>>

BackoffEnds(d) ==
  /\ ~row[d].due
  /\ row' = [row EXCEPT ![d].due = TRUE]
  /\ UNCHANGED <<requested, indexed, stored, messages, worker, late>>

-----------------------------------------------------------------------------
(* A worker running process_delivery. *)

MessageOf(w) == [delivery |-> worker[w].delivery, token |-> worker[w].token]

\* Mutant: every 4xx answer taken for a conflict.
ResultOutcomeAny4xx(answer) ==
  CASE answer = "applied"     -> "success"
    [] answer = "unavailable" -> "transient"
    [] OTHER                  -> "duplicate"

\* result_outcome, and the exceptions _deliver turns into an outcome.
ResultOutcome(answer) ==
  CASE answer = "applied"     -> "success"      \* 2xx
    [] answer = "conflict"    -> "duplicate"    \* 409
    [] answer = "unavailable" -> "transient"    \* 429, 5xx, no connection, timeout
    [] answer = "refused"     -> "permanent"    \* any other 4xx, or too large to send

Answered(w, answer) ==
  worker' = [worker EXCEPT ![w].pc = "ack", ![w].outcome = ResultOutcome(answer)]

\* Mutant: the index compares no versions.
AcceptsAny(revision, version) == TRUE

\* version_type external_gte: an equal version is written again.
Accepts(revision, version) == revision >= version

\* The actor returned, so the broker forgets its message.
Finished(w) ==
  /\ worker' = [worker EXCEPT ![w] = Idle]
  /\ messages' = messages \ {MessageOf(w)}

\* _load_document and the checks _deliver makes on it.  The message stays with
\* the broker until the worker is done: until then it may be delivered again.
\* Only the token is compared, not the lease.  A document for an index of an
\* older schema is acknowledged unwritten; an exception goes to the handler.
Load(w, m, raises) ==
  /\ worker[w] = Idle
  /\ m \in messages
  /\ raises \/ row[m.delivery].token = m.token
  /\ worker' = [worker EXCEPT ![w] =
       [pc |-> IF raises THEN "fail"
               ELSE IF m.delivery \in Outdated THEN "ack" ELSE "write",
        delivery |-> m.delivery, token |-> m.token,
        revision |-> requested[m.delivery],
        outcome |-> IF m.delivery \in Outdated /\ ~raises THEN "success" ELSE "none"]]
  /\ UNCHANGED <<row, requested, indexed, stored, messages, late>>

\* The snapshot shows another claim, or none: nothing to do.
LoadStale(w, m) ==
  /\ worker[w] = Idle
  /\ m \in messages
  /\ row[m.delivery].token # m.token
  /\ messages' = messages \ {m}
  /\ UNCHANGED <<row, requested, indexed, stored, worker, late>>

WriteApplied(w) ==
  LET d == worker[w].delivery IN
  /\ worker[w].pc = "write"
  /\ Accepts(worker[w].revision, stored[d])
  /\ stored' = [stored EXCEPT ![d] = worker[w].revision]
  /\ Answered(w, "applied")
  /\ UNCHANGED <<row, requested, indexed, messages, late>>

WriteConflicts(w) ==
  /\ worker[w].pc = "write"
  /\ ~Accepts(worker[w].revision, stored[worker[w].delivery])
  /\ Answered(w, "conflict")
  /\ UNCHANGED <<row, requested, indexed, stored, messages, late>>

\* After a timeout the write may still be under way and land at any later time,
\* or never.
WriteUnavailable(w, underWay) ==
  /\ worker[w].pc = "write"
  /\ late' = IF underWay
             THEN late \cup {[delivery |-> worker[w].delivery, revision |-> worker[w].revision]}
             ELSE late
  /\ Answered(w, "unavailable")
  /\ UNCHANGED <<row, requested, indexed, stored, messages>>

WriteRejected(w) ==
  /\ worker[w].pc = "write"
  /\ Answered(w, "refused")
  /\ UNCHANGED <<row, requested, indexed, stored, messages, late>>

\* Mutant: without the check for a newer revision.
SettlesAny(d, revision) == TRUE

\* No newer revision was requested while this one ran; request_indexing would
\* have queued it, and the released row is due at once.
Settles(d, revision) == requested[d] = revision

Acknowledged(d, outcome) ==
  IF outcome \in {"success", "duplicate"}
  THEN [Released(row[d]) EXCEPT !.status = "succeeded"]
  ELSE FailureRecorded(row[d], MaxAttempts, outcome = "permanent")

Acknowledge(w) ==
  LET d == worker[w].delivery
      settles == row[d].token = worker[w].token /\ Settles(d, worker[w].revision)
  IN
  /\ worker[w].pc = "ack"
  /\ row' = CASE row[d].token # worker[w].token -> row
              [] settles -> [row EXCEPT ![d] = Acknowledged(d, worker[w].outcome)]
              [] OTHER   -> [row EXCEPT ![d] = Released(@)]
  /\ indexed' = IF settles /\ worker[w].outcome \in {"success", "duplicate"}
                THEN [indexed EXCEPT ![d] = worker[w].revision]
                ELSE indexed
  /\ Finished(w)
  /\ UNCHANGED <<requested, stored, late>>

\* The answer cannot be read, or the transaction that acknowledges it fails.
AcknowledgeRaises(w) ==
  /\ worker[w].pc = "ack"
  /\ worker' = [worker EXCEPT ![w].pc = "fail", ![w].outcome = "none"]
  /\ UNCHANGED <<row, requested, indexed, stored, messages, late>>

\* _fail: unlike _acknowledge it does not ask which revision the attempt was for.
FailAttempt(w) ==
  LET d == worker[w].delivery IN
  /\ worker[w].pc = "fail"
  /\ row' = IF row[d].token # worker[w].token THEN row
            ELSE [row EXCEPT ![d] = FailureRecorded(@, MaxAttempts, FALSE)]
  /\ Finished(w)
  /\ UNCHANGED <<requested, indexed, stored, late>>

\* The worker dies at any point; the broker hands its message to another
\* worker, or has lost it too.
Crash(w, requeued) ==
  /\ worker[w] # Idle
  /\ worker' = [worker EXCEPT ![w] = Idle]
  /\ messages' = IF requeued THEN messages ELSE messages \ {MessageOf(w)}
  /\ UNCHANGED <<row, requested, indexed, stored, late>>

\* A write Elasticsearch was still working on is applied, if not outdated.
LateWriteLands(write) ==
  /\ write \in late
  /\ late' = late \ {write}
  /\ stored' = IF Accepts(write.revision, stored[write.delivery])
               THEN [stored EXCEPT ![write.delivery] = write.revision]
               ELSE stored
  /\ UNCHANGED <<row, requested, indexed, messages, worker>>

-----------------------------------------------------------------------------
Next ==
  \/ \E d \in Deliveries :
       \/ RequestIndexing(d) \/ RetryDelivery(d) \/ LeaseExpires(d) \/ BackoffEnds(d)
       \/ \E token \in Tokens, sent \in BOOLEAN : ClaimDelivery(d, token, sent)
  \/ \E w \in Workers :
       \/ \E m \in messages : LoadStale(w, m) \/ \E raises \in BOOLEAN : Load(w, m, raises)
       \/ WriteApplied(w) \/ WriteConflicts(w) \/ WriteRejected(w)
       \/ \E underWay \in BOOLEAN : WriteUnavailable(w, underWay)
       \/ Acknowledge(w) \/ AcknowledgeRaises(w) \/ FailAttempt(w)
       \/ \E requeued \in BOOLEAN : Crash(w, requeued)
  \/ \E write \in late : LateWriteLands(write)

Spec == Init /\ [][Next]_vars

-----------------------------------------------------------------------------
(* Fairness.  The clock runs, the scheduler's loop does not stop and every
   worker goes on or dies; a send, a document or an answer that keeps being
   possible is not for ever unlucky (crashes, lost messages and errors before
   it may happen any finite number of times).  A lease (300 s) outlasts the
   wait of its message and the work on it, one request with a 30 s timeout: it
   runs out only when the message is gone. *)

LeaseOutlastsWork ==
  \A m \in messages :
    row[m.delivery].leased /\ row[m.delivery].token = m.token
      => row'[m.delivery].leased \/ row'[m.delivery].token # m.token

Write(w) ==
  \/ WriteApplied(w) \/ WriteConflicts(w) \/ WriteRejected(w)
  \/ \E underWay \in BOOLEAN : WriteUnavailable(w, underWay)

Finish(w) == Acknowledge(w) \/ FailAttempt(w)

Holding(w, d) == worker[w].delivery = d /\ row[d].token = worker[w].token

Fairness ==
  /\ \A d \in Deliveries :
       /\ WF_vars(LeaseExpires(d))
       /\ WF_vars(BackoffEnds(d))
       /\ SF_vars(\E token \in Tokens : ClaimDelivery(d, token, TRUE))
       /\ SF_vars(\E w \in Workers, m \in messages : m.delivery = d /\ Load(w, m, FALSE))
       /\ SF_vars(\E w \in Workers, m \in messages : m.delivery = d /\ LoadStale(w, m))
       /\ SF_vars(\E w \in Workers : Holding(w, d) /\ Write(w))
       /\ SF_vars(\E w \in Workers : Holding(w, d) /\ Finish(w))
  /\ \A w \in Workers : WF_vars(Write(w) \/ Finish(w))

FairSpec == Init /\ [][Next]_vars /\ Fairness

\* Elasticsearch is the only thing that fails, refuses no document and, however
\* often it is down, comes back.
OnlyOutages == \A w \in Workers : worker'[w].outcome # "permanent" /\ worker'[w].pc # "fail"

OutageSpec ==
  /\ Init /\ [][Next /\ LeaseOutlastsWork /\ OnlyOutages]_vars /\ Fairness
  /\ \A d \in Deliveries : SF_vars(\E w \in Workers : Holding(w, d) /\ WriteApplied(w))

-----------------------------------------------------------------------------
(* Properties. *)

\* What a delivery reports as indexed is in the index, at that revision or a
\* newer one, whatever errors, late writes and repeated deliveries there were
\* (indexing._acknowledge against elasticsearch.bulk).
IndexedIsStored ==
  \A d \in Deliveries \ Outdated : indexed[d] <= stored[d]

\* A succeeded row owes nothing: no change was requested that it did not
\* deliver, and nobody holds it.  The scheduler never looks at it again, so a
\* revision it missed would stay out of Search for good.
SucceededIsCurrent ==
  \A d \in Deliveries :
    row[d].status = "succeeded" => indexed[d] = requested[d] /\ row[d].token = None

\* A 409 is counted as delivered (result_outcome).  That is right only because
\* a conflict proves that a newer revision was requested meanwhile, so that the
\* acknowledgement finds the row queued for it.
ConflictMeansNewerRequest ==
  \A w \in Workers :
    worker[w].outcome = "duplicate" => worker[w].revision < requested[worker[w].delivery]

\* What the queue says of a delivery is so: indexed, succeeded or conflicting, at every
\* moment between the claims, answers and late writes (indexing.py).
ReportsAreTrue == IndexedIsStored /\ SucceededIsCurrent /\ ConflictMeansNewerRequest

\* A slow worker cannot overwrite a newer document with an older one, nor take
\* back what a delivery has reported (README.md:130).
IndexNeverRegresses ==
  [][\A d \in Deliveries : stored'[d] >= stored[d] /\ indexed'[d] >= indexed[d]]_vars

\* Below its leases and retries the queue is an IndexDelivery.
Outcome == [d \in Deliveries |->
              CASE row[d].status = "succeeded" -> "done"
                [] row[d].status = "failed"    -> "failed"
                [] OTHER                       -> "open"]
Abstract == INSTANCE IndexDelivery WITH outcome <- Outcome
ImplementsIndexDelivery == Abstract!Spec

\* No row is left active for ever: not one whose worker died, whose message was
\* lost, or whose article changed while it was being written.
EveryDeliverySettles ==
  <>[][LeaseOutlastsWork]_vars =>
    \A d \in Deliveries :
      row[d].status \in ActiveStatuses ~> row[d].status \in {"succeeded", "failed"}

\* "Crashes, retries and Elasticsearch outages therefore cost latency, never
\* data" (README.md:95): a change reaches the index once Elasticsearch is back.
OutageCostsOnlyLatency ==
  \A d \in Deliveries : indexed[d] < requested[d] ~> indexed[d] = requested[d]
=============================================================================
