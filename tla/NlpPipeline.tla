----------------------------- MODULE NlpPipeline -----------------------------
(***************************************************************************)
(* The text processing of one article until it is complete: its extraction *)
(* job, the jobs of its NLP processors (backend/app/nlp/service.py and     *)
(* execution.py) and the moment it is marked enriched                      *)
(* (backend/app/articles/enrichment.py), from which watches count it.      *)
(*                                                                         *)
(* A processor has one state row and one job per generation: job[p][g] is  *)
(* the job of generation g, and the state's requested_generation is the    *)
(* length of job[p].  Messages are not kept: any idle worker may receive   *)
(* the token a row carries, any number of times, and a message with        *)
(* another token does nothing.                                             *)
(*                                                                         *)
(* A transaction is one step unless another one may commit in its middle   *)
(* to some effect: the transactions that ask whether the article is        *)
(* complete, or request processors, hold the article's row from their      *)
(* start, and publishing is split in two steps to show what that is for.   *)
(***************************************************************************)
EXTENDS Leasing, Sequences

CONSTANTS
  Processors,
  Workers,
  Tokens,        \* bounds the claims referred to at one time, not their number
  Texts,         \* what ingestion and extraction may find
  MaxRelease,    \* bounds the releases that read a text differently
  MaxAttempts,   \* NLP_RETRIES.max_attempts
  MaxGeneration  \* bounds the requests of one processor

ASSUME NlpConstants ==
  /\ None \notin Tokens \cup Workers
  /\ Texts # {}
  /\ MaxRelease \in Nat
  /\ MaxAttempts \in Nat \ {0}
  /\ MaxGeneration \in Nat \ {0}

VARIABLES
  document,      \* what build_input_document makes of the article
  extraction,    \* its newest processing job, without the stages in between
  state,         \* ArticleNlpState
  job,           \* NlpJob
  current,       \* the document the annotations with is_current were made from
  enriched,      \* enriched_at is set
  holder,        \* the worker whose open transaction holds the article's row
  worker

vars == <<document, extraction, state, job, current, enriched, holder, worker>>

Documents == [text : Texts, release : 0..MaxRelease]

\* "done" stands for the outcomes of a run that ended: success,
\* unsupported_language and disabled.
StateStatuses == ActiveStatuses \cup {"none", "done", "failed"}
JobStatuses   == QueueStatuses \cup {"superseded"}

NoState == [status |-> "none", input |-> None]
Queued(input) == [status |-> "queued", input |-> input]
NewJob(input) == [row |-> NewRow, input |-> input]

\* A job is claimed while it runs, and at no other time.
JobRows ==
  {row \in [status : JobStatuses, due : BOOLEAN, token : Tokens \cup {None},
            leased : BOOLEAN, attempts : 0..MaxAttempts] :
     /\ row.token # None <=> row.status = "running"
     /\ row.leased => row.token # None}

Jobs == [row : JobRows, input : Documents]

\* loaded: the processor runs; stale: _load_job raised StaleJob; publish: the
\* transaction of _publish is open, and others says whether it found another step
\* unfinished.
Idle == [pc |-> "idle", processor |-> None, generation |-> 0, token |-> None, others |-> FALSE]

TypeOK ==
  /\ document \in Documents
  /\ extraction \in {"none", "active", "succeeded", "failed"}
  /\ state \in [Processors -> [status : StateStatuses, input : Documents \cup {None}]]
  /\ job \in [Processors -> Seq(Jobs)] /\ \A p \in Processors : Len(job[p]) <= MaxGeneration
  /\ current \in [Processors -> Documents \cup {None}]
  /\ enriched \in BOOLEAN
  /\ holder \in Workers \cup {None}
  /\ worker \in [Workers ->
       {Idle} \cup [pc : {"loaded", "stale", "publish"},
                    processor : Processors, generation : 1..MaxGeneration,
                    token : Tokens, others : BOOLEAN]]

\* An article that was found before its processors were asked for: one just
\* inserted, or one from before there were any.
Init ==
  /\ document \in [text : Texts, release : {0}]
  /\ extraction = "none"
  /\ state = [p \in Processors |-> NoState]
  /\ job = [p \in Processors |-> <<>>]
  /\ current = [p \in Processors |-> None]
  /\ enriched = FALSE
  /\ holder = None
  /\ worker = [w \in Workers |-> Idle]

-----------------------------------------------------------------------------
(* Requests. *)

\* Mutant: without the lock on the article's row.
ArticleFreeAlways == TRUE

ArticleFree == holder = None

Ended(old) ==
  IF old.row.status \in ActiveStatuses
  THEN [old EXCEPT !.row = [Released(@) EXCEPT !.status = "superseded"]]
  ELSE old

\* Those request_article_nlp cannot skip: nothing was asked of them yet, or it was
\* for another document.  A changed setting or a forced request asks for more.
Outdated(processors, new) ==
  {p \in processors : state[p].status = "none" \/ state[p].input # new}

\* request_article_nlp, for the processors it does not skip.
Request(asked, new, jobs) ==
  /\ \A p \in asked : Len(jobs[p]) < MaxGeneration
  /\ state' = [p \in Processors |-> IF p \in asked THEN Queued(new) ELSE state[p]]
  /\ job' = [p \in Processors |->
       IF p \in asked
       THEN Append([g \in DOMAIN jobs[p] |-> Ended(jobs[p][g])], NewJob(new))
       ELSE jobs[p]]
  /\ current' = [p \in Processors |-> IF p \in asked THEN None ELSE current[p]]

\* What mark_enriched asks.
Complete(page, states) ==
  /\ \E p \in Processors : states[p].status # "none"
  /\ \A p \in Processors : states[p].status \notin ActiveStatuses
  /\ page # "active"

Marked(page, states) == enriched \/ Complete(page, states)

\* A feed's entry: its text may be new to the article, and the first full-text feed
\* that carries it asks for the page (request_processing, automatic).
Ingest(text, fullText, asked) ==
  LET new == [document EXCEPT !.text = text] IN
  /\ ArticleFree
  /\ asked = {} \/ Outdated(Processors, new) \subseteq asked
  /\ text # document.text => Outdated(Processors, new) \subseteq asked
  /\ Request(asked, new, job)
  /\ document' = new
  /\ extraction' = IF fullText /\ extraction = "none" THEN "active" ELSE extraction
  /\ UNCHANGED <<enriched, holder, worker>>

\* A reprocessing run, or "Retry" on the Processes page: forced.
Reprocess(asked) ==
  /\ ArticleFree
  /\ asked # {}
  /\ Request(asked, document, job)
  /\ UNCHANGED <<document, extraction, enriched, holder, worker>>

\* Somebody asks for the full text, or retries after a failure.
RequestExtraction ==
  /\ ArticleFree
  /\ extraction # "active"
  /\ extraction' = "active"
  /\ UNCHANGED <<document, state, job, current, enriched, holder, worker>>

\* The last transaction of the processing job (process_claim): text that has not
\* changed asks for nothing, so that the article may be complete now.
ExtractionSucceeds(text, asked) ==
  LET new == [document EXCEPT !.text = text] IN
  /\ ArticleFree
  /\ extraction = "active"
  /\ Outdated(Processors, new) \subseteq asked
  /\ Request(asked, new, job)
  /\ document' = new
  /\ extraction' = "succeeded"
  /\ enriched' = Marked("succeeded", state')
  /\ UNCHANGED <<holder, worker>>

ExtractionFails ==
  /\ ArticleFree
  /\ extraction = "active"
  /\ extraction' = "failed"
  /\ enriched' = Marked("failed", state)
  /\ UNCHANGED <<document, state, job, current, holder, worker>>

\* A release builds another document from the same article, and asks for nothing.
NewRelease ==
  /\ document.release < MaxRelease
  /\ document' = [document EXCEPT !.release = @ + 1]
  /\ UNCHANGED <<extraction, state, job, current, enriched, holder, worker>>

-----------------------------------------------------------------------------
(* The scheduler and the clock. *)

FreshTokens ==
  Tokens \ ({worker[w].token : w \in Workers}
              \cup UNION {{job[p][g].row.token : g \in DOMAIN job[p]} : p \in Processors})

\* claim_job; a job that is not of the newest generation is ended instead.
ClaimJob(p, g, token) ==
  /\ Claimable(job[p][g].row)
  /\ token \in FreshTokens
  /\ IF g = Len(job[p])
     THEN /\ job' = [job EXCEPT ![p][g].row = Claimed(@, token, MaxAttempts)]
          /\ state' = [state EXCEPT ![p].status = "running"]
     ELSE /\ job' = [job EXCEPT ![p][g].row.status = "superseded"]
          /\ UNCHANGED state
  /\ UNCHANGED <<document, extraction, current, enriched, holder, worker>>

\* Also while its worker lives: a heartbeat came late.
LeaseExpires(p, g) ==
  /\ job[p][g].row.leased
  /\ job' = [job EXCEPT ![p][g].row.leased = FALSE]
  /\ UNCHANGED <<document, extraction, state, current, enriched, holder, worker>>

BackoffEnds(p, g) ==
  /\ ~job[p][g].row.due
  /\ job' = [job EXCEPT ![p][g].row.due = TRUE]
  /\ UNCHANGED <<document, extraction, state, current, enriched, holder, worker>>

-----------------------------------------------------------------------------
(* A worker running process_job. *)

RowOf(w) == job[worker[w].processor][worker[w].generation].row

Finished(w) == worker' = [worker EXCEPT ![w] = Idle]

\* holds() asks for the lease too, but of a `now` from before the transaction
\* waited for its locks: a lease that has just run out may pass.
MayHold(w) == RowOf(w).token = worker[w].token
MayNotHold(w) == ~(MayHold(w) /\ RowOf(w).leased)

\* Its job is not the article's any more, or was made from another document.
Stale(p, g) ==
  g # Len(job[p]) \/ state[p].input # job[p][g].input \/ document # job[p][g].input

\* _load_job.
Load(w, p, g) ==
  /\ worker[w] = Idle
  /\ job[p][g].row.leased
  /\ worker' = [worker EXCEPT ![w] =
       [pc |-> IF Stale(p, g) THEN "stale" ELSE "loaded", processor |-> p, generation |-> g,
        token |-> job[p][g].row.token, others |-> FALSE]]
  /\ UNCHANGED <<document, extraction, state, job, current, enriched, holder>>

\* Mutant: whoever has a result publishes it.
IsCurrentAlways(w) == TRUE

\* Still its holder, and no newer request has come.
IsCurrent(w) ==
  MayHold(w) /\ worker[w].generation = Len(job[worker[w].processor])

\* The processor is done and the transaction of _publish starts: it waits for the
\* article's row, and mark_enriched looks at the other steps.
BeginPublish(w) ==
  LET p == worker[w].processor IN
  /\ worker[w].pc = "loaded"
  /\ ArticleFree
  /\ IsCurrent(w)
  /\ holder' = w
  /\ worker' = [worker EXCEPT ![w].pc = "publish",
       ![w].others = ~Complete(extraction, [state EXCEPT ![p].status = "done"])]
  /\ UNCHANGED <<document, extraction, state, job, current, enriched>>

CommitPublish(w) ==
  LET p == worker[w].processor
      g == worker[w].generation
  IN
  /\ worker[w].pc = "publish"
  /\ job' = [job EXCEPT ![p][g].row = [Released(@) EXCEPT !.status = "succeeded"]]
  /\ state' = [state EXCEPT ![p].status = "done"]
  /\ current' = [current EXCEPT ![p] = job[p][g].input]
  /\ enriched' = (enriched \/ ~worker[w].others)
  /\ holder' = None
  /\ Finished(w)
  /\ UNCHANGED <<document, extraction>>

\* The processor or the transaction that publishes raised (_record_failure);
\* permanent: it cannot ever succeed.  A step that failed for good is finished.
RecordFailure(w, permanent) ==
  LET p == worker[w].processor
      g == worker[w].generation
      row == FailureRecorded(RowOf(w), MaxAttempts, permanent)
  IN
  /\ worker[w].pc = "loaded"
  /\ ArticleFree
  /\ MayHold(w)
  /\ job' = [job EXCEPT ![p][g].row = row]
  /\ state' = [state EXCEPT ![p].status = row.status]
  /\ enriched' = IF row.status = "failed" THEN Marked(extraction, state') ELSE enriched
  /\ Finished(w)
  /\ UNCHANGED <<document, extraction, current, holder>>

\* Mutant: the stale job is ended and nothing asked for in its place.
AskedAgainNever(p) == {}

AskedAgain(p) == Outdated({p}, document)

\* _supersede: the step is queued again if nothing newer is.
Supersede(w) ==
  LET p == worker[w].processor
      g == worker[w].generation
  IN
  /\ worker[w].pc = "stale"
  /\ ArticleFree
  /\ MayHold(w)
  /\ Request(AskedAgain(p), document, [job EXCEPT ![p][g] = Ended(@)])
  /\ Finished(w)
  /\ UNCHANGED <<document, extraction, enriched, holder>>

\* The claim is another worker's, or nobody's: there is nothing to write.
NothingToFinish(w) ==
  /\ worker[w].pc \in {"loaded", "stale"}
  /\ MayNotHold(w)
  /\ Finished(w)
  /\ UNCHANGED <<document, extraction, state, job, current, enriched, holder>>

\* The worker dies; PostgreSQL rolls its transaction back.
Crash(w) ==
  /\ worker[w] # Idle
  /\ Finished(w)
  /\ holder' = IF holder = w THEN None ELSE holder
  /\ UNCHANGED <<document, extraction, state, job, current, enriched>>

-----------------------------------------------------------------------------
Next ==
  \/ \E text \in Texts, asked \in SUBSET Processors :
       \/ \E fullText \in BOOLEAN : Ingest(text, fullText, asked)
       \/ ExtractionSucceeds(text, asked)
  \/ \E asked \in SUBSET Processors : Reprocess(asked)
  \/ RequestExtraction \/ ExtractionFails \/ NewRelease
  \/ \E p \in Processors : \E g \in DOMAIN job[p] :
       \/ \E token \in Tokens : ClaimJob(p, g, token)
       \/ LeaseExpires(p, g) \/ BackoffEnds(p, g)
       \/ \E w \in Workers : Load(w, p, g)
  \/ \E w \in Workers :
       \/ BeginPublish(w) \/ CommitPublish(w) \/ Supersede(w) \/ NothingToFinish(w) \/ Crash(w)
       \/ \E permanent \in BOOLEAN : RecordFailure(w, permanent)

Spec == Init /\ [][Next]_vars

-----------------------------------------------------------------------------
(* Properties. *)

\* An article whose every step has finished is marked so, whatever order they
\* finished in: nobody looks at it again, and a watch would never count it
\* (lock_article and mark_enriched).
EnrichedWhenComplete ==
  /\ \E p \in Processors : state[p].status # "none"
  /\ \A p \in Processors : state[p].status \notin ActiveStatuses
  /\ extraction # "active"
  => enriched

\* It is not marked while a step is still to come (enrichment.py:25).
NotEnrichedEarly ==
  [][~enriched /\ enriched' =>
       extraction' # "active" /\ \A p \in Processors : state'[p].status \notin ActiveStatuses]_vars

\* Both: however the steps interleave, the article is marked by the last of them.
EnrichedExactlyWhenComplete == []EnrichedWhenComplete /\ NotEnrichedEarly

\* Annotations shown as current were made from the document last asked for, and
\* by a run that is over, however late a worker publishes.
CurrentAnnotationsMatch ==
  \A p \in Processors : current[p] # None => state[p] = [status |-> "done", input |-> current[p]]

\* A processor that is to run has one job that can be claimed for it, of the newest
\* generation, and a processor that is not has none: no request is left without a
\* job, and no older job runs beside it.
ActiveStateHasItsJob ==
  \A p \in Processors : \A g \in DOMAIN job[p] :
    IF g = Len(job[p]) /\ state[p].status \in ActiveStatuses
    THEN job[p][g].row.status = state[p].status
    ELSE job[p][g].row.status \notin ActiveStatuses
=============================================================================
