-------------------------- MODULE ArticleProcessing --------------------------
(***************************************************************************)
(* The full text of one article: its processing jobs                       *)
(* (backend/app/articles/service.py and processing.py), the page's HTML in *)
(* the object store between the stages and after them, and the cleanup of  *)
(* that store (backend/app/articles/maintenance.py), which runs beside     *)
(* them as a command.                                                      *)
(*                                                                         *)
(* Every transaction that refers to a stored page holds a shared lock on   *)
(* its key (lock_storage_keys), and cleanup an exclusive one on the keys   *)
(* of its batch: cleaner.keys.  The transactions are one step each except  *)
(* cleanup's, which looks for references in two statements, and a retry's, *)
(* which has read the failed job before it waits for its locks.            *)
(*                                                                         *)
(* As in NlpPipeline, any idle worker may receive the token a row carries, *)
(* any number of times.  Attempts are rows of their own, of which the      *)
(* newest may be open; attempts[stage] counts them up to the limit, since  *)
(* the code only asks whether they have reached it.                        *)
(***************************************************************************)
EXTENDS Leasing, Sequences, FiniteSets

CONSTANTS
  Workers,
  Requests,      \* bounds the retries that are open at one time
  Tokens,        \* bounds the claims referred to at one time, not their number
  Keys,          \* bounds the pages stored or referred to at one time
  StageAttempts, \* STAGE_ATTEMPTS
  BatchSize,     \* cleanup's batch_size
  MaxJobs        \* bounds the jobs of the article

ASSUME ArticleConstants ==
  /\ None \notin Tokens \cup Workers \cup Keys
  /\ StageAttempts \in Nat \ {0}
  /\ BatchSize \in Nat \ {0} /\ MaxJobs \in Nat \ {0}

VARIABLES
  jobs,          \* the ArticleProcessingJob rows, in the order of their creation
  html,          \* ArticleContent.html_object_key
  objects,       \* the keys of the pages in the store
  worker,
  retry,         \* the open transactions of retry_processing
  cleaner        \* cleanup_article_storage

vars == <<jobs, html, objects, worker, retry, cleaner>>

Stages == {"fetch", "extract"}

\* A job is claimed while it runs, and at no other time; open is an attempt with
\* the status running.
Rows ==
  {row \in LeaseRows(Tokens, 0) : row.token # None <=> row.status = "running"}
Jobs == [row : Rows, keep : BOOLEAN, stage : Stages, key : Keys \cup {None},
         attempts : [Stages -> 0..StageAttempts], open : BOOLEAN]

\* keep: requested_mode is full_text_html.
NewJob(keep) ==
  [row |-> NewRow, keep |-> keep, stage |-> "fetch", key |-> None,
   attempts |-> [s \in Stages |-> 0], open |-> FALSE]

\* fetch, stored: before and after storage.put; html, missing, text: before and after
\* storage.get; delete: doomed are the keys to delete after the commit.
Idle == [pc |-> "idle", job |-> 0, token |-> None, key |-> None, doomed |-> {}]
NoRetry == [open |-> FALSE, job |-> 0, key |-> None]
NotCleaning == [pc |-> "idle", keys |-> {}, retained |-> {}]

TypeOK ==
  /\ Len(jobs) <= MaxJobs /\ jobs \in Seq(Jobs)
  /\ html \in Keys \cup {None}
  /\ objects \subseteq Keys
  /\ worker \in [Workers ->
       [pc : {"idle", "fetch", "stored", "html", "missing", "text", "delete"},
        job : 0..MaxJobs, token : Tokens \cup {None}, key : Keys \cup {None},
        doomed : SUBSET Keys]]
  /\ retry \in [Requests -> [open : BOOLEAN, job : 0..MaxJobs, key : Keys \cup {None}]]
  /\ cleaner \in [pc : {"idle", "locked", "retained"}, keys : SUBSET Keys, retained : SUBSET Keys]

\* A job that succeeded, with or without keeping its page, or failed, with or without
\* a page stored for the next try.
Ended(status, stage, key) ==
  [NewJob(FALSE) EXCEPT !.row.status = status, !.stage = stage, !.key = key]

\* The article's first job has ended.
Init ==
  /\ \E key \in Keys \cup {None} :
       /\ \/ jobs = <<Ended("succeeded", "extract", None)>> /\ html = key
          \/ jobs = <<Ended("failed", IF key = None THEN "fetch" ELSE "extract", key)>> /\ html = None
       /\ objects = {key} \ {None}
  /\ worker = [w \in Workers |-> Idle]
  /\ retry = [r \in Requests |-> NoRetry]
  /\ cleaner = NotCleaning

-----------------------------------------------------------------------------
(* Requests and retries. *)

Active(j) == jobs[j].row.status \in ActiveStatuses
Settled == \A j \in DOMAIN jobs : ~Active(j)

\* Mutant: no transaction waits for cleanup.
LockFreeAlways(key) == TRUE

\* Cleanup holds no exclusive lock on the key.
LockFree(key) == key \notin cleaner.keys

\* The active job is asked for the page too.
Joined(keep) ==
  [j \in DOMAIN jobs |-> IF Active(j) THEN [jobs[j] EXCEPT !.keep = @ \/ keep] ELSE jobs[j]]

\* request_processing, by hand or by ingestion: the active job, or a new one.
RequestProcessing(keep) ==
  /\ IF Settled
     THEN Len(jobs) < MaxJobs /\ jobs' = Append(jobs, NewJob(keep))
     ELSE jobs' = Joined(keep)
  /\ UNCHANGED <<html, objects, worker, retry, cleaner>>

\* retry_processing reads the job it is asked to retry.
BeginRetry(r, j) ==
  /\ retry[r] = NoRetry
  /\ Len(jobs) < MaxJobs
  /\ ~Active(j)
  /\ retry' = [retry EXCEPT ![r] = [open |-> TRUE, job |-> j, key |-> jobs[j].key]]
  /\ UNCHANGED <<jobs, html, objects, worker, cleaner>>

\* Then it waits for the locks.  The row it locks is the object it has read before,
\* which the session does not read again: the key is that of BeginRetry, and it is
\* taken over, unless a job is active or another one has it (a UNIQUE column).
CommitRetry(r) ==
  LET j == retry[r].job
      key == retry[r].key
      refused == key # None /\ \E i \in DOMAIN jobs : i # j /\ jobs[i].key = key
  IN
  /\ retry[r].open
  /\ LockFree(key)
  /\ \/ ~Settled /\ jobs' = Joined(jobs[j].keep)
     \/ Settled /\ refused /\ UNCHANGED jobs
     \/ /\ Settled /\ ~refused /\ Len(jobs) < MaxJobs
        /\ jobs' = Append(IF key # None THEN [jobs EXCEPT ![j].key = None] ELSE jobs,
             [NewJob(jobs[j].keep) EXCEPT
                !.stage = IF key # None THEN jobs[j].stage ELSE @, !.key = key])
  /\ retry' = [retry EXCEPT ![r] = NoRetry]
  /\ UNCHANGED <<html, objects, worker, cleaner>>

-----------------------------------------------------------------------------
(* The scheduler and the clock. *)

FreshTokens ==
  Tokens \ ({worker[w].token : w \in Workers} \cup {jobs[j].row.token : j \in DOMAIN jobs})

\* Mutant: an attempt whose lease ran out is left open.
TakenOverOpen(job, token) == [job EXCEPT !.row = Claimed(@, token, 0)]

\* claim_due_job: the claim counts no attempt, and ends the one a lost claim left open.
TakenOver(job, token) == [job EXCEPT !.row = Claimed(@, token, 0), !.open = FALSE]

ClaimJob(j, token) ==
  /\ Claimable(jobs[j].row)
  /\ token \in FreshTokens
  /\ jobs' = [jobs EXCEPT ![j] = TakenOver(@, token)]
  /\ UNCHANGED <<html, objects, worker, retry, cleaner>>

\* The lease has no heartbeat: also while its worker lives.
LeaseExpires(j) ==
  /\ jobs[j].row.leased
  /\ jobs' = [jobs EXCEPT ![j].row.leased = FALSE]
  /\ UNCHANGED <<html, objects, worker, retry, cleaner>>

BackoffEnds(j) ==
  /\ ~jobs[j].row.due
  /\ jobs' = [jobs EXCEPT ![j].row.due = TRUE]
  /\ UNCHANGED <<html, objects, worker, retry, cleaner>>

-----------------------------------------------------------------------------
(* A worker running process_claim. *)

RowOf(w) == jobs[worker[w].job].row

Finished(w) == worker' = [worker EXCEPT ![w] = Idle]

\* As in NlpPipeline: `now` may be of before the wait for the locks.
MayHold(w) == RowOf(w).token = worker[w].token
MayNotHold(w) == ~(MayHold(w) /\ RowOf(w).leased)

\* The first transaction, and start_attempt: a message that comes again finds the
\* attempt open.
StartAttempt(w, j) ==
  LET job == jobs[j] IN
  /\ worker[w] = Idle
  /\ job.row.leased
  /\ ~job.open
  /\ jobs' = [jobs EXCEPT ![j].open = TRUE,
       ![j].attempts[job.stage] = IF @ < StageAttempts THEN @ + 1 ELSE @]
  /\ worker' = [worker EXCEPT ![w] =
       [pc |-> IF job.stage = "fetch" THEN "fetch" ELSE "html", job |-> j,
        token |-> job.row.token, key |-> job.key, doomed |-> {}]]
  /\ UNCHANGED <<html, objects, retry, cleaner>>

\* A uuid4: nobody refers to it.
FreshKeys ==
  Keys \ (objects \cup {html} \cup {jobs[j].key : j \in DOMAIN jobs}
    \cup UNION {{worker[w].key} \cup worker[w].doomed : w \in Workers}
    \cup {retry[r].key : r \in Requests})

\* The page came, and storage.put.
FetchPage(w, key) ==
  /\ worker[w].pc = "fetch"
  /\ key \in FreshKeys
  /\ objects' = objects \cup {key}
  /\ worker' = [worker EXCEPT ![w].pc = "stored", ![w].key = key]
  /\ UNCHANGED <<jobs, html, retry, cleaner>>

CommitFetch(w) ==
  LET j == worker[w].job IN
  /\ worker[w].pc = "stored"
  /\ LockFree(worker[w].key)
  /\ MayHold(w)
  /\ jobs' = [jobs EXCEPT
       ![j].row = [Released(@) EXCEPT !.status = "queued", !.due = TRUE],
       ![j].stage = "extract", ![j].key = worker[w].key, ![j].open = FALSE]
  /\ Finished(w)
  /\ UNCHANGED <<html, objects, retry, cleaner>>

\* The claim was lost meanwhile: the page is deleted again.
DropFetch(w) ==
  /\ worker[w].pc = "stored"
  /\ LockFree(worker[w].key)
  /\ MayNotHold(w)
  /\ objects' = objects \ {worker[w].key}
  /\ Finished(w)
  /\ UNCHANGED <<jobs, html, retry, cleaner>>

ReadHtml(w) ==
  /\ worker[w].pc = "html"
  /\ worker' = [worker EXCEPT ![w].pc = IF worker[w].key \in objects THEN "text" ELSE "missing"]
  /\ UNCHANGED <<jobs, html, objects, retry, cleaner>>

\* The stored page is gone: it is fetched again.
RequeueFetch(w) ==
  LET j == worker[w].job IN
  /\ worker[w].pc = "missing"
  /\ MayHold(w)
  /\ jobs' = [jobs EXCEPT
       ![j].row = [Released(@) EXCEPT !.status = "queued"],
       ![j].stage = "fetch", ![j].key = None, ![j].open = FALSE]
  /\ Finished(w)
  /\ UNCHANGED <<html, objects, retry, cleaner>>

\* Mutant: the page's object goes whatever the content keeps.
DoomedWhole(key, retained) == {key, html} \ {None}

\* The stored page and the one the content kept before, unless it is kept now.
Doomed(key, retained) == {key, html} \ {None, retained}

CommitExtract(w) ==
  LET j == worker[w].job
      key == worker[w].key
      retained == IF jobs[j].keep THEN key ELSE None
  IN
  /\ worker[w].pc = "text"
  /\ LockFree(key)
  /\ MayHold(w)
  /\ jobs' = [jobs EXCEPT
       ![j].row = [Released(@) EXCEPT !.status = "succeeded"],
       ![j].key = None, ![j].open = FALSE]
  /\ html' = retained
  /\ worker' = [worker EXCEPT ![w] =
       [Idle EXCEPT !.pc = "delete", !.doomed = Doomed(key, retained)]]
  /\ UNCHANGED <<objects, retry, cleaner>>

\* delete_after_commit, for each; an object that cannot be deleted stays.
DeleteAfterCommit(w, deleted) ==
  /\ worker[w].pc = "delete"
  /\ deleted \subseteq worker[w].doomed
  /\ objects' = objects \ deleted
  /\ Finished(w)
  /\ UNCHANGED <<jobs, html, retry, cleaner>>

\* The network, the store, the extractor or the database raised (_record_failure).
RecordFailure(w, permanent) ==
  LET j == worker[w].job IN
  /\ worker[w].pc \in {"fetch", "stored", "html", "text"}
  /\ MayHold(w)
  /\ jobs' = [jobs EXCEPT
       ![j].row = FailureRecorded(@, StageAttempts,
         permanent \/ Exhausted(jobs[j].attempts[jobs[j].stage], StageAttempts)),
       ![j].open = FALSE]
  /\ Finished(w)
  /\ UNCHANGED <<html, objects, retry, cleaner>>

\* The claim is another worker's, or nobody's: there is nothing to write.
NothingToFinish(w) ==
  /\ worker[w].pc \in {"fetch", "html", "missing", "text"}
  /\ MayNotHold(w)
  /\ Finished(w)
  /\ UNCHANGED <<jobs, html, objects, retry, cleaner>>

Crash(w) ==
  /\ worker[w] # Idle
  /\ Finished(w)
  /\ UNCHANGED <<jobs, html, objects, retry, cleaner>>

-----------------------------------------------------------------------------
(* Cleanup, one batch at a time (_process_batch). *)

\* The age of a page is not kept: any page may have passed the minimum age.
LockBatch(keys) ==
  /\ cleaner.pc = "idle"
  /\ keys # {} /\ Cardinality(keys) <= BatchSize
  /\ keys \subseteq objects
  /\ cleaner' = [pc |-> "locked", keys |-> keys, retained |-> {}]
  /\ UNCHANGED <<jobs, html, objects, worker, retry>>

\* _referenced_keys asks the contents first ...
ReadRetained ==
  /\ cleaner.pc = "locked"
  /\ cleaner' = [cleaner EXCEPT !.pc = "retained", !.retained = {html} \cap cleaner.keys]
  /\ UNCHANGED <<jobs, html, objects, worker, retry>>

\* ... and then the jobs; what neither refers to is deleted, where it can be.
DeleteUnreferenced(deleted) ==
  /\ cleaner.pc = "retained"
  /\ deleted \subseteq cleaner.keys \ (cleaner.retained \cup {jobs[j].key : j \in DOMAIN jobs})
  /\ objects' = objects \ deleted
  /\ cleaner' = NotCleaning
  /\ UNCHANGED <<jobs, html, worker, retry>>

-----------------------------------------------------------------------------
Work(w) ==
  \/ CommitFetch(w) \/ DropFetch(w) \/ ReadHtml(w) \/ RequeueFetch(w) \/ CommitExtract(w)
  \/ NothingToFinish(w)
  \/ \E k \in Keys : FetchPage(w, k)
  \/ \E keys \in SUBSET Keys : DeleteAfterCommit(w, keys)
  \/ \E permanent \in BOOLEAN : RecordFailure(w, permanent)

Next ==
  \/ \E keep \in BOOLEAN : RequestProcessing(keep)
  \/ \E j \in DOMAIN jobs :
       \/ \E r \in Requests : BeginRetry(r, j)
       \/ LeaseExpires(j) \/ BackoffEnds(j)
       \/ \E token \in Tokens : ClaimJob(j, token)
       \/ \E w \in Workers : StartAttempt(w, j)
  \/ \E r \in Requests : CommitRetry(r)
  \/ \E w \in Workers :
       Work(w) \/ Crash(w)
  \/ \E keys \in SUBSET Keys : LockBatch(keys) \/ DeleteUnreferenced(keys)
  \/ ReadRetained

Spec == Init /\ [][Next]_vars

-----------------------------------------------------------------------------
(* Fairness, as in SearchDelivery: the clock, the scheduler and the workers go on, and
   a claim or a message that keeps being possible comes at last. *)

\* What a lease of 300 s and a minimum age of 24 h are for: no lease runs out while a
\* worker works under it, no page reaches that age before its transaction commits.
TimesAreLongEnough ==
  \A w \in Workers :
    /\ worker[w].job # 0 /\ RowOf(w).leased /\ MayHold(w) =>
         LET row == jobs'[worker[w].job].row IN row.leased \/ row.token # worker[w].token
    /\ worker[w].pc = "stored" => worker[w].key \notin cleaner'.keys

NoCrash == \A w \in Workers : ~Crash(w)

Fairness ==
  /\ WF_vars(\E j \in DOMAIN jobs : LeaseExpires(j) \/ BackoffEnds(j))
  /\ SF_vars(\E j \in DOMAIN jobs, token \in Tokens : ClaimJob(j, token))
  /\ SF_vars(\E j \in DOMAIN jobs, w \in Workers : StartAttempt(w, j))
  /\ \A w \in Workers : SF_vars(Work(w))
  /\ WF_vars(ReadRetained \/ \E keys \in SUBSET Keys : DeleteUnreferenced(keys))

FairSpec == Init /\ [][Next]_vars /\ Fairness

-----------------------------------------------------------------------------
(* Properties. *)

\* The page an article keeps is in the store: neither a late worker, the deletion
\* after a commit nor a cleanup at any moment takes it away.
RetainedHtmlExists == html # None => html \in objects

\* Nothing a job or the content refers to is deleted, so that a failed job keeps the
\* page for its retry (cleanup's exclusive lock, and delete_after_commit).
ReferredPageIsNotDeleted ==
  [][\A k \in objects \ objects' : k # html' /\ \A j \in DOMAIN jobs' : jobs'[j].key # k]_vars

\* A page that was asked for is fetched and read or its job fails for good, whatever
\* workers died and leases ran out before: no attempt that a lost claim left behind
\* stands in the way (claim_due_job, start_attempt).
PageSettles == <>[][TimesAreLongEnough /\ NoCrash]_vars => (~Settled ~> Settled)
=============================================================================
