---------------------- MODULE ArticleProcessingProofs ----------------------
(***************************************************************************)
(* Proofs about ArticleProcessing for any sets of workers, tokens and      *)
(* pages and any bounds.                                                   *)
(***************************************************************************)
EXTENDS ArticleProcessing, SequenceTheorems, TLAPS

\* The row operators keep a row well formed.
LEMMA RowOperators ==
  ASSUME NEW row \in Rows
  PROVE  /\ \A token \in Tokens : Claimed(row, token, 0) \in Rows
         /\ [row EXCEPT !.leased = FALSE] \in Rows
         /\ [row EXCEPT !.due = TRUE] \in Rows
         /\ [Released(row) EXCEPT !.status = "queued"] \in Rows
         /\ [Released(row) EXCEPT !.status = "queued", !.due = TRUE] \in Rows
         /\ [Released(row) EXCEPT !.status = "succeeded"] \in Rows
         /\ \A permanent \in BOOLEAN : FailureRecorded(row, StageAttempts, permanent) \in Rows
<1> USE DEF Rows, LeaseRows, QueueStatuses, ActiveStatuses
<1>1. ASSUME NEW token \in Tokens PROVE Claimed(row, token, 0) \in Rows
  <2> DEFINE counted == IF row.attempts < 0 THEN row.attempts + 1 ELSE row.attempts
  <2>1. counted \in 0..0
    OBVIOUS
  <2>2. Claimed(row, token, 0) =
          [row EXCEPT !.status = "running", !.token = token, !.leased = TRUE, !.attempts = counted]
    BY DEF Claimed
  <2>3. token # None
    BY ArticleConstants
  <2> HIDE DEF counted
  <2> QED
    BY <2>1, <2>2, <2>3
<1>2. [row EXCEPT !.leased = FALSE] \in Rows /\ [row EXCEPT !.due = TRUE] \in Rows
  OBVIOUS
<1>3. /\ [Released(row) EXCEPT !.status = "queued"] \in Rows
      /\ [Released(row) EXCEPT !.status = "queued", !.due = TRUE] \in Rows
      /\ [Released(row) EXCEPT !.status = "succeeded"] \in Rows
  BY DEF Released
<1>4. /\ [Released(row) EXCEPT !.status = "failed"] \in Rows
      /\ [Released(row) EXCEPT !.status = "retrying", !.due = FALSE] \in Rows
  BY DEF Released
<1> HIDE DEF Rows
<1>5. ASSUME NEW permanent \in BOOLEAN PROVE FailureRecorded(row, StageAttempts, permanent) \in Rows
  BY <1>4 DEF FailureRecorded
<1> QED
  BY <1>1, <1>2, <1>3, <1>5

\* The job j is written, and no other.
Writes(j, new) ==
  /\ j \in DOMAIN jobs /\ new \in Jobs
  /\ jobs' = [jobs EXCEPT ![j] = new]

LEMMA JobsAreASequence ==
  ASSUME TypeOK
  PROVE  /\ Len(jobs) \in Nat /\ DOMAIN jobs = 1..Len(jobs) /\ DOMAIN jobs \subseteq 1..MaxJobs
         /\ \A j \in DOMAIN jobs : jobs[j] \in Jobs
  BY ArticleConstants, LenProperties DEF TypeOK

LEMMA WriteChangesOneJob ==
  ASSUME TypeOK, NEW j, NEW new, Writes(j, new)
  PROVE  /\ jobs' \in Seq(Jobs) /\ Len(jobs') = Len(jobs) /\ DOMAIN jobs' = DOMAIN jobs
         /\ jobs'[j] = new
         /\ \A i \in DOMAIN jobs : i # j => jobs'[i] = jobs[i]
  BY JobsAreASequence, ExceptSeq, LenProperties DEF TypeOK, Writes

LEMMA AppendAddsOneJob ==
  ASSUME TypeOK, NEW old \in Seq(Jobs), Len(old) = Len(jobs), NEW new \in Jobs,
         Len(jobs) < MaxJobs, jobs' = Append(old, new)
  PROVE  /\ jobs' \in Seq(Jobs) /\ Len(jobs') = Len(jobs) + 1 /\ Len(jobs') <= MaxJobs
         /\ DOMAIN jobs' = DOMAIN jobs \cup {Len(jobs) + 1}
         /\ Len(jobs) + 1 \notin DOMAIN jobs
         /\ jobs'[Len(jobs) + 1] = new
         /\ \A i \in DOMAIN jobs : jobs'[i] = old[i]
<1>1. Len(jobs) \in Nat /\ MaxJobs \in Nat /\ DOMAIN jobs = 1..Len(jobs)
  BY ArticleConstants, JobsAreASequence
<1>2. DOMAIN old = 1..Len(jobs)
  BY LenProperties
<1> QED
  BY <1>1, <1>2, AppendProperties, LenProperties

-----------------------------------------------------------------------------
(* What each step makes of the jobs. *)

\* Those whose worker is at work under a claim it may have lost.
Working == {"fetch", "stored", "html", "missing", "text"}

\* A worker at work has a job and a token, and a retry the job it has read.
WorkHasItsJob ==
  /\ \A w \in Workers : worker[w].pc \in Working =>
       worker[w].job \in DOMAIN jobs /\ worker[w].token \in Tokens
  /\ \A w \in Workers : worker[w].pc \in {"stored", "text"} => worker[w].key \in Keys
  /\ \A r \in Requests : retry[r].open => retry[r].job \in DOMAIN jobs

\* The clock and a claim leave the page, and a claim closes the attempt.
LEMMA ClockWrites ==
  ASSUME TypeOK, NEW j \in DOMAIN jobs, LeaseExpires(j) \/ BackoffEnds(j)
  PROVE  \E new : Writes(j, new) /\ new.row.token = jobs[j].row.token
                  /\ new.row.status = jobs[j].row.status
                  /\ new.key = jobs[j].key /\ new.open = jobs[j].open
<1>0. jobs[j] \in Jobs /\ jobs[j].row \in Rows
  BY JobsAreASequence DEF Jobs
<1>1. CASE LeaseExpires(j)
  <2> DEFINE row == [jobs[j].row EXCEPT !.leased = FALSE]
             new == [jobs[j] EXCEPT !.row = row]
  <2>1. row \in Rows /\ row.token = jobs[j].row.token /\ row.status = jobs[j].row.status
    BY <1>0, RowOperators DEF Rows, LeaseRows
  <2>2. jobs' = [jobs EXCEPT ![j] = new]
    BY <1>1 DEF LeaseExpires
  <2> HIDE DEF row
  <2> QED
    BY <1>0, <2>1, <2>2 DEF Jobs, Writes
<1>2. CASE BackoffEnds(j)
  <2> DEFINE row == [jobs[j].row EXCEPT !.due = TRUE]
             new == [jobs[j] EXCEPT !.row = row]
  <2>1. row \in Rows /\ row.token = jobs[j].row.token /\ row.status = jobs[j].row.status
    BY <1>0, RowOperators DEF Rows, LeaseRows
  <2>2. jobs' = [jobs EXCEPT ![j] = new]
    BY <1>2 DEF BackoffEnds
  <2> HIDE DEF row
  <2> QED
    BY <1>0, <2>1, <2>2 DEF Jobs, Writes
<1> QED
  BY <1>1, <1>2

LEMMA ClaimWrites ==
  ASSUME TypeOK, NEW j \in DOMAIN jobs, NEW token \in Tokens, ClaimJob(j, token)
  PROVE  \E new : Writes(j, new) /\ new.row.token = token /\ new.row.status = "running"
                  /\ new.key = jobs[j].key /\ new.open = FALSE
<1> DEFINE row == Claimed(jobs[j].row, token, 0)
           new == [jobs[j] EXCEPT !.row = row, !.open = FALSE]
<1>0. jobs[j] \in Jobs /\ jobs[j].row \in Rows
  BY JobsAreASequence DEF Jobs
<1>1. row \in Rows /\ row.token = token /\ row.status = "running"
  BY <1>0, RowOperators DEF Claimed, Rows, LeaseRows
<1>2. jobs' = [jobs EXCEPT ![j] = new]
  BY DEF ClaimJob, TakenOver
<1> HIDE DEF row
<1>3. new \in Jobs /\ new.row = row /\ new.key = jobs[j].key /\ new.open = FALSE
  BY <1>0, <1>1 DEF Jobs
<1> HIDE DEF new
<1> QED
  BY <1>1, <1>2, <1>3 DEF Writes

LEMMA StartWrites ==
  ASSUME TypeOK, NEW w \in Workers, NEW j \in DOMAIN jobs, StartAttempt(w, j)
  PROVE  \E new : Writes(j, new) /\ new.row = jobs[j].row /\ new.key = jobs[j].key
                  /\ new.open = TRUE
<1> DEFINE stage == jobs[j].stage
           counted == IF jobs[j].attempts[stage] < StageAttempts
                      THEN jobs[j].attempts[stage] + 1 ELSE jobs[j].attempts[stage]
           attempts == [jobs[j].attempts EXCEPT ![stage] = counted]
           new == [jobs[j] EXCEPT !.open = TRUE, !.attempts = attempts]
<1>0. jobs[j] \in Jobs /\ stage \in Stages
  BY JobsAreASequence DEF Jobs
<1>1. counted \in 0..StageAttempts
  BY <1>0, ArticleConstants DEF Jobs
<1>2. jobs' = [jobs EXCEPT ![j] = new]
  BY DEF StartAttempt
<1> HIDE DEF counted, stage
<1>3. attempts \in [Stages -> 0..StageAttempts]
  BY <1>0, <1>1 DEF Jobs
<1> HIDE DEF attempts
<1>4. new \in Jobs /\ new.row = jobs[j].row /\ new.key = jobs[j].key /\ new.open = TRUE
  BY <1>0, <1>3 DEF Jobs
<1> HIDE DEF new
<1> QED
  BY <1>2, <1>4 DEF Writes

\* Whoever ends an attempt gives the claim up, and the job has the page he fetched, none,
\* or the one it had.
LEMMA FetchWrites ==
  ASSUME TypeOK, WorkHasItsJob, NEW w \in Workers, CommitFetch(w)
  PROVE  \E new : Writes(worker[w].job, new) /\ new.row.token = None /\ new.open = FALSE
                  /\ new.key = worker[w].key
<1> DEFINE j == worker[w].job
           row == [Released(jobs[j].row) EXCEPT !.status = "queued", !.due = TRUE]
           new == [jobs[j] EXCEPT !.row = row, !.stage = "extract", !.key = worker[w].key,
                                  !.open = FALSE]
<1>0. /\ worker[w].key \in Keys /\ j \in DOMAIN jobs
      /\ jobs[j] \in Jobs /\ jobs[j].row \in Rows
  BY JobsAreASequence DEF WorkHasItsJob, CommitFetch, Working, Jobs
<1>1. row \in Rows /\ row.token = None
  BY <1>0, RowOperators DEF Released, Rows, LeaseRows
<1>2. jobs' = [jobs EXCEPT ![j] = new]
  BY DEF CommitFetch
<1> HIDE DEF row, j
<1>3. new \in Jobs /\ new.row = row /\ new.key = worker[w].key /\ new.open = FALSE
  BY <1>0, <1>1 DEF Jobs, Stages
<1> HIDE DEF new
<1>4. Writes(j, new) /\ new.row.token = None
  BY <1>0, <1>1, <1>2, <1>3 DEF Writes
<1> QED
  BY <1>3, <1>4 DEF j

LEMMA RequeueWrites ==
  ASSUME TypeOK, WorkHasItsJob, NEW w \in Workers, RequeueFetch(w)
  PROVE  \E new : Writes(worker[w].job, new) /\ new.row.token = None /\ new.open = FALSE
                  /\ new.key = None
<1> DEFINE j == worker[w].job
           row == [Released(jobs[j].row) EXCEPT !.status = "queued"]
           new == [jobs[j] EXCEPT !.row = row, !.stage = "fetch", !.key = None, !.open = FALSE]
<1>0. j \in DOMAIN jobs /\ jobs[j] \in Jobs /\ jobs[j].row \in Rows
  BY JobsAreASequence DEF WorkHasItsJob, RequeueFetch, Working, Jobs
<1>1. row \in Rows /\ row.token = None
  BY <1>0, RowOperators DEF Released, Rows, LeaseRows
<1>2. jobs' = [jobs EXCEPT ![j] = new]
  BY DEF RequeueFetch
<1> HIDE DEF row, j
<1>3. new \in Jobs /\ new.row = row /\ new.key = None /\ new.open = FALSE
  BY <1>0, <1>1 DEF Jobs, Stages
<1> HIDE DEF new
<1>4. Writes(j, new) /\ new.row.token = None
  BY <1>0, <1>1, <1>2, <1>3 DEF Writes
<1> QED
  BY <1>3, <1>4 DEF j

LEMMA ExtractWrites ==
  ASSUME TypeOK, WorkHasItsJob, NEW w \in Workers, CommitExtract(w)
  PROVE  \E new : Writes(worker[w].job, new) /\ new.row.token = None /\ new.open = FALSE
                  /\ new.key = None
<1> DEFINE j == worker[w].job
           row == [Released(jobs[j].row) EXCEPT !.status = "succeeded"]
           new == [jobs[j] EXCEPT !.row = row, !.key = None, !.open = FALSE]
<1>0. j \in DOMAIN jobs /\ jobs[j] \in Jobs /\ jobs[j].row \in Rows
  BY JobsAreASequence DEF WorkHasItsJob, CommitExtract, Working, Jobs
<1>1. row \in Rows /\ row.token = None
  BY <1>0, RowOperators DEF Released, Rows, LeaseRows
<1>2. jobs' = [jobs EXCEPT ![j] = new]
  BY DEF CommitExtract
<1> HIDE DEF row, j
<1>3. new \in Jobs /\ new.row = row /\ new.key = None /\ new.open = FALSE
  BY <1>0, <1>1 DEF Jobs
<1> HIDE DEF new
<1>4. Writes(j, new) /\ new.row.token = None
  BY <1>0, <1>1, <1>2, <1>3 DEF Writes
<1> QED
  BY <1>3, <1>4 DEF j

LEMMA FailureWrites ==
  ASSUME TypeOK, WorkHasItsJob, NEW w \in Workers, NEW permanent \in BOOLEAN,
         RecordFailure(w, permanent)
  PROVE  \E new : Writes(worker[w].job, new) /\ new.row.token = None /\ new.open = FALSE
                  /\ new.key = jobs[worker[w].job].key
<1> DEFINE j == worker[w].job
           given == permanent \/ Exhausted(jobs[j].attempts[jobs[j].stage], StageAttempts)
           row == FailureRecorded(jobs[j].row, StageAttempts, given)
           new == [jobs[j] EXCEPT !.row = row, !.open = FALSE]
<1>0. j \in DOMAIN jobs /\ jobs[j] \in Jobs /\ jobs[j].row \in Rows
  BY JobsAreASequence DEF WorkHasItsJob, RecordFailure, Working, Jobs
<1>1. given \in BOOLEAN
  BY DEF Exhausted
<1>2. jobs' = [jobs EXCEPT ![j] = new]
  BY DEF RecordFailure
<1> HIDE DEF j, given
<1>3. row \in Rows
  BY <1>0, <1>1, RowOperators
<1>4. row.token = None
  BY <1>0 DEF FailureRecorded, Released, Rows, LeaseRows
<1> HIDE DEF row
<1>5. new \in Jobs /\ new.row = row /\ new.key = jobs[j].key /\ new.open = FALSE
  BY <1>0, <1>3 DEF Jobs
<1> HIDE DEF new
<1>6. Writes(j, new) /\ new.row.token = None
  BY <1>0, <1>2, <1>4, <1>5 DEF Writes
<1> QED
  BY <1>5, <1>6 DEF j

LEMMA FunctionIsASequence ==
  ASSUME NEW S, NEW n \in Nat, NEW f \in [1..n -> S]
  PROVE  f \in Seq(S) /\ Len(f) = n
  OBVIOUS

\* A request that joins the active job leaves all but what is asked for.
LEMMA JoinedKeeps ==
  ASSUME TypeOK, NEW keep \in BOOLEAN
  PROVE  /\ Joined(keep) \in Seq(Jobs) /\ Len(Joined(keep)) = Len(jobs)
         /\ DOMAIN Joined(keep) = DOMAIN jobs
         /\ \A j \in DOMAIN jobs :
              /\ Joined(keep)[j].row = jobs[j].row
              /\ Joined(keep)[j].key = jobs[j].key
              /\ Joined(keep)[j].open = jobs[j].open
<1>1. ASSUME NEW j \in DOMAIN jobs
      PROVE  /\ Joined(keep)[j] \in Jobs
             /\ Joined(keep)[j].row = jobs[j].row
             /\ Joined(keep)[j].key = jobs[j].key
             /\ Joined(keep)[j].open = jobs[j].open
  <2>1. jobs[j] \in Jobs
    BY JobsAreASequence
  <2>2. Joined(keep)[j] = jobs[j] \/ Joined(keep)[j] = [jobs[j] EXCEPT !.keep = @ \/ keep]
    BY DEF Joined
  <2> QED
    BY <2>1, <2>2 DEF Jobs
<1>2. DOMAIN Joined(keep) = DOMAIN jobs
  BY DEF Joined
<1>3. Joined(keep) \in [1..Len(jobs) -> Jobs]
  BY <1>1, JobsAreASequence DEF Joined
<1> QED
  BY <1>1, <1>2, <1>3, JobsAreASequence, FunctionIsASequence

\* The job added by a request, or by a retry.
LEMMA RequestWrites ==
  ASSUME TypeOK, NEW keep \in BOOLEAN, RequestProcessing(keep)
  PROVE  \/ jobs' = Joined(keep)
         \/ /\ Len(jobs) < MaxJobs /\ jobs' = Append(jobs, NewJob(keep))
            /\ NewJob(keep) \in Jobs
            /\ NewJob(keep).row.token = None /\ NewJob(keep).key = None
            /\ NewJob(keep).open = FALSE
<1>1. NewJob(keep) \in Jobs
  <2>1. NewRow \in Rows
    BY ArticleConstants DEF NewRow, Rows, LeaseRows, QueueStatuses, ActiveStatuses
  <2>2. [s \in Stages |-> 0] \in [Stages -> 0..StageAttempts]
    BY ArticleConstants
  <2> QED
    BY <2>1, <2>2 DEF NewJob, Jobs, Stages
<1> QED
  BY <1>1 DEF RequestProcessing, NewJob, NewRow

LEMMA RetryWrites ==
  ASSUME TypeOK, WorkHasItsJob, NEW r \in Requests, CommitRetry(r)
  PROVE  \/ \E keep \in BOOLEAN : jobs' = Joined(keep)
         \/ jobs' = jobs
         \/ \E old \in Seq(Jobs), new \in Jobs :
              /\ Settled
              /\ Len(jobs) < MaxJobs /\ Len(old) = Len(jobs) /\ jobs' = Append(old, new)
              /\ new.row.token = None /\ new.open = FALSE /\ new.key = retry[r].key
              /\ \A i \in DOMAIN jobs :
                   /\ old[i].row = jobs[i].row /\ old[i].open = jobs[i].open
                   /\ old[i].key = IF i = retry[r].job /\ retry[r].key # None THEN None
                                   ELSE jobs[i].key
<1> DEFINE j == retry[r].job
           key == retry[r].key
           old == IF key # None THEN [jobs EXCEPT ![j].key = None] ELSE jobs
           stage == IF key # None THEN jobs[j].stage ELSE "fetch"
           new == [NewJob(jobs[j].keep) EXCEPT !.stage = stage, !.key = key]
<1>0. /\ j \in DOMAIN jobs /\ jobs[j] \in Jobs /\ key \in Keys \cup {None}
      /\ jobs[j].keep \in BOOLEAN
  BY JobsAreASequence DEF WorkHasItsJob, CommitRetry, TypeOK, Jobs
<1>1. CASE ~Settled
  BY <1>0, <1>1 DEF CommitRetry
<1>2. CASE Settled /\ jobs' = jobs
  BY <1>2
<1>3. CASE Settled /\ jobs' # jobs
  <2>1. Len(jobs) < MaxJobs /\ jobs' = Append(old, new)
    BY <1>3 DEF CommitRetry, NewJob
  <2>2. /\ new \in Jobs /\ new.row.token = None /\ new.open = FALSE /\ new.key = key
    <3>1. NewRow \in Rows /\ NewRow.token = None
      BY ArticleConstants DEF NewRow, Rows, LeaseRows, QueueStatuses, ActiveStatuses
    <3>2. [s \in Stages |-> 0] \in [Stages -> 0..StageAttempts]
      BY ArticleConstants
    <3>3. stage \in Stages
      BY <1>0 DEF Jobs, Stages
    <3> HIDE DEF stage, key, j
    <3> QED
      BY <1>0, <3>1, <3>2, <3>3 DEF NewJob, Jobs
  <2>3. CASE key # None
    <3> DEFINE cleared == [jobs[j] EXCEPT !.key = None]
    <3>1. /\ cleared \in Jobs /\ cleared.key = None
          /\ cleared.row = jobs[j].row /\ cleared.open = jobs[j].open
      BY <1>0 DEF Jobs
    <3>2. old = [jobs EXCEPT ![j] = cleared]
      BY <2>3
    <3> HIDE DEF cleared, old, j, key, new
    <3>3. /\ old \in Seq(Jobs) /\ Len(old) = Len(jobs)
          /\ \A i \in DOMAIN jobs : old[i] = IF i = j THEN cleared ELSE jobs[i]
      BY <1>0, <3>1, <3>2, JobsAreASequence, ExceptSeq DEF TypeOK
    <3> HIDE DEF old, new, j, key
    <3> QED
      BY <1>3, <2>1, <2>2, <2>3, <3>1, <3>3 DEF j, key
  <2>4. CASE key = None
    <3>1. old = jobs
      BY <2>4
    <3> HIDE DEF old, new
    <3> QED
      BY <1>3, <2>1, <2>2, <2>4, <3>1 DEF TypeOK
  <2> QED
    BY <2>3, <2>4
<1> QED
  BY <1>1, <1>2, <1>3

-----------------------------------------------------------------------------
(* Types. *)

WorkerStates ==
  [pc : {"idle", "delete"} \cup Working, job : 0..MaxJobs, token : Tokens \cup {None},
   key : Keys \cup {None}, doomed : SUBSET Keys]
RetryStates == [open : BOOLEAN, job : 0..MaxJobs, key : Keys \cup {None}]
CleanerStates ==
  [pc : {"idle", "locked", "retained"}, keys : SUBSET Keys, retained : SUBSET Keys]

WellFormed == TypeOK /\ WorkHasItsJob

\* Who writes what besides the jobs.
LEMMA StepKinds ==
  ASSUME [Next]_vars
  PROVE  \/ UNCHANGED <<html, objects, worker, retry, cleaner>>
         \/ /\ \E r \in Requests : CommitRetry(r) \/ \E j \in DOMAIN jobs : BeginRetry(r, j)
            /\ UNCHANGED <<html, objects, worker, cleaner>>
         \/ /\ \E w \in Workers : Work(w) \/ Crash(w) \/ \E j \in DOMAIN jobs : StartAttempt(w, j)
            /\ UNCHANGED <<retry, cleaner>>
         \/ /\ ReadRetained \/ \E keys \in SUBSET Keys : LockBatch(keys) \/ DeleteUnreferenced(keys)
            /\ UNCHANGED <<jobs, html, worker, retry>>
<1>1. ASSUME \/ \E keep \in BOOLEAN : RequestProcessing(keep)
             \/ \E j \in DOMAIN jobs : \/ LeaseExpires(j) \/ BackoffEnds(j)
                                        \/ \E token \in Tokens : ClaimJob(j, token)
             \/ UNCHANGED vars
      PROVE  UNCHANGED <<html, objects, worker, retry, cleaner>>
  BY <1>1 DEF RequestProcessing, LeaseExpires, BackoffEnds, ClaimJob, vars
<1>2. ASSUME NEW r \in Requests, CommitRetry(r) \/ \E j \in DOMAIN jobs : BeginRetry(r, j)
      PROVE  UNCHANGED <<html, objects, worker, cleaner>>
  BY <1>2 DEF CommitRetry, BeginRetry
<1>3. ASSUME NEW w \in Workers, Work(w) \/ Crash(w) \/ \E j \in DOMAIN jobs : StartAttempt(w, j)
      PROVE  UNCHANGED <<retry, cleaner>>
  BY <1>3 DEF Work, CommitFetch, DropFetch, ReadHtml, RequeueFetch, CommitExtract, NothingToFinish,
     FetchPage, DeleteAfterCommit, RecordFailure, Crash, StartAttempt
<1>4. ASSUME ReadRetained \/ \E keys \in SUBSET Keys : LockBatch(keys) \/ DeleteUnreferenced(keys)
      PROVE  UNCHANGED <<jobs, html, worker, retry>>
  BY <1>4 DEF ReadRetained, LockBatch, DeleteUnreferenced
<1> QED
  BY <1>1, <1>2, <1>3, <1>4 DEF Next

\* No job is ever taken away.
LEMMA JobsStep ==
  WellFormed /\ [Next]_vars =>
    /\ jobs' \in Seq(Jobs) /\ Len(jobs') <= MaxJobs
    /\ DOMAIN jobs \subseteq DOMAIN jobs' /\ DOMAIN jobs' \subseteq 1..MaxJobs
<1> SUFFICES ASSUME WellFormed, [Next]_vars
             PROVE  /\ jobs' \in Seq(Jobs) /\ Len(jobs') <= MaxJobs
                    /\ DOMAIN jobs \subseteq DOMAIN jobs'
  BY ArticleConstants, LenProperties
<1> USE DEF WellFormed
<1>1. ASSUME NEW j, NEW new, Writes(j, new)
      PROVE  jobs' \in Seq(Jobs) /\ Len(jobs') <= MaxJobs /\ DOMAIN jobs \subseteq DOMAIN jobs'
  BY <1>1, WriteChangesOneJob DEF TypeOK
<1>2. ASSUME NEW old \in Seq(Jobs), NEW new \in Jobs, Len(jobs) < MaxJobs, Len(old) = Len(jobs),
             jobs' = Append(old, new)
      PROVE  jobs' \in Seq(Jobs) /\ Len(jobs') <= MaxJobs /\ DOMAIN jobs \subseteq DOMAIN jobs'
  BY <1>2, AppendAddsOneJob
<1>3. ASSUME NEW keep \in BOOLEAN, jobs' = Joined(keep)
      PROVE  jobs' \in Seq(Jobs) /\ Len(jobs') <= MaxJobs /\ DOMAIN jobs \subseteq DOMAIN jobs'
  BY <1>3, JoinedKeeps DEF TypeOK
<1>4. CASE jobs' = jobs
  BY <1>4 DEF TypeOK
<1>5. ASSUME NEW keep \in BOOLEAN, RequestProcessing(keep)
      PROVE  jobs' \in Seq(Jobs) /\ Len(jobs') <= MaxJobs /\ DOMAIN jobs \subseteq DOMAIN jobs'
  BY <1>2, <1>3, <1>5, RequestWrites DEF TypeOK
<1>6. ASSUME NEW r \in Requests, CommitRetry(r)
      PROVE  jobs' \in Seq(Jobs) /\ Len(jobs') <= MaxJobs /\ DOMAIN jobs \subseteq DOMAIN jobs'
  BY <1>2, <1>3, <1>4, <1>6, RetryWrites
<1>7. ASSUME NEW j \in DOMAIN jobs,
             \/ LeaseExpires(j) \/ BackoffEnds(j)
             \/ \E token \in Tokens : ClaimJob(j, token)
             \/ \E w \in Workers : StartAttempt(w, j)
      PROVE  \E i, new : Writes(i, new)
  BY <1>7, ClockWrites, ClaimWrites, StartWrites
<1>8. ASSUME NEW w \in Workers,
             \/ CommitFetch(w) \/ RequeueFetch(w) \/ CommitExtract(w)
             \/ \E permanent \in BOOLEAN : RecordFailure(w, permanent)
      PROVE  \E i, new : Writes(i, new)
  BY <1>8, FetchWrites, RequeueWrites, ExtractWrites, FailureWrites
<1>9. ASSUME \/ \E j \in DOMAIN jobs, r \in Requests : BeginRetry(r, j)
             \/ \E w \in Workers :
                  \/ DropFetch(w) \/ ReadHtml(w) \/ NothingToFinish(w) \/ Crash(w)
                  \/ \E k \in Keys : FetchPage(w, k)
                  \/ \E keys \in SUBSET Keys : DeleteAfterCommit(w, keys)
             \/ \E keys \in SUBSET Keys : LockBatch(keys) \/ DeleteUnreferenced(keys)
             \/ ReadRetained \/ UNCHANGED vars
      PROVE  jobs' = jobs
  BY <1>9 DEF BeginRetry, DropFetch, ReadHtml, NothingToFinish, Crash, FetchPage, DeleteAfterCommit,
     LockBatch, DeleteUnreferenced, ReadRetained, vars
<1> QED
  BY <1>1, <1>4, <1>5, <1>6, <1>7, <1>8, <1>9 DEF Next, Work

LEMMA TypeInit == Init => WellFormed
<1> SUFFICES ASSUME Init PROVE WellFormed
  OBVIOUS
<1> USE ArticleConstants
<1>1. ASSUME NEW status \in QueueStatuses \ {"running"}, NEW stage \in Stages,
             NEW key \in Keys \cup {None}
      PROVE  Ended(status, stage, key) \in Jobs
  <2> DEFINE row == [NewRow EXCEPT !.status = status]
             none == [s \in Stages |-> 0]
  <2>0. NewRow \in Rows /\ NewRow.token = None
    BY DEF NewRow, Rows, LeaseRows, QueueStatuses, ActiveStatuses
  <2>1. row \in Rows
    BY <1>1, <2>0 DEF Rows, LeaseRows
  <2>2. none \in [Stages -> 0..StageAttempts]
    OBVIOUS
  <2>3. NewJob(FALSE) \in Jobs /\ NewJob(FALSE).row = NewRow
    BY <2>0, <2>2 DEF NewJob, Jobs, Stages
  <2>4. Ended(status, stage, key) = [NewJob(FALSE) EXCEPT !.row = row, !.stage = stage, !.key = key]
    BY <2>3 DEF Ended, Jobs
  <2> HIDE DEF row, none
  <2> QED
    BY <2>1, <2>3, <2>4 DEF Jobs
<1>2. \E job \in Jobs : jobs = <<job>>
  BY <1>1 DEF Init, QueueStatuses, ActiveStatuses, Stages
<1>3. jobs \in Seq(Jobs) /\ Len(jobs) <= MaxJobs
  BY <1>2
<1>4. worker \in [Workers -> WorkerStates] /\ \A w \in Workers : worker[w].pc = "idle"
  BY DEF Init, Idle, WorkerStates
<1>5. retry \in [Requests -> RetryStates] /\ \A r \in Requests : retry[r].open = FALSE
  BY DEF Init, NoRetry, RetryStates
<1>6. html \in Keys \cup {None} /\ objects \subseteq Keys /\ cleaner \in CleanerStates
  BY DEF Init, NotCleaning, CleanerStates
<1>7. TypeOK
  BY <1>3, <1>4, <1>5, <1>6 DEF TypeOK, WorkerStates, Working, RetryStates, CleanerStates
<1>8. WorkHasItsJob
  BY <1>4, <1>5 DEF WorkHasItsJob, Working
<1> QED
  BY <1>7, <1>8 DEF WellFormed

\* A worker's next state, and what it must have when it is at work.
Placed(state) ==
  /\ state \in WorkerStates
  /\ state.pc \in Working => state.job \in DOMAIN jobs /\ state.token \in Tokens
  /\ state.pc \in {"stored", "text"} => state.key \in Keys

LEMMA TypeStep == WellFormed /\ [Next]_vars => WellFormed'
<1> SUFFICES ASSUME WellFormed, [Next]_vars PROVE WellFormed'
  OBVIOUS
<1>0. /\ jobs' \in Seq(Jobs) /\ Len(jobs') <= MaxJobs
      /\ DOMAIN jobs \subseteq DOMAIN jobs' /\ DOMAIN jobs' \subseteq 1..MaxJobs
  BY JobsStep
<1>1. /\ \A j \in DOMAIN jobs : jobs[j] \in Jobs /\ jobs[j].row \in Rows
      /\ DOMAIN jobs \subseteq 1..MaxJobs
      /\ html \in Keys \cup {None} /\ objects \subseteq Keys
      /\ worker \in [Workers -> WorkerStates]
      /\ retry \in [Requests -> RetryStates] /\ cleaner \in CleanerStates
      /\ \A w \in Workers : Placed(worker[w])
      /\ \A r \in Requests : retry[r].open => retry[r].job \in DOMAIN jobs
  <2>1. worker \in [Workers -> WorkerStates] /\ retry \in [Requests -> RetryStates]
        /\ cleaner \in CleanerStates
    BY DEF WellFormed, TypeOK, WorkerStates, RetryStates, CleanerStates, Working
  <2> QED
    BY <2>1, JobsAreASequence DEF WellFormed, WorkHasItsJob, Placed, Jobs, TypeOK
<1>2. html' \in Keys \cup {None} /\ objects' \subseteq Keys
  <2>1. ASSUME NEW w \in Workers, Work(w) \/ Crash(w) \/ \E j \in DOMAIN jobs : StartAttempt(w, j)
        PROVE  html' \in Keys \cup {None} /\ objects' \subseteq Keys
    <3>1. worker[w].key \in Keys \cup {None}
      BY <1>1 DEF WorkerStates
    <3>2. CASE CommitExtract(w)
      BY <1>1, <3>1, <3>2 DEF CommitExtract
    <3>3. CASE \E k \in Keys : FetchPage(w, k)
      BY <1>1, <3>3 DEF FetchPage
    <3>4. CASE DropFetch(w) \/ \E keys \in SUBSET Keys : DeleteAfterCommit(w, keys)
      BY <1>1, <3>4 DEF DropFetch, DeleteAfterCommit
    <3>5. CASE \/ CommitFetch(w) \/ ReadHtml(w) \/ RequeueFetch(w) \/ NothingToFinish(w) \/ Crash(w)
               \/ \E permanent \in BOOLEAN : RecordFailure(w, permanent)
               \/ \E j \in DOMAIN jobs : StartAttempt(w, j)
      BY <1>1, <3>5 DEF CommitFetch, ReadHtml, RequeueFetch, NothingToFinish, Crash, RecordFailure,
         StartAttempt
    <3> QED
      BY <2>1, <3>2, <3>3, <3>4, <3>5 DEF Work
  <2>2. ASSUME ReadRetained \/ \E keys \in SUBSET Keys : LockBatch(keys) \/ DeleteUnreferenced(keys)
        PROVE  objects' \subseteq Keys
    BY <1>1, <2>2 DEF ReadRetained, LockBatch, DeleteUnreferenced
  <2> QED
    BY <1>1, <2>1, <2>2, StepKinds
<1>3. worker' \in [Workers -> WorkerStates] /\ \A w \in Workers : Placed(worker'[w])
  <2> DEFINE Goal == worker' \in [Workers -> WorkerStates] /\ \A w \in Workers : Placed(worker'[w])
  <2>1. ASSUME NEW w \in Workers, NEW state, Placed(state), worker' = [worker EXCEPT ![w] = state]
        PROVE  Goal
    BY <1>1, <2>1 DEF Placed
  <2>2. Placed(Idle)
    BY ArticleConstants DEF Placed, Idle, WorkerStates, Working
  <2>3. ASSUME NEW w \in Workers, Finished(w) PROVE Goal
    BY <2>1, <2>2, <2>3 DEF Finished
  <2>4. ASSUME NEW w \in Workers, NEW j \in DOMAIN jobs, StartAttempt(w, j) PROVE Goal
    <3> DEFINE pc == IF jobs[j].stage = "fetch" THEN "fetch" ELSE "html"
    <3>1. /\ jobs[j].row.token \in Tokens /\ jobs[j].key \in Keys \cup {None} /\ j \in 0..MaxJobs
      BY <1>1, <2>4, ArticleConstants DEF StartAttempt, Jobs, Rows, LeaseRows
    <3>2. worker' = [worker EXCEPT ![w] = [pc |-> pc, job |-> j, token |-> jobs[j].row.token,
                                            key |-> jobs[j].key, doomed |-> {}]]
      BY <2>4 DEF StartAttempt
    <3>3. pc \in {"fetch", "html"}
      OBVIOUS
    <3> HIDE DEF pc
    <3>4. Placed([pc |-> pc, job |-> j, token |-> jobs[j].row.token,
                  key |-> jobs[j].key, doomed |-> {}])
      BY <3>1, <3>3 DEF Placed, WorkerStates, Working
    <3> QED
      BY <2>1, <3>2, <3>4
  <2>5. ASSUME NEW w \in Workers, NEW key \in Keys, FetchPage(w, key) PROVE Goal
    <3> DEFINE state == [worker[w] EXCEPT !.pc = "stored", !.key = key]
    <3>1. worker' = [worker EXCEPT ![w] = state]
      BY <2>5 DEF FetchPage
    <3>2. Placed(state)
      BY <1>1, <2>5 DEF FetchPage, Placed, WorkerStates, Working
    <3> HIDE DEF state
    <3> QED
      BY <2>1, <3>1, <3>2
  <2>6. ASSUME NEW w \in Workers, ReadHtml(w) PROVE Goal
    <3> DEFINE pc == IF worker[w].key \in objects THEN "text" ELSE "missing"
               state == [worker[w] EXCEPT !.pc = pc]
    <3>1. worker' = [worker EXCEPT ![w] = state]
      BY <2>6 DEF ReadHtml
    <3>2. pc \in {"text", "missing"} /\ (pc = "text" => worker[w].key \in Keys)
      BY <1>1
    <3> HIDE DEF pc
    <3>3. Placed(state)
      BY <1>1, <2>6, <3>2 DEF ReadHtml, Placed, WorkerStates, Working
    <3> HIDE DEF state
    <3> QED
      BY <2>1, <3>1, <3>3
  <2>7. ASSUME NEW w \in Workers, CommitExtract(w) PROVE Goal
    <3> DEFINE retained == IF jobs[worker[w].job].keep THEN worker[w].key ELSE None
               state == [Idle EXCEPT !.pc = "delete", !.doomed = Doomed(worker[w].key, retained)]
    <3>1. worker' = [worker EXCEPT ![w] = state]
      BY <2>7 DEF CommitExtract
    <3>2. Doomed(worker[w].key, retained) \subseteq Keys
      BY <1>1, <2>7 DEF CommitExtract, Placed, Doomed
    <3> HIDE DEF retained
    <3>3. Placed(state)
      BY <2>2, <3>2 DEF Placed, WorkerStates, Working
    <3> HIDE DEF state
    <3> QED
      BY <2>1, <3>1, <3>3
  <2>8. CASE UNCHANGED worker
    BY <1>1, <2>8
  <2> HIDE DEF Goal
  <2>9. ASSUME NEW w \in Workers, Work(w) \/ Crash(w) PROVE Goal
    BY <2>3, <2>5, <2>6, <2>7, <2>9 DEF Work, CommitFetch, DropFetch, RequeueFetch, NothingToFinish,
       DeleteAfterCommit, RecordFailure, Crash
  <2> QED
    BY <2>4, <2>8, <2>9, StepKinds DEF Goal
<1>4. /\ retry' \in [Requests -> RetryStates]
      /\ \A r \in Requests : retry'[r].open => retry'[r].job \in DOMAIN jobs
  <2> DEFINE Goal == /\ retry' \in [Requests -> RetryStates]
                     /\ \A r \in Requests : retry'[r].open => retry'[r].job \in DOMAIN jobs
  <2>1. ASSUME NEW r \in Requests, NEW j \in DOMAIN jobs, BeginRetry(r, j) PROVE Goal
    <3> DEFINE state == [open |-> TRUE, job |-> j, key |-> jobs[j].key]
    <3>1. state \in RetryStates /\ state.job \in DOMAIN jobs
      BY <1>1 DEF Jobs, RetryStates
    <3>2. retry' = [retry EXCEPT ![r] = state]
      BY <2>1 DEF BeginRetry
    <3> HIDE DEF state
    <3> QED
      BY <1>1, <3>1, <3>2
  <2>2. ASSUME NEW r \in Requests, CommitRetry(r) PROVE Goal
    <3>1. NoRetry \in RetryStates /\ ~NoRetry.open
      BY ArticleConstants DEF NoRetry, RetryStates
    <3>2. retry' = [retry EXCEPT ![r] = NoRetry]
      BY <2>2 DEF CommitRetry
    <3> QED
      BY <1>1, <3>1, <3>2
  <2>3. CASE UNCHANGED retry
    BY <1>1, <2>3
  <2> QED
    BY <2>1, <2>2, <2>3, StepKinds DEF Goal
<1>5. cleaner' \in CleanerStates
  <2>1. ASSUME NEW keys \in SUBSET Keys, LockBatch(keys) PROVE cleaner' \in CleanerStates
    BY <2>1 DEF LockBatch, CleanerStates
  <2>2. ASSUME NEW keys \in SUBSET Keys, DeleteUnreferenced(keys) PROVE cleaner' \in CleanerStates
    BY <2>2 DEF DeleteUnreferenced, CleanerStates, NotCleaning
  <2>3. ASSUME ReadRetained PROVE cleaner' \in CleanerStates
    BY <1>1, <2>3 DEF ReadRetained, CleanerStates
  <2> QED
    BY <1>1, <2>1, <2>2, <2>3, StepKinds
<1>6. TypeOK'
  <2>1. worker' \in [Workers -> WorkerStates]
    BY <1>3
  <2> QED
    BY <1>0, <1>2, <2>1, <1>4, <1>5 DEF TypeOK, WorkerStates, Working, RetryStates, CleanerStates
<1>7. WorkHasItsJob'
  BY <1>0, <1>3, <1>4 DEF WorkHasItsJob, Placed
<1> QED
  BY <1>6, <1>7 DEF WellFormed
\* Whatever the workers, the scheduler, the requests and cleanup do, every job, worker,
\* retry and batch stays one of those the code can have.
THEOREM TypeCorrect == Spec => []TypeOK
<1>1. WellFormed /\ UNCHANGED vars => WellFormed'
  BY TypeStep
<1>2. WellFormed => TypeOK
  BY DEF WellFormed
<1> QED
  BY TypeInit, TypeStep, <1>1, <1>2, PTL DEF Spec
-----------------------------------------------------------------------------
(* Who owns a page. *)

\* A worker that is at work under a claim it still has.
Holds(w) == worker[w].pc \in Working /\ MayHold(w)

\* A claim is worked for by one worker at most, under the attempt that is open.
HoldersAlone ==
  \A w \in Workers : Holds(w) =>
    /\ jobs[worker[w].job].open = TRUE
    /\ \A v \in Workers : Holds(v) /\ worker[v].job = worker[w].job => v = w

\* It reads the page of its job, which stays in the store meanwhile.
HolderHasPage ==
  \A w \in Workers : Holds(w) =>
    /\ worker[w].pc \in {"html", "missing", "text"} => worker[w].key = jobs[worker[w].job].key
    /\ worker[w].pc = "text" => worker[w].key \in objects

\* A page is one job's, or the content's, or a worker's that has just stored it.
PagesHaveOneOwner ==
  /\ \A i, j \in DOMAIN jobs : jobs[i].key = jobs[j].key => jobs[i].key = None \/ i = j
  /\ html # None => \A j \in DOMAIN jobs : jobs[j].key # html
  /\ \A w \in Workers : worker[w].pc = "stored" =>
       /\ worker[w].key # html /\ \A j \in DOMAIN jobs : jobs[j].key # worker[w].key
       /\ \A v \in Workers : /\ worker[v].pc = "stored" /\ worker[v].key = worker[w].key => v = w
                             /\ worker[w].key \notin worker[v].doomed

\* What a worker is to delete is nobody's.
DoomedIsDead ==
  \A w \in Workers : /\ html \notin worker[w].doomed
                     /\ \A j \in DOMAIN jobs : jobs[j].key \notin worker[w].doomed

\* No content began to refer to a page of the batch after cleanup asked.
CleanerHasSeen ==
  cleaner.pc = "retained" /\ html \in cleaner.keys => html \in cleaner.retained

\* The job a retry has read has ended, and still has the page it had.
RetryIsOfEndedJob ==
  \A r \in Requests : retry[r].open =>
    ~Active(retry[r].job) /\ jobs[retry[r].job].key = retry[r].key

Owned ==
  /\ HoldersAlone /\ HolderHasPage /\ PagesHaveOneOwner /\ DoomedIsDead
  /\ CleanerHasSeen /\ RetryIsOfEndedJob /\ RetainedHtmlExists

PagesAreOwned == WellFormed /\ Owned

LEMMA HeldIsActive ==
  ASSUME WellFormed, NEW w \in Workers, Holds(w)
  PROVE  /\ worker[w].job \in DOMAIN jobs /\ worker[w].token \in Tokens /\ worker[w].token # None
         /\ jobs[worker[w].job].row.token = worker[w].token
         /\ jobs[worker[w].job].row.token # None
         /\ Active(worker[w].job)
<1>1. /\ worker[w].job \in DOMAIN jobs /\ worker[w].token \in Tokens
      /\ jobs[worker[w].job].row.token = worker[w].token
  BY DEF WellFormed, WorkHasItsJob, Holds, MayHold, RowOf
<1>2. jobs[worker[w].job].row \in Rows
  BY <1>1, JobsAreASequence DEF WellFormed, Jobs
<1>3. worker[w].token # None
  BY <1>1, ArticleConstants
<1> QED
  BY <1>1, <1>2, <1>3 DEF Rows, Active, ActiveStatuses

\* Every job keeps its claim, its attempt and its page, and a new one has none.
SameJobs ==
  /\ DOMAIN jobs \subseteq DOMAIN jobs'
  /\ \A i \in DOMAIN jobs :
       /\ jobs'[i].row.token = jobs[i].row.token /\ jobs'[i].row.status = jobs[i].row.status
       /\ jobs'[i].open = jobs[i].open /\ jobs'[i].key = jobs[i].key
  /\ \A i \in DOMAIN jobs' : i \notin DOMAIN jobs => jobs'[i].key = None

LEMMA QuietStep ==
  ASSUME WellFormed, Owned, SameJobs, UNCHANGED <<html, objects, worker, cleaner>>,
         \A r \in Requests : retry'[r].open => retry[r].open /\ retry'[r] = retry[r]
  PROVE  Owned'
<1>0. \A w \in Workers : worker[w].pc \in Working => worker[w].job \in DOMAIN jobs
  BY DEF WellFormed, WorkHasItsJob
<1>1. \A w \in Workers : Holds(w)' <=> Holds(w)
  BY <1>0 DEF SameJobs, Holds, MayHold, RowOf
<1>2. HoldersAlone'
  BY <1>0, <1>1 DEF Owned, HoldersAlone, SameJobs, Holds
<1>3. HolderHasPage'
  BY <1>0, <1>1 DEF Owned, HolderHasPage, SameJobs, Holds
<1>4. None \notin Keys /\ html \in Keys \cup {None}
      /\ \A w \in Workers : /\ worker[w].pc = "stored" => worker[w].key \in Keys
                            /\ worker[w].doomed \subseteq Keys
  BY ArticleConstants DEF WellFormed, TypeOK, WorkHasItsJob
<1>5. PagesHaveOneOwner'
  BY <1>4 DEF Owned, PagesHaveOneOwner, SameJobs
<1>6. DoomedIsDead'
  BY <1>4 DEF Owned, DoomedIsDead, SameJobs
<1>7. RetryIsOfEndedJob'
  BY DEF Owned, RetryIsOfEndedJob, SameJobs, WellFormed, WorkHasItsJob, Active
<1> QED
  BY <1>2, <1>3, <1>5, <1>6, <1>7 DEF Owned, CleanerHasSeen, RetainedHtmlExists

\* A request, or a retry, that joins the active job or adds a job without a page; the clock.
LEMMA QuietSteps ==
  ASSUME WellFormed, Owned,
         \/ \E keep \in BOOLEAN : RequestProcessing(keep)
         \/ \E j \in DOMAIN jobs : LeaseExpires(j) \/ BackoffEnds(j)
  PROVE  Owned'
<1>1. ASSUME NEW keep \in BOOLEAN, RequestProcessing(keep) PROVE Owned'
  <2>1. CASE jobs' = Joined(keep)
    <3>1. SameJobs
      BY <2>1, JoinedKeeps DEF SameJobs, WellFormed
    <3> QED
      BY <1>1, <3>1, QuietStep DEF RequestProcessing
  <2>2. CASE /\ Len(jobs) < MaxJobs /\ jobs' = Append(jobs, NewJob(keep))
             /\ NewJob(keep) \in Jobs /\ NewJob(keep).key = None
    <3>1. SameJobs
      <4>1. jobs \in Seq(Jobs)
        BY DEF WellFormed, TypeOK
      <4> QED
        BY <2>2, <4>1, AppendAddsOneJob DEF SameJobs, WellFormed
    <3> QED
      BY <1>1, <3>1, QuietStep DEF RequestProcessing
  <2> QED
    BY <1>1, <2>1, <2>2, RequestWrites DEF WellFormed
<1>2. ASSUME NEW j \in DOMAIN jobs, LeaseExpires(j) \/ BackoffEnds(j) PROVE Owned'
  <2>1. SameJobs
    BY <1>2, ClockWrites, WriteChangesOneJob DEF SameJobs, WellFormed
  <2> QED
    BY <1>2, <2>1, QuietStep DEF LeaseExpires, BackoffEnds
<1> QED
  BY <1>1, <1>2

\* The token is nobody's: whoever worked for the job has lost it.
LEMMA ClaimStep ==
  ASSUME WellFormed, Owned, NEW j \in DOMAIN jobs, NEW token \in Tokens, ClaimJob(j, token)
  PROVE  Owned'
<1>1. PICK new : /\ Writes(j, new) /\ new.row.token = token /\ new.row.status = "running"
                 /\ new.key = jobs[j].key /\ new.open = FALSE
  <2>1. TypeOK
    BY DEF WellFormed
  <2> QED
    BY <2>1, ClaimWrites, ZenonT(60)
<1>2. /\ DOMAIN jobs' = DOMAIN jobs /\ jobs'[j] = new
      /\ \A i \in DOMAIN jobs : i # j => jobs'[i] = jobs[i]
      /\ \A i \in DOMAIN jobs : jobs'[i].key = jobs[i].key
  BY <1>1, WriteChangesOneJob DEF WellFormed
<1>3. UNCHANGED <<html, objects, worker, retry, cleaner>>
      /\ \A w \in Workers : worker[w].token # token
  BY DEF ClaimJob, FreshTokens
<1>4. \A w \in Workers : Holds(w)' => Holds(w) /\ worker[w].job # j
  BY <1>1, <1>2, <1>3 DEF Holds, MayHold, RowOf, WellFormed, WorkHasItsJob
<1>5. HoldersAlone' /\ HolderHasPage'
  BY <1>2, <1>3, <1>4, HeldIsActive DEF Owned, HoldersAlone, HolderHasPage
<1>6. PagesHaveOneOwner' /\ DoomedIsDead'
  BY <1>2, <1>3 DEF Owned, PagesHaveOneOwner, DoomedIsDead
<1>7. Active(j)
  BY DEF ClaimJob, Claimable, Active
<1>8. RetryIsOfEndedJob'
  BY <1>2, <1>3, <1>7 DEF Owned, RetryIsOfEndedJob, WellFormed, WorkHasItsJob, Active
<1> QED
  BY <1>3, <1>5, <1>6, <1>8 DEF Owned, CleanerHasSeen, RetainedHtmlExists

\* Nobody holds a job whose attempt is not open.
LEMMA StartStep ==
  ASSUME WellFormed, Owned, NEW w \in Workers, NEW j \in DOMAIN jobs, StartAttempt(w, j)
  PROVE  Owned'
<1>1. PICK new : /\ Writes(j, new) /\ new.row = jobs[j].row /\ new.key = jobs[j].key
                 /\ new.open = TRUE
  BY StartWrites DEF WellFormed
<1>2. /\ DOMAIN jobs' = DOMAIN jobs /\ jobs'[j] = new
      /\ \A i \in DOMAIN jobs : i # j => jobs'[i] = jobs[i]
      /\ \A i \in DOMAIN jobs : jobs'[i].key = jobs[i].key /\ jobs'[i].row = jobs[i].row
  BY <1>1, WriteChangesOneJob DEF WellFormed
<1> DEFINE state == [pc |-> IF jobs[j].stage = "fetch" THEN "fetch" ELSE "html", job |-> j,
                     token |-> jobs[j].row.token, key |-> jobs[j].key, doomed |-> {}]
<1>3. /\ worker' = [worker EXCEPT ![w] = state] /\ UNCHANGED <<html, objects, retry, cleaner>>
      /\ ~jobs[j].open
  BY DEF StartAttempt
<1>4. /\ state.pc \in {"fetch", "html"} /\ state.job = j /\ state.token = jobs[j].row.token
      /\ state.key = jobs[j].key /\ state.doomed = {}
  OBVIOUS
<1> HIDE DEF state
<1>5. worker'[w] = state /\ \A v \in Workers : v # w => worker'[v] = worker[v]
  BY <1>3 DEF WellFormed, TypeOK
<1>6. \A v \in Workers : v # w /\ Holds(v)' => Holds(v) /\ worker[v].job # j
  BY <1>2, <1>3, <1>5 DEF Owned, HoldersAlone, Holds, MayHold, RowOf, WellFormed, WorkHasItsJob
<1>7. HoldersAlone'
  BY <1>1, <1>2, <1>4, <1>5, <1>6, HeldIsActive DEF Owned, HoldersAlone
<1>8. HolderHasPage'
  BY <1>2, <1>3, <1>4, <1>5, <1>6, HeldIsActive DEF Owned, HolderHasPage
<1>9. PagesHaveOneOwner'
  BY <1>2, <1>3, <1>4, <1>5 DEF Owned, PagesHaveOneOwner
<1>10. DoomedIsDead'
  BY <1>2, <1>3, <1>4, <1>5 DEF Owned, DoomedIsDead
<1>11. RetryIsOfEndedJob'
  BY <1>2, <1>3 DEF Owned, RetryIsOfEndedJob, WellFormed, WorkHasItsJob, Active
<1> QED
  BY <1>3, <1>7, <1>8, <1>9, <1>10, <1>11 DEF Owned, CleanerHasSeen, RetainedHtmlExists

\* The end of an attempt: the worker lets the job go, and nobody holds it.
Releases(w, new, after) ==
  /\ Holds(w) /\ Writes(worker[w].job, new)
  /\ new.row.token = None /\ new.open = FALSE
  /\ worker' = [worker EXCEPT ![w] = after]
  /\ after.pc \in {"idle", "delete"}

LEMMA ReleaseStep ==
  ASSUME WellFormed, Owned, NEW w \in Workers, NEW new, NEW after, Releases(w, new, after),
         UNCHANGED <<objects, retry, cleaner>>
  PROVE  /\ DOMAIN jobs' = DOMAIN jobs /\ worker[w].job \in DOMAIN jobs
         /\ jobs'[worker[w].job] = new
         /\ \A i \in DOMAIN jobs : i # worker[w].job => jobs'[i] = jobs[i]
         /\ worker'[w] = after /\ \A v \in Workers : v # w => worker'[v] = worker[v]
         /\ HoldersAlone' /\ HolderHasPage' /\ RetryIsOfEndedJob'
<1> DEFINE j == worker[w].job
<1>1. /\ j \in DOMAIN jobs /\ DOMAIN jobs' = DOMAIN jobs /\ jobs'[j] = new
      /\ \A i \in DOMAIN jobs : i # j => jobs'[i] = jobs[i]
      /\ new.row.token = None /\ after.pc \notin Working
  BY WriteChangesOneJob DEF WellFormed, Releases, Writes, Working
<1>2. worker'[w] = after /\ \A v \in Workers : v # w => worker'[v] = worker[v]
  BY DEF Releases, WellFormed, TypeOK
<1>3. \A v \in Workers : Holds(v)' => v # w /\ Holds(v) /\ worker[v].job # j
  BY <1>1, <1>2, ArticleConstants DEF Holds, MayHold, RowOf, WellFormed, WorkHasItsJob
<1>4. HoldersAlone'
  BY <1>1, <1>2, <1>3, HeldIsActive DEF Owned, HoldersAlone
<1>5. HolderHasPage'
  BY <1>1, <1>2, <1>3, HeldIsActive DEF Owned, HolderHasPage
<1>6. Active(j)
  BY HeldIsActive DEF Releases
<1>7. RetryIsOfEndedJob'
  BY <1>1, <1>6 DEF Owned, RetryIsOfEndedJob, WellFormed, WorkHasItsJob, Active
<1> QED
  BY <1>1, <1>2, <1>4, <1>5, <1>7

\* The page that was stored becomes the job's.
LEMMA FetchStep ==
  ASSUME WellFormed, Owned, NEW w \in Workers, CommitFetch(w)
  PROVE  Owned'
<1> DEFINE j == worker[w].job
<1>0. /\ worker' = [worker EXCEPT ![w] = Idle] /\ UNCHANGED <<html, objects, retry, cleaner>>
      /\ worker[w].pc = "stored" /\ Holds(w)
  BY DEF CommitFetch, Finished, Holds, Working
<1>1. PICK new : /\ Writes(worker[w].job, new) /\ new.row.token = None /\ new.open = FALSE
                 /\ new.key = worker[w].key
  BY FetchWrites DEF WellFormed
<1>2. Releases(w, new, Idle) /\ Idle.doomed = {} /\ Idle.pc = "idle"
  BY <1>0, <1>1 DEF Releases, Idle
<1>3. /\ DOMAIN jobs' = DOMAIN jobs /\ j \in DOMAIN jobs /\ jobs'[j] = new
      /\ \A i \in DOMAIN jobs : i # j => jobs'[i] = jobs[i]
      /\ worker'[w] = Idle /\ \A v \in Workers : v # w => worker'[v] = worker[v]
      /\ HoldersAlone' /\ HolderHasPage' /\ RetryIsOfEndedJob'
  BY <1>0, <1>2, ReleaseStep
<1>4. \A i \in DOMAIN jobs : jobs'[i].key = IF i = j THEN worker[w].key ELSE jobs[i].key
  BY <1>1, <1>3
<1> HIDE DEF j
<1>5. PagesHaveOneOwner'
  BY <1>0, <1>2, <1>3, <1>4 DEF Owned, PagesHaveOneOwner
<1>6. DoomedIsDead'
  BY <1>0, <1>2, <1>3, <1>4 DEF Owned, PagesHaveOneOwner, DoomedIsDead
<1> QED
  BY <1>0, <1>3, <1>5, <1>6 DEF Owned, CleanerHasSeen, RetainedHtmlExists

\* A job that keeps its page, or lets it go, when its attempt failed.
LEMMA FailureSteps ==
  ASSUME WellFormed, Owned, NEW w \in Workers,
         RequeueFetch(w) \/ \E permanent \in BOOLEAN : RecordFailure(w, permanent)
  PROVE  Owned'
<1> DEFINE j == worker[w].job
<1>0. /\ worker' = [worker EXCEPT ![w] = Idle] /\ UNCHANGED <<html, objects, retry, cleaner>>
      /\ Holds(w)
  BY DEF RequeueFetch, RecordFailure, Finished, Holds, Working
<1>1. PICK new : /\ Writes(worker[w].job, new) /\ new.row.token = None /\ new.open = FALSE
                 /\ new.key = None \/ new.key = jobs[worker[w].job].key
  BY RequeueWrites, FailureWrites DEF WellFormed
<1>2. Releases(w, new, Idle) /\ Idle.doomed = {} /\ Idle.pc = "idle"
  BY <1>0, <1>1 DEF Releases, Idle
<1>3. /\ DOMAIN jobs' = DOMAIN jobs /\ j \in DOMAIN jobs /\ jobs'[j] = new
      /\ \A i \in DOMAIN jobs : i # j => jobs'[i] = jobs[i]
      /\ worker'[w] = Idle /\ \A v \in Workers : v # w => worker'[v] = worker[v]
      /\ HoldersAlone' /\ HolderHasPage' /\ RetryIsOfEndedJob'
  BY <1>0, <1>2, ReleaseStep
<1>4. \A i \in DOMAIN jobs : jobs'[i].key = jobs[i].key \/ jobs'[i].key = None
  BY <1>1, <1>3
<1>5. None \notin Keys /\ html \in Keys \cup {None}
      /\ \A v \in Workers : /\ worker[v].pc = "stored" => worker[v].key \in Keys
                            /\ worker[v].doomed \subseteq Keys
  BY ArticleConstants DEF WellFormed, TypeOK, WorkHasItsJob
<1> HIDE DEF j
<1>6. PagesHaveOneOwner'
  BY <1>0, <1>2, <1>3, <1>4, <1>5 DEF Owned, PagesHaveOneOwner
<1>7. DoomedIsDead'
  BY <1>0, <1>2, <1>3, <1>4, <1>5 DEF Owned, DoomedIsDead
<1> QED
  BY <1>0, <1>3, <1>6, <1>7 DEF Owned, CleanerHasSeen, RetainedHtmlExists

\* The page becomes the content's, or is to be deleted with the one before.
LEMMA ExtractStep ==
  ASSUME WellFormed, Owned, NEW w \in Workers, CommitExtract(w)
  PROVE  Owned'
<1> DEFINE j == worker[w].job
           key == worker[w].key
           retained == IF jobs[j].keep THEN key ELSE None
           after == [Idle EXCEPT !.pc = "delete", !.doomed = Doomed(key, retained)]
<1>0. /\ worker' = [worker EXCEPT ![w] = after] /\ UNCHANGED <<objects, retry, cleaner>>
      /\ html' = retained /\ worker[w].pc = "text" /\ Holds(w) /\ LockFree(key)
  BY DEF CommitExtract, Holds, Working
<1>1. PICK new : /\ Writes(worker[w].job, new) /\ new.row.token = None /\ new.open = FALSE
                 /\ new.key = None
  BY ExtractWrites DEF WellFormed
<1>2. after.pc = "delete" /\ after.doomed = {key, html} \ {None, retained}
  BY DEF Idle, Doomed
<1>3. retained \in {key, None} /\ key \in Keys /\ key \in objects /\ key = jobs[j].key
  BY <1>0 DEF Owned, HolderHasPage, WellFormed, WorkHasItsJob
<1> HIDE DEF after, retained
<1>4. Releases(w, new, after)
  BY <1>0, <1>1, <1>2 DEF Releases
<1>5. /\ DOMAIN jobs' = DOMAIN jobs /\ j \in DOMAIN jobs /\ jobs'[j] = new
      /\ \A i \in DOMAIN jobs : i # j => jobs'[i] = jobs[i]
      /\ worker'[w] = after /\ \A v \in Workers : v # w => worker'[v] = worker[v]
      /\ HoldersAlone' /\ HolderHasPage' /\ RetryIsOfEndedJob'
  BY <1>0, <1>4, ReleaseStep
<1>6. /\ None \notin Keys /\ html \in Keys \cup {None}
      /\ \A v \in Workers : /\ worker[v].pc = "stored" => worker[v].key \in Keys
                            /\ worker[v].doomed \subseteq Keys
      /\ cleaner.keys \subseteq Keys
  BY ArticleConstants DEF WellFormed, TypeOK, WorkHasItsJob
<1>7. \A i \in DOMAIN jobs : jobs'[i].key = IF i = j THEN None ELSE jobs[i].key
  BY <1>1, <1>5
<1> HIDE DEF j, key
<1>8. PagesHaveOneOwner'
  BY <1>0, <1>2, <1>3, <1>5, <1>6, <1>7 DEF Owned, PagesHaveOneOwner, key, j
<1>9. DoomedIsDead'
  BY <1>0, <1>2, <1>3, <1>5, <1>6, <1>7 DEF Owned, PagesHaveOneOwner, DoomedIsDead
<1>10. CleanerHasSeen' /\ RetainedHtmlExists'
  BY <1>0, <1>3, <1>6 DEF CleanerHasSeen, RetainedHtmlExists, LockFree
<1> QED
  BY <1>5, <1>8, <1>9, <1>10 DEF Owned

\* No two retries of one job are open at once: the second would take over a page by what it
\* has read before the first one's commit.
OneRetryOfAJob ==
  \A r, s \in Requests : retry[r].open /\ retry[s].open /\ retry[r].job = retry[s].job => r = s

LEMMA BeginRetryStep ==
  ASSUME WellFormed, Owned, NEW r \in Requests, NEW j \in DOMAIN jobs, BeginRetry(r, j)
  PROVE  Owned'
<1> DEFINE state == [open |-> TRUE, job |-> j, key |-> jobs[j].key]
<1>1. /\ retry' = [retry EXCEPT ![r] = state] /\ ~Active(j)
      /\ UNCHANGED <<jobs, html, objects, worker, cleaner>>
  BY DEF BeginRetry
<1>2. state.job = j /\ state.key = jobs[j].key
  OBVIOUS
<1> HIDE DEF state
<1>3. retry'[r] = state /\ \A s \in Requests : s # r => retry'[s] = retry[s]
  BY <1>1 DEF WellFormed, TypeOK
<1>4. RetryIsOfEndedJob'
  BY <1>1, <1>2, <1>3 DEF Owned, RetryIsOfEndedJob, Active
<1>5. \A w \in Workers : Holds(w)' <=> Holds(w)
  BY <1>1 DEF Holds, MayHold, RowOf
<1>6. HoldersAlone' /\ HolderHasPage'
  BY <1>1, <1>5 DEF Owned, HoldersAlone, HolderHasPage
<1> QED
  BY <1>1, <1>4, <1>6 DEF Owned, PagesHaveOneOwner, DoomedIsDead, CleanerHasSeen, RetainedHtmlExists

\* No job is active: nobody holds one, and the page goes over to the new job.
LEMMA CommitRetryStep ==
  ASSUME WellFormed, Owned, OneRetryOfAJob, NEW r \in Requests, CommitRetry(r)
  PROVE  Owned'
<1>0. /\ retry[r].open /\ retry' = [retry EXCEPT ![r] = NoRetry] /\ NoRetry.open = FALSE
      /\ UNCHANGED <<html, objects, worker, cleaner>>
  BY DEF CommitRetry, NoRetry
<1>1. /\ retry'[r].open = FALSE
      /\ \A s \in Requests : s # r => retry'[s] = retry[s]
      /\ \A s \in Requests : retry'[s].open => s # r /\ retry[s].open /\ retry[s].job # retry[r].job
  BY <1>0 DEF OneRetryOfAJob, WellFormed, TypeOK
<1>2. ASSUME NEW keep \in BOOLEAN, jobs' = Joined(keep) PROVE Owned'
  <2>1. SameJobs
    BY <1>2, JoinedKeeps DEF SameJobs, WellFormed
  <2> QED
    BY <1>0, <1>1, <2>1, QuietStep
<1>3. CASE jobs' = jobs
  <2>1. SameJobs
    BY <1>3 DEF SameJobs
  <2> QED
    BY <1>0, <1>1, <2>1, QuietStep
<1>4. ASSUME NEW old \in Seq(Jobs), NEW new \in Jobs,
             /\ Settled
             /\ Len(jobs) < MaxJobs /\ Len(old) = Len(jobs) /\ jobs' = Append(old, new)
             /\ new.row.token = None /\ new.open = FALSE /\ new.key = retry[r].key
             /\ \A i \in DOMAIN jobs :
                  /\ old[i].row = jobs[i].row /\ old[i].open = jobs[i].open
                  /\ old[i].key = IF i = retry[r].job /\ retry[r].key # None THEN None
                                  ELSE jobs[i].key
      PROVE  Owned'
  <2> DEFINE n == Len(jobs) + 1
             j == retry[r].job
  <2>1. /\ DOMAIN jobs' = DOMAIN jobs \cup {n} /\ n \notin DOMAIN jobs /\ jobs'[n] = new
        /\ \A i \in DOMAIN jobs : jobs'[i] = old[i]
    BY <1>4, AppendAddsOneJob DEF WellFormed
  <2>2. j \in DOMAIN jobs /\ jobs[j].key = retry[r].key
    BY <1>0 DEF Owned, RetryIsOfEndedJob, WellFormed, WorkHasItsJob
  <2>3. \A i \in DOMAIN jobs : jobs'[i].key = IF i = j THEN None ELSE jobs[i].key
    BY <1>4, <2>1, <2>2
  <2>4. jobs'[n].key = jobs[j].key
    BY <1>4, <2>1, <2>2
  <2>5. \A i \in DOMAIN jobs : jobs'[i].row = jobs[i].row
    BY <1>4, <2>1
  <2>6. \A w \in Workers : ~Holds(w)
    BY <1>4, HeldIsActive DEF Settled
  <2>7. \A w \in Workers : ~Holds(w)'
    BY <1>0, <2>5, <2>6 DEF Holds, MayHold, RowOf, WellFormed, WorkHasItsJob
  <2>8. HoldersAlone' /\ HolderHasPage'
    BY <2>7 DEF HoldersAlone, HolderHasPage
  <2>9. /\ None \notin Keys /\ html \in Keys \cup {None}
        /\ \A w \in Workers : /\ worker[w].pc = "stored" => worker[w].key \in Keys
                              /\ worker[w].doomed \subseteq Keys
    BY ArticleConstants DEF WellFormed, TypeOK, WorkHasItsJob
  <2> HIDE DEF n, j
  <2>10. PagesHaveOneOwner'
    <3>1. \A i, k \in DOMAIN jobs' : jobs'[i].key = jobs'[k].key => jobs'[i].key = None \/ i = k
      BY <2>1, <2>2, <2>3, <2>4 DEF Owned, PagesHaveOneOwner
    <3>2. \A k \in Keys : (\A i \in DOMAIN jobs : jobs[i].key # k)
                            => \A i \in DOMAIN jobs' : jobs'[i].key # k
      BY <2>1, <2>2, <2>3, <2>4, <2>9
    <3> QED
      BY <1>0, <2>9, <3>1, <3>2 DEF Owned, PagesHaveOneOwner
  <2>11. DoomedIsDead'
    BY <1>0, <2>1, <2>2, <2>3, <2>4, <2>9 DEF Owned, DoomedIsDead
  <2>12. RetryIsOfEndedJob'
    BY <1>1, <2>1, <2>3, <2>5 DEF Owned, RetryIsOfEndedJob, WellFormed, WorkHasItsJob, Active, j
  <2> QED
    BY <1>0, <2>8, <2>10, <2>11, <2>12 DEF Owned, CleanerHasSeen, RetainedHtmlExists
<1> QED
  BY <1>2, <1>3, <1>4, RetryWrites DEF WellFormed

\* A worker that fetches, reads, gives up or dies: the jobs stay as they are.
LEMMA WorkerStep ==
  ASSUME WellFormed, Owned, NEW w \in Workers, NEW after, worker' = [worker EXCEPT ![w] = after],
         UNCHANGED <<jobs, html, retry, cleaner>>,
         after.pc \in Working =>
           after.job = worker[w].job /\ after.token = worker[w].token /\ worker[w].pc \in Working
  PROVE  /\ worker'[w] = after /\ \A v \in Workers : v # w => worker'[v] = worker[v]
         /\ \A v \in Workers : Holds(v)' => Holds(v) /\ worker'[v].job = worker[v].job
         /\ HoldersAlone' /\ RetryIsOfEndedJob' /\ CleanerHasSeen'
<1>1. worker'[w] = after /\ \A v \in Workers : v # w => worker'[v] = worker[v]
  BY DEF WellFormed, TypeOK
<1>2. \A v \in Workers : Holds(v)' => Holds(v) /\ worker'[v].job = worker[v].job
  BY <1>1 DEF Holds, MayHold, RowOf
<1>3. HoldersAlone'
  BY <1>2 DEF Owned, HoldersAlone
<1> QED
  BY <1>1, <1>2, <1>3 DEF Owned, RetryIsOfEndedJob, CleanerHasSeen, Active

LEMMA FetchPageStep ==
  ASSUME WellFormed, Owned, NEW w \in Workers, NEW key \in Keys, FetchPage(w, key)
  PROVE  Owned'
<1> DEFINE after == [worker[w] EXCEPT !.pc = "stored", !.key = key]
<1>1. /\ worker' = [worker EXCEPT ![w] = after] /\ UNCHANGED <<jobs, html, retry, cleaner>>
      /\ objects' = objects \cup {key} /\ key \in FreshKeys /\ worker[w].pc = "fetch"
  BY DEF FetchPage
<1>2. /\ after.pc = "stored" /\ after.key = key /\ after.doomed = worker[w].doomed
      /\ after.job = worker[w].job /\ after.token = worker[w].token
  BY DEF WellFormed, TypeOK
<1> HIDE DEF after
<1>3. /\ worker'[w] = after /\ \A v \in Workers : v # w => worker'[v] = worker[v]
      /\ \A v \in Workers : Holds(v)' => Holds(v) /\ worker'[v].job = worker[v].job
      /\ HoldersAlone' /\ RetryIsOfEndedJob' /\ CleanerHasSeen'
  BY <1>1, <1>2, WorkerStep DEF Working
<1>4. /\ key # html /\ \A j \in DOMAIN jobs : jobs[j].key # key
      /\ \A v \in Workers : worker[v].key # key /\ key \notin worker[v].doomed
  <2>1. /\ key # html /\ \A j \in DOMAIN jobs : jobs[j].key # key
        /\ key \notin UNION {{worker[v].key} \cup worker[v].doomed : v \in Workers}
    BY <1>1 DEF FreshKeys
  <2>2. ASSUME NEW v \in Workers PROVE key \notin {worker[v].key} \cup worker[v].doomed
    BY <2>1
  <2> QED
    BY <2>1, <2>2
<1>5. HolderHasPage'
  BY <1>1, <1>2, <1>3 DEF Owned, HolderHasPage
<1>6. PagesHaveOneOwner'
  BY <1>1, <1>2, <1>3, <1>4 DEF Owned, PagesHaveOneOwner
<1>7. DoomedIsDead'
  BY <1>1, <1>2, <1>3 DEF Owned, DoomedIsDead
<1> QED
  BY <1>1, <1>3, <1>5, <1>6, <1>7 DEF Owned, RetainedHtmlExists

LEMMA ReadHtmlStep ==
  ASSUME WellFormed, Owned, NEW w \in Workers, ReadHtml(w)
  PROVE  Owned'
<1> DEFINE after == [worker[w] EXCEPT !.pc = IF worker[w].key \in objects THEN "text" ELSE "missing"]
<1>1. /\ worker' = [worker EXCEPT ![w] = after] /\ UNCHANGED <<jobs, html, retry, cleaner, objects>>
      /\ worker[w].pc = "html"
  BY DEF ReadHtml
<1>2. /\ after.pc \in {"text", "missing"} /\ (after.pc = "text" => after.key \in objects)
      /\ after.key = worker[w].key /\ after.doomed = worker[w].doomed
      /\ after.job = worker[w].job /\ after.token = worker[w].token
  BY DEF WellFormed, TypeOK
<1> HIDE DEF after
<1>3. /\ worker'[w] = after /\ \A v \in Workers : v # w => worker'[v] = worker[v]
      /\ \A v \in Workers : Holds(v)' => Holds(v) /\ worker'[v].job = worker[v].job
      /\ HoldersAlone' /\ RetryIsOfEndedJob' /\ CleanerHasSeen'
  BY <1>1, <1>2, WorkerStep DEF Working
<1>4. HolderHasPage'
  BY <1>1, <1>2, <1>3 DEF Owned, HolderHasPage
<1>5. PagesHaveOneOwner' /\ DoomedIsDead'
  BY <1>1, <1>2, <1>3 DEF Owned, PagesHaveOneOwner, DoomedIsDead
<1> QED
  BY <1>1, <1>3, <1>4, <1>5 DEF Owned, RetainedHtmlExists

\* Who stops at once, with nothing left to write or to delete, or deletes what is his.
LEMMA StopSteps ==
  ASSUME WellFormed, Owned, NEW w \in Workers,
         \/ NothingToFinish(w) \/ Crash(w) \/ DropFetch(w)
         \/ \E deleted \in SUBSET Keys : DeleteAfterCommit(w, deleted)
  PROVE  /\ Owned'
         /\ \A k \in objects \ objects' : k # html' /\ \A j \in DOMAIN jobs' : jobs'[j].key # k
<1>1. /\ worker' = [worker EXCEPT ![w] = Idle] /\ UNCHANGED <<jobs, html, retry, cleaner>>
      /\ Idle.pc = "idle" /\ Idle.doomed = {}
  BY DEF NothingToFinish, Crash, DropFetch, DeleteAfterCommit, Finished, Idle
<1>2. /\ worker'[w] = Idle /\ \A v \in Workers : v # w => worker'[v] = worker[v]
      /\ \A v \in Workers : Holds(v)' => Holds(v) /\ worker'[v].job = worker[v].job
      /\ HoldersAlone' /\ RetryIsOfEndedJob' /\ CleanerHasSeen'
  BY <1>1, WorkerStep DEF Working
<1>3. \A k \in objects \ objects' :
        \/ k \in worker[w].doomed
        \/ worker[w].pc = "stored" /\ k = worker[w].key
  BY DEF NothingToFinish, Crash, DropFetch, DeleteAfterCommit
<1>4. \A k \in objects \ objects' : k # html /\ \A j \in DOMAIN jobs : jobs[j].key # k
  BY <1>3 DEF Owned, PagesHaveOneOwner, DoomedIsDead
<1>5. HolderHasPage'
  <2>1. SUFFICES ASSUME NEW v \in Workers, Holds(v)'
                 PROVE  /\ worker'[v].pc \in {"html", "missing", "text"} =>
                             worker'[v].key = jobs'[worker'[v].job].key
                        /\ worker'[v].pc = "text" => worker'[v].key \in objects'
    BY DEF HolderHasPage
  <2>2. Holds(v) /\ worker'[v] = worker[v] /\ worker[v].job \in DOMAIN jobs
    BY <1>1, <1>2, <2>1, HeldIsActive DEF Holds, Working
  <2> QED
    BY <1>1, <1>4, <2>2 DEF Owned, HolderHasPage
<1>6. PagesHaveOneOwner' /\ DoomedIsDead'
  BY <1>1, <1>2 DEF Owned, PagesHaveOneOwner, DoomedIsDead
<1>7. RetainedHtmlExists'
  BY <1>1, <1>4 DEF Owned, RetainedHtmlExists
<1> QED
  BY <1>1, <1>2, <1>4, <1>5, <1>6, <1>7 DEF Owned

\* Cleanup deletes what it saw neither the content nor a job refer to.
LEMMA CleanupSteps ==
  ASSUME WellFormed, Owned,
         ReadRetained \/ \E keys \in SUBSET Keys : LockBatch(keys) \/ DeleteUnreferenced(keys)
  PROVE  /\ Owned'
         /\ \A k \in objects \ objects' : k # html' /\ \A j \in DOMAIN jobs' : jobs'[j].key # k
<1>1. UNCHANGED <<jobs, html, worker, retry>>
  BY DEF ReadRetained, LockBatch, DeleteUnreferenced
<1>2. CleanerHasSeen'
  <2>1. CASE ReadRetained
    BY <2>1 DEF ReadRetained, CleanerHasSeen, WellFormed, TypeOK
  <2>2. ASSUME NEW keys \in SUBSET Keys, LockBatch(keys) \/ DeleteUnreferenced(keys)
        PROVE  CleanerHasSeen'
    BY <2>2 DEF LockBatch, DeleteUnreferenced, NotCleaning, CleanerHasSeen
  <2> QED
    BY <2>1, <2>2
<1>3. \A k \in objects \ objects' : k # html /\ \A j \in DOMAIN jobs : jobs[j].key # k
  <2>1. CASE objects' = objects
    BY <2>1
  <2>2. ASSUME NEW deleted \in SUBSET Keys, DeleteUnreferenced(deleted),
               NEW k \in objects \ objects'
        PROVE  k # html /\ \A j \in DOMAIN jobs : jobs[j].key # k
    <3>1. /\ k \in cleaner.keys /\ k \notin cleaner.retained /\ cleaner.pc = "retained"
          /\ k \notin {jobs[j].key : j \in DOMAIN jobs}
      BY <2>2 DEF DeleteUnreferenced
    <3> QED
      BY <3>1 DEF Owned, CleanerHasSeen
  <2> QED
    BY <2>1, <2>2 DEF ReadRetained, LockBatch
<1>4. \A w \in Workers : Holds(w)' <=> Holds(w)
  BY <1>1 DEF Holds, MayHold, RowOf
<1>5. HoldersAlone'
  BY <1>1, <1>4 DEF Owned, HoldersAlone
<1>6. HolderHasPage'
  <2>1. SUFFICES ASSUME NEW v \in Workers, Holds(v)
                 PROVE  /\ worker[v].pc \in {"html", "missing", "text"} =>
                             worker[v].key = jobs[worker[v].job].key
                        /\ worker[v].pc = "text" => worker[v].key \in objects'
    BY <1>1, <1>4 DEF HolderHasPage
  <2>2. worker[v].job \in DOMAIN jobs
    BY <2>1, HeldIsActive
  <2> QED
    BY <1>3, <2>1, <2>2 DEF Owned, HolderHasPage
<1>7. PagesHaveOneOwner' /\ DoomedIsDead' /\ RetryIsOfEndedJob'
  BY <1>1 DEF Owned, PagesHaveOneOwner, DoomedIsDead, RetryIsOfEndedJob, Active
<1>8. RetainedHtmlExists'
  BY <1>1, <1>3 DEF Owned, RetainedHtmlExists
<1> QED
  BY <1>1, <1>2, <1>3, <1>5, <1>6, <1>7, <1>8 DEF Owned

LEMMA OwnedInit == Init => Owned
<1> SUFFICES ASSUME Init PROVE Owned
  OBVIOUS
<1>1. /\ \A w \in Workers : worker[w].pc = "idle" /\ worker[w].doomed = {}
      /\ \A r \in Requests : retry[r].open = FALSE
      /\ cleaner.pc = "idle"
  BY DEF Init, Idle, NoRetry, NotCleaning
<1>2. /\ DOMAIN jobs = {1} /\ (html # None => jobs[1].key = None)
      /\ html # None => html \in objects
  <2>1. PICK key \in Keys \cup {None} :
          /\ \/ jobs = <<Ended("succeeded", "extract", None)>> /\ html = key
             \/ jobs = <<Ended("failed", IF key = None THEN "fetch" ELSE "extract", key)>> /\ html = None
          /\ objects = {key} \ {None}
    BY DEF Init
  <2>2. Ended("succeeded", "extract", None).key = None
    BY DEF Ended, NewJob
  <2> HIDE DEF Ended
  <2> QED
    BY <2>1, <2>2
<1>3. \A w \in Workers : ~Holds(w)
  BY <1>1 DEF Holds, Working
<1> QED
  BY <1>1, <1>2, <1>3 DEF Owned, HoldersAlone, HolderHasPage, PagesHaveOneOwner, DoomedIsDead,
     CleanerHasSeen, RetryIsOfEndedJob, RetainedHtmlExists

\* Every step keeps the pages owned, and deletes none that a job or the content refers to.
LEMMA OwnedStep ==
  ASSUME OneRetryOfAJob, WellFormed, Owned, [Next]_vars
  PROVE  /\ Owned'
         /\ \A k \in objects \ objects' : k # html' /\ \A j \in DOMAIN jobs' : jobs'[j].key # k
<1> DEFINE Kept == \A k \in objects \ objects' : k # html' /\ \A j \in DOMAIN jobs' : jobs'[j].key # k
<1>1. ASSUME NEW keep \in BOOLEAN, RequestProcessing(keep) PROVE Owned' /\ Kept
  BY <1>1, QuietSteps DEF RequestProcessing
<1>2. ASSUME NEW j \in DOMAIN jobs,
             \/ LeaseExpires(j) \/ BackoffEnds(j) \/ \E token \in Tokens : ClaimJob(j, token)
             \/ \E r \in Requests : BeginRetry(r, j)
             \/ \E w \in Workers : StartAttempt(w, j)
      PROVE  Owned' /\ Kept
  <2>1. Owned'
    BY <1>2, QuietSteps, ClaimStep, StartStep, BeginRetryStep
  <2>2. objects' = objects
    BY <1>2 DEF LeaseExpires, BackoffEnds, ClaimJob, StartAttempt, BeginRetry
  <2> QED
    BY <2>1, <2>2
<1>3. ASSUME NEW r \in Requests, CommitRetry(r) PROVE Owned' /\ Kept
  <2>1. Owned'
    BY <1>3, CommitRetryStep
  <2>2. objects' = objects
    BY <1>3 DEF CommitRetry
  <2> QED
    BY <2>1, <2>2
<1>4. ASSUME NEW w \in Workers, Work(w) \/ Crash(w) PROVE Owned' /\ Kept
  <2>1. CASE \/ NothingToFinish(w) \/ Crash(w) \/ DropFetch(w)
             \/ \E deleted \in SUBSET Keys : DeleteAfterCommit(w, deleted)
    BY <2>1, StopSteps
  <2>2. CASE \/ CommitFetch(w) \/ ReadHtml(w) \/ RequeueFetch(w) \/ CommitExtract(w)
             \/ \E permanent \in BOOLEAN : RecordFailure(w, permanent)
    <3>1. Owned'
      BY <2>2, FetchStep, ReadHtmlStep, FailureSteps, ExtractStep
    <3>2. objects' = objects
      BY <2>2 DEF CommitFetch, ReadHtml, RequeueFetch, CommitExtract, RecordFailure
    <3> QED
      BY <3>1, <3>2
  <2>3. ASSUME NEW k \in Keys, FetchPage(w, k) PROVE Owned' /\ Kept
    <3>1. objects' = objects \cup {k}
      BY <2>3 DEF FetchPage
    <3> QED
      BY <2>3, <3>1, FetchPageStep
  <2> QED
    BY <1>4, <2>1, <2>2, <2>3 DEF Work
<1>5. ASSUME ReadRetained \/ \E keys \in SUBSET Keys : LockBatch(keys) \/ DeleteUnreferenced(keys)
      PROVE  Owned' /\ Kept
  BY <1>5, CleanupSteps
<1>6. ASSUME UNCHANGED vars PROVE Owned' /\ Kept
  <2>1. SameJobs /\ UNCHANGED <<html, objects, worker, retry, cleaner>>
    BY <1>6 DEF vars, SameJobs
  <2> QED
    BY <2>1, QuietStep
<1> HIDE DEF Kept
<1>7. Owned' /\ Kept
  BY <1>1, <1>2, <1>3, <1>4, <1>5, <1>6 DEF Next
<1> QED
  BY <1>7 DEF Kept

LEMMA OwnedAlways == Spec /\ []OneRetryOfAJob => []PagesAreOwned
<1>1. Init => PagesAreOwned
  BY TypeInit, OwnedInit DEF PagesAreOwned
<1>2. OneRetryOfAJob /\ PagesAreOwned /\ [Next]_vars => PagesAreOwned'
  BY TypeStep, OwnedStep DEF PagesAreOwned
<1> QED
  BY <1>1, <1>2, PTL DEF Spec

\* As long as no two retries of one job are open at once, the page an article keeps stays in
\* the store, whatever the workers, their leases, the messages and cleanup do (processing.py,
\* maintenance.py).
THEOREM RetainedHtmlExistsHolds == Spec /\ []OneRetryOfAJob => []RetainedHtmlExists
<1>1. PagesAreOwned => RetainedHtmlExists
  BY DEF PagesAreOwned, Owned
<1> QED
  BY <1>1, OwnedAlways, PTL

\* Under the same condition no step deletes a page that a job or the content refers to after it.
THEOREM ReferredPageIsNotDeletedHolds == Spec /\ []OneRetryOfAJob => ReferredPageIsNotDeleted
<1>1. OneRetryOfAJob /\ PagesAreOwned /\ [Next]_vars =>
        [\A k \in objects \ objects' : k # html' /\ \A j \in DOMAIN jobs' : jobs'[j].key # k]_vars
  BY OwnedStep DEF PagesAreOwned
<1> QED
  BY <1>1, OwnedAlways, PTL DEF Spec, ReferredPageIsNotDeleted
=============================================================================
