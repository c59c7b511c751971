-------------------------- MODULE NlpPipelineProofs --------------------------
(***************************************************************************)
(* Proofs about NlpPipeline for any processors, workers, tokens, texts and *)
(* bounds.                                                                 *)
(***************************************************************************)
EXTENDS NlpPipeline, SequenceTheorems, TLAPS

RowFields ==
  [status : JobStatuses, due : BOOLEAN, token : Tokens \cup {None},
   leased : BOOLEAN, attempts : 0..MaxAttempts]

LEMMA RowsAre ==
  ASSUME NEW row
  PROVE  row \in JobRows <=> /\ row \in RowFields
                             /\ row.token # None <=> row.status = "running"
                             /\ row.leased => row.token # None
  BY DEF JobRows, RowFields

\* The row operators keep a row well formed.
LEMMA RowOperators ==
  ASSUME NEW row \in JobRows
  PROVE  /\ \A token \in Tokens :
              Claimed(row, token, MaxAttempts) \in JobRows
              /\ Claimed(row, token, MaxAttempts).status = "running"
         /\ [row EXCEPT !.leased = FALSE] \in JobRows
         /\ [row EXCEPT !.due = TRUE] \in JobRows
         /\ [Released(row) EXCEPT !.status = "superseded"] \in JobRows
         /\ [Released(row) EXCEPT !.status = "succeeded"] \in JobRows
         /\ \A permanent \in BOOLEAN :
              /\ FailureRecorded(row, MaxAttempts, permanent) \in JobRows
              /\ FailureRecorded(row, MaxAttempts, permanent).status \in {"failed", "retrying"}
<1> USE DEF RowFields, JobStatuses, QueueStatuses, ActiveStatuses
<1>0. /\ row \in RowFields /\ (row.token # None <=> row.status = "running")
      /\ row.leased => row.token # None
  BY RowsAre
<1>1. ASSUME NEW token \in Tokens
      PROVE  Claimed(row, token, MaxAttempts) \in JobRows
             /\ Claimed(row, token, MaxAttempts).status = "running"
  <2> DEFINE counted == IF row.attempts < MaxAttempts THEN row.attempts + 1 ELSE row.attempts
             new == [row EXCEPT !.status = "running", !.token = token, !.leased = TRUE,
                                !.attempts = counted]
  <2>1. counted \in 0..MaxAttempts
    BY <1>0, NlpConstants
  <2>2. Claimed(row, token, MaxAttempts) = new
    BY DEF Claimed
  <2>3. token # None
    BY NlpConstants
  <2> HIDE DEF counted
  <2>4. new \in RowFields /\ new.token = token /\ new.status = "running"
    BY <1>0, <2>1
  <2> HIDE DEF new
  <2> QED
    BY <2>2, <2>3, <2>4, RowsAre
<1>2. [row EXCEPT !.leased = FALSE] \in JobRows /\ [row EXCEPT !.due = TRUE] \in JobRows
  BY <1>0 DEF JobRows
<1>3. ASSUME NEW status \in JobStatuses \ {"running"}
      PROVE  /\ [Released(row) EXCEPT !.status = status] \in JobRows
             /\ [Released(row) EXCEPT !.status = status, !.due = FALSE] \in JobRows
  BY <1>0, <1>3 DEF Released, JobRows
<1>4. /\ [Released(row) EXCEPT !.status = "superseded"] \in JobRows
      /\ [Released(row) EXCEPT !.status = "succeeded"] \in JobRows
      /\ [Released(row) EXCEPT !.status = "failed"] \in JobRows
      /\ [Released(row) EXCEPT !.status = "retrying", !.due = FALSE] \in JobRows
  BY <1>3
<1>5. /\ [Released(row) EXCEPT !.status = "failed"].status = "failed"
      /\ [Released(row) EXCEPT !.status = "retrying", !.due = FALSE].status = "retrying"
  BY <1>0 DEF Released
<1>6. ASSUME NEW permanent \in BOOLEAN
      PROVE  /\ FailureRecorded(row, MaxAttempts, permanent) \in JobRows
             /\ FailureRecorded(row, MaxAttempts, permanent).status \in {"failed", "retrying"}
  BY <1>4, <1>5 DEF FailureRecorded
<1> QED
  BY <1>1, <1>2, <1>4, <1>6

LEMMA NewRowIs == NewRow \in JobRows /\ NewRow.status = "queued" /\ NewRow.token = None
  BY NlpConstants DEF NewRow, JobRows, JobStatuses, QueueStatuses, ActiveStatuses

\* Ended leaves no active job, and its document.
LEMMA EndedIs ==
  ASSUME NEW old \in Jobs
  PROVE  /\ Ended(old) \in Jobs /\ Ended(old).input = old.input
         /\ Ended(old).row.status \notin ActiveStatuses /\ Ended(old).row.token = None
         /\ Ended(Ended(old)) = Ended(old)
<1> DEFINE row == [Released(old.row) EXCEPT !.status = "superseded"]
<1>0. old.row \in JobRows /\ old.input \in Documents
  BY DEF Jobs
<1>1. row \in JobRows /\ row.status = "superseded"
  BY <1>0, RowOperators DEF Released, JobRows
<1>2. row.token = None
  BY <1>1, RowsAre
<1>3. CASE old.row.status \in ActiveStatuses
  <2> HIDE DEF row
  <2> DEFINE new == [old EXCEPT !.row = row]
  <2>1. new \in Jobs /\ new.row = row /\ new.input = old.input
    BY <1>1 DEF Jobs
  <2>2. Ended(old) = new
    BY <1>3 DEF Ended, row
  <2> HIDE DEF new
  <2>3. Ended(new) = new
    BY <1>1, <2>1 DEF Ended, ActiveStatuses
  <2> QED
    BY <1>1, <1>2, <2>1, <2>2, <2>3 DEF ActiveStatuses
<1>4. CASE old.row.status \notin ActiveStatuses
  <2>1. Ended(old) = old
    BY <1>4 DEF Ended
  <2>2. old.row.token = None
    BY <1>0, <1>4, RowsAre DEF ActiveStatuses
  <2> QED
    BY <1>4, <2>1, <2>2
<1> QED
  BY <1>3, <1>4

LEMMA JobsAreSequences ==
  ASSUME TypeOK, NEW p \in Processors
  PROVE  /\ job[p] \in Seq(Jobs) /\ Len(job[p]) \in Nat /\ Len(job[p]) \in 0..MaxGeneration
         /\ DOMAIN job[p] = 1..Len(job[p]) /\ DOMAIN job[p] \subseteq 1..MaxGeneration
         /\ \A g \in DOMAIN job[p] :
              job[p][g] \in Jobs /\ job[p][g].row \in JobRows /\ job[p][g].input \in Documents
<1>1. job[p] \in Seq(Jobs) /\ Len(job[p]) <= MaxGeneration
  BY DEF TypeOK
<1>2. Len(job[p]) \in Nat /\ DOMAIN job[p] = 1..Len(job[p]) /\ MaxGeneration \in Nat
  BY <1>1, NlpConstants, LenProperties
<1>3. \A g \in DOMAIN job[p] : job[p][g] \in Jobs
  BY <1>1
<1> QED
  BY <1>1, <1>2, <1>3 DEF Jobs

LEMMA FunctionIsASequence ==
  ASSUME NEW S, NEW n \in Nat, NEW f \in [1..n -> S]
  PROVE  f \in Seq(S) /\ Len(f) = n /\ DOMAIN f = 1..n
  OBVIOUS

-----------------------------------------------------------------------------
(* What each step makes of the jobs. *)

\* One row is written.
Writes(p, g, row) ==
  /\ p \in Processors /\ g \in DOMAIN job[p] /\ row \in JobRows
  /\ job' = [job EXCEPT ![p][g].row = row]

LEMMA WriteChangesOneRow ==
  ASSUME TypeOK, NEW p, NEW g, NEW row, Writes(p, g, row)
  PROVE  /\ job' \in [Processors -> Seq(Jobs)]
         /\ \A q \in Processors :
              /\ Len(job'[q]) = Len(job[q]) /\ DOMAIN job'[q] = DOMAIN job[q]
              /\ \A h \in DOMAIN job[q] :
                   /\ job'[q][h].input = job[q][h].input
                   /\ q # p \/ h # g => job'[q][h] = job[q][h]
         /\ job'[p][g].row = row
<1> DEFINE new == [job[p][g] EXCEPT !.row = row]
           line == [job[p] EXCEPT ![g] = new]
<1>0. /\ p \in Processors /\ g \in DOMAIN job[p] /\ row \in JobRows /\ job[p][g] \in Jobs
      /\ job[p] \in Seq(Jobs) /\ job \in [Processors -> Seq(Jobs)]
  BY JobsAreSequences DEF Writes, TypeOK
<1>1. new \in Jobs /\ new.row = row /\ new.input = job[p][g].input
  BY <1>0 DEF Jobs
<1>2. job' = [job EXCEPT ![p] = line]
  BY DEF Writes
<1> HIDE DEF new
<1>3. /\ line \in Seq(Jobs) /\ Len(line) = Len(job[p]) /\ DOMAIN line = DOMAIN job[p]
      /\ \A h \in DOMAIN job[p] : line[h] = IF h = g THEN new ELSE job[p][h]
  BY <1>0, <1>1, ExceptSeq, LenProperties
<1> HIDE DEF line
<1>4. /\ job' \in [Processors -> Seq(Jobs)] /\ job'[p] = line
      /\ \A q \in Processors : q # p => job'[q] = job[q]
  BY <1>0, <1>2, <1>3
<1> QED
  BY <1>0, <1>1, <1>3, <1>4

\* What was asked of a processor is queued, and its older jobs end.
Requested(asked, new) ==
  /\ job' \in [Processors -> Seq(Jobs)] /\ \A p \in Processors : Len(job'[p]) <= MaxGeneration
  /\ \A p \in asked :
       /\ state'[p] = Queued(new) /\ current'[p] = None
       /\ Len(job'[p]) = Len(job[p]) + 1 /\ DOMAIN job'[p] = DOMAIN job[p] \cup {Len(job[p]) + 1}
       /\ job'[p][Len(job[p]) + 1] = NewJob(new)
       /\ \A g \in DOMAIN job[p] : job'[p][g] = Ended(job[p][g])
  /\ \A p \in Processors \ asked :
       state'[p] = state[p] /\ current'[p] = current[p] /\ job'[p] = job[p]
  /\ state' = [p \in Processors |-> state'[p]] /\ current' = [p \in Processors |-> current'[p]]

LEMMA NewJobIs ==
  ASSUME NEW new \in Documents
  PROVE  /\ NewJob(new) \in Jobs /\ NewJob(new).input = new
         /\ NewJob(new).row.status = "queued" /\ NewJob(new).row.token = None
  BY NewRowIs DEF NewJob, Jobs

LEMMA RequestWrites ==
  ASSUME TypeOK, NEW asked \in SUBSET Processors, NEW new \in Documents, NEW jobs,
         \A p \in Processors : jobs[p] \in Seq(Jobs) /\ Len(jobs[p]) = Len(job[p]),
         \A p \in asked : \A g \in DOMAIN job[p] : Ended(jobs[p][g]) = Ended(job[p][g]),
         \A p \in Processors \ asked : jobs[p] = job[p],
         Request(asked, new, jobs)
  PROVE  Requested(asked, new)
<1>1. /\ state' = [p \in Processors |-> IF p \in asked THEN Queued(new) ELSE state[p]]
      /\ current' = [p \in Processors |-> IF p \in asked THEN None ELSE current[p]]
      /\ job' = [p \in Processors |->
           IF p \in asked
           THEN Append([g \in DOMAIN jobs[p] |-> Ended(jobs[p][g])], NewJob(new))
           ELSE jobs[p]]
      /\ \A p \in asked : Len(jobs[p]) < MaxGeneration
  BY DEF Request
<1>2. ASSUME NEW p \in asked
      PROVE  /\ job'[p] \in Seq(Jobs) /\ Len(job'[p]) = Len(job[p]) + 1
             /\ Len(job'[p]) <= MaxGeneration
             /\ DOMAIN job'[p] = DOMAIN job[p] \cup {Len(job[p]) + 1}
             /\ job'[p][Len(job[p]) + 1] = NewJob(new)
             /\ \A g \in DOMAIN job[p] : job'[p][g] = Ended(job[p][g])
  <2> DEFINE old == [g \in DOMAIN jobs[p] |-> Ended(jobs[p][g])]
  <2>0. /\ p \in Processors /\ Len(job[p]) \in Nat /\ DOMAIN job[p] = 1..Len(job[p])
        /\ DOMAIN jobs[p] = 1..Len(job[p]) /\ MaxGeneration \in Nat /\ Len(job[p]) < MaxGeneration
        /\ \A g \in DOMAIN job[p] : jobs[p][g] \in Jobs
    BY <1>1, <1>2, NlpConstants, JobsAreSequences, LenProperties
  <2>1. \A g \in DOMAIN job[p] : Ended(jobs[p][g]) \in Jobs /\ Ended(jobs[p][g]) = Ended(job[p][g])
    BY <1>2, <2>0, EndedIs
  <2>2. old \in [1..Len(job[p]) -> Jobs] /\ \A g \in DOMAIN job[p] : old[g] = Ended(job[p][g])
    BY <2>0, <2>1
  <2>3. job'[p] = Append(old, NewJob(new))
    BY <1>1, <1>2, <2>0
  <2> HIDE DEF old
  <2>4. old \in Seq(Jobs) /\ Len(old) = Len(job[p]) /\ DOMAIN old = 1..Len(job[p])
    BY <2>0, <2>2, FunctionIsASequence
  <2>5. NewJob(new) \in Jobs
    BY NewJobIs
  <2>6. /\ Append(old, NewJob(new)) \in Seq(Jobs) /\ Len(Append(old, NewJob(new))) = Len(job[p]) + 1
        /\ DOMAIN Append(old, NewJob(new)) = 1..(Len(job[p]) + 1)
        /\ Append(old, NewJob(new))[Len(job[p]) + 1] = NewJob(new)
        /\ \A g \in DOMAIN job[p] : Append(old, NewJob(new))[g] = old[g]
    BY <2>0, <2>4, <2>5, AppendProperties, LenProperties
  <2> QED
    BY <2>0, <2>2, <2>3, <2>6
<1>3. ASSUME NEW p \in Processors \ asked
      PROVE  /\ state'[p] = state[p] /\ current'[p] = current[p] /\ job'[p] = job[p]
             /\ job'[p] \in Seq(Jobs) /\ Len(job'[p]) <= MaxGeneration
  BY <1>1, <1>3, JobsAreSequences, NlpConstants
<1>4. \A p \in asked : state'[p] = Queued(new) /\ current'[p] = None
  BY <1>1
<1>5. job' = [p \in Processors |-> job'[p]] /\ state' = [p \in Processors |-> state'[p]]
      /\ current' = [p \in Processors |-> current'[p]]
  BY <1>1
<1>6. job' \in [Processors -> Seq(Jobs)]
  BY <1>2, <1>3, <1>5
<1> HIDE DEF Request
<1> QED
  BY <1>2, <1>3, <1>4, <1>5, <1>6 DEF Requested

-----------------------------------------------------------------------------
(* The inductive invariant. *)

\* A worker at work has its job.
WorkHasItsJob ==
  \A w \in Workers : worker[w].pc # "idle" =>
    /\ worker[w].processor \in Processors /\ worker[w].token \in Tokens
    /\ worker[w].generation \in DOMAIN job[worker[w].processor]

\* The newest job of a processor is for what its state says was asked last.
NewestJobIsAsked ==
  \A p \in Processors :
    /\ state[p].status = "none" <=> job[p] = <<>>
    /\ job[p] # <<>> => job[p][Len(job[p])].input = state[p].input

\* What was asked was the article of now, or of an earlier release.
AskedOfThisRelease ==
  \A p \in Processors : state[p].status # "none" =>
    state[p].input = document \/ state[p].input.release < document.release

\* A stale job does not become current again.
StaleStaysStale ==
  \A w \in Workers : worker[w].pc = "stale" /\ MayHold(w) =>
    document # job[worker[w].processor][worker[w].generation].input

\* Whoever publishes holds the article's row: his job is the newest and runs, and what he
\* saw of the other steps is still so.
PublisherHolds ==
  \A w \in Workers :
    /\ worker[w].pc = "publish" <=> holder = w
    /\ holder = w =>
         LET p == worker[w].processor IN
         /\ worker[w].generation = Len(job[p])
         /\ job[p][worker[w].generation].row.status = "running"
         /\ worker[w].others = ~Complete(extraction, [state EXCEPT ![p].status = "done"])

StepsAreCounted ==
  /\ TypeOK /\ WorkHasItsJob /\ NewestJobIsAsked /\ AskedOfThisRelease /\ StaleStaysStale
  /\ PublisherHolds /\ ActiveStateHasItsJob /\ CurrentAnnotationsMatch

LEMMA IdleIs == Idle.pc = "idle" /\ Idle \notin [pc : {"loaded", "stale", "publish"},
                    processor : Processors, generation : 1..MaxGeneration,
                    token : Tokens, others : BOOLEAN]
  BY DEF Idle

\* A row that is claimed is the newest, and its processor's state says so.
LEMMA ClaimedIsNewest ==
  ASSUME StepsAreCounted, NEW p \in Processors, NEW g \in DOMAIN job[p],
         job[p][g].row.status \in ActiveStatuses
  PROVE  /\ g = Len(job[p]) /\ state[p].status = job[p][g].row.status
         /\ state[p].status \in ActiveStatuses /\ state[p].status # "none"
         /\ state[p].input = job[p][g].input /\ current[p] = None
<1>1. g = Len(job[p]) /\ state[p].status = job[p][g].row.status /\ state[p].status \in ActiveStatuses
  BY DEF StepsAreCounted, ActiveStateHasItsJob
<1>2. job[p] # <<>>
  BY JobsAreSequences DEF StepsAreCounted
<1>3. current[p] = None
  <2>0. current[p] # None => state[p] = [status |-> "done", input |-> current[p]]
    BY DEF StepsAreCounted, CurrentAnnotationsMatch
  <2>1. current[p] # None => state[p].status = "done"
    BY <2>0
  <2> QED
    BY <1>1, <2>1 DEF ActiveStatuses
<1> QED
  BY <1>1, <1>2, <1>3 DEF StepsAreCounted, NewestJobIsAsked

LEMMA HolderRuns ==
  ASSUME StepsAreCounted, NEW w \in Workers, worker[w].pc # "idle", MayHold(w)
  PROVE  LET p == worker[w].processor
             g == worker[w].generation
         IN /\ p \in Processors /\ g \in DOMAIN job[p] /\ job[p][g].row.status = "running"
            /\ job[p][g].row.token = worker[w].token /\ worker[w].token # None
            /\ g = Len(job[p]) /\ state[p].status = "running" /\ state[p].input = job[p][g].input
            /\ current[p] = None
<1> DEFINE p == worker[w].processor
           g == worker[w].generation
<1>1. p \in Processors /\ g \in DOMAIN job[p] /\ worker[w].token \in Tokens
  BY DEF StepsAreCounted, WorkHasItsJob
<1>2. job[p][g].row.token = worker[w].token /\ worker[w].token # None
  BY <1>1, NlpConstants DEF MayHold, RowOf
<1>3. job[p][g].row.status = "running"
  BY <1>1, <1>2, JobsAreSequences, RowsAre DEF StepsAreCounted
<1> HIDE DEF p, g
<1>4. job[p][g].row.status \in ActiveStatuses
  BY <1>3 DEF ActiveStatuses
<1>5. /\ g = Len(job[p]) /\ state[p].status = "running" /\ state[p].input = job[p][g].input
      /\ current[p] = None
  BY <1>1, <1>3, <1>4, ClaimedIsNewest
<1> QED
  BY <1>1, <1>2, <1>3, <1>5 DEF p, g

\* Workers go on, or stop.
WorkersStop == \A w \in Workers : worker'[w] = worker[w] \/ worker'[w] = Idle

\* A step that requests processors while nobody publishes.
LEMMA RequestedStep ==
  ASSUME StepsAreCounted, NEW asked \in SUBSET Processors, NEW new \in Documents,
         Requested(asked, new), document' = new, new.release = document.release,
         new # document => Outdated(Processors, new) \subseteq asked,
         holder = None, holder' = None, WorkersStop,
         worker' \in [Workers -> {Idle} \cup [pc : {"loaded", "stale", "publish"},
                    processor : Processors, generation : 1..MaxGeneration,
                    token : Tokens, others : BOOLEAN]],
         extraction' \in {"none", "active", "succeeded", "failed"}, enriched' \in BOOLEAN
  PROVE  StepsAreCounted'
<1>0. TypeOK
  BY DEF StepsAreCounted
<1>1. /\ \A p \in asked :
           /\ state'[p].status = "queued" /\ state'[p].input = new /\ current'[p] = None
           /\ state'[p] \in [status : StateStatuses, input : Documents \cup {None}]
      /\ \A p \in Processors : state[p] \in [status : StateStatuses, input : Documents \cup {None}]
  BY <1>0 DEF Requested, Queued, StateStatuses, ActiveStatuses, TypeOK
<1>2. TypeOK'
  <2>1. state' \in [Processors -> [status : StateStatuses, input : Documents \cup {None}]]
    <3>1. \A p \in Processors : state'[p] \in [status : StateStatuses, input : Documents \cup {None}]
      BY <1>1 DEF Requested
    <3> QED
      BY <3>1 DEF Requested
  <2>2. current' \in [Processors -> Documents \cup {None}]
    <3>1. \A p \in Processors : current'[p] \in Documents \cup {None}
      BY <1>0, <1>1 DEF Requested, TypeOK
    <3> QED
      BY <3>1 DEF Requested
  <2> QED
    BY <2>1, <2>2 DEF Requested, TypeOK
<1>3. \A p \in Processors : DOMAIN job[p] \subseteq DOMAIN job'[p]
  BY DEF Requested
<1>4. \A w \in Workers : worker'[w].pc # "idle" => worker'[w] = worker[w]
  BY IdleIs DEF WorkersStop
<1>5. WorkHasItsJob'
  BY <1>3, <1>4 DEF StepsAreCounted, WorkHasItsJob
<1>6. ASSUME NEW p \in asked
      PROVE  /\ Len(job'[p]) = Len(job[p]) + 1 /\ Len(job[p]) \in Nat /\ job'[p] # <<>>
             /\ job'[p][Len(job'[p])].input = new /\ job'[p][Len(job'[p])].row.status = "queued"
             /\ \A g \in DOMAIN job'[p] : g # Len(job'[p]) =>
                  g \in DOMAIN job[p] /\ job'[p][g].row.status \notin ActiveStatuses
             /\ \A g \in DOMAIN job'[p] : job'[p][g].row.token = None
  <2>1. /\ Len(job[p]) \in Nat /\ Len(job'[p]) = Len(job[p]) + 1
        /\ DOMAIN job'[p] = DOMAIN job[p] \cup {Len(job[p]) + 1}
        /\ job'[p][Len(job[p]) + 1] = NewJob(new)
        /\ \A g \in DOMAIN job[p] : job'[p][g] = Ended(job[p][g]) /\ job[p][g] \in Jobs
    BY <1>0, JobsAreSequences DEF Requested
  <2>2. \A g \in DOMAIN job[p] :
          job'[p][g].row.status \notin ActiveStatuses /\ job'[p][g].row.token = None
    BY <2>1, EndedIs
  <2> QED
    BY <2>1, <2>2, NewJobIs
<1>7. ASSUME NEW p \in Processors \ asked
      PROVE  /\ state'[p] = state[p] /\ job'[p] = job[p] /\ current'[p] = current[p]
             /\ new # document => state[p].status # "none" /\ state[p].input = new
  BY <1>7 DEF Requested, Outdated
<1>8. NewestJobIsAsked'
  BY <1>1, <1>6, <1>7 DEF StepsAreCounted, NewestJobIsAsked
<1>9. AskedOfThisRelease'
  BY <1>1, <1>7 DEF StepsAreCounted, AskedOfThisRelease
<1>10. ActiveStateHasItsJob'
  <2>1. ASSUME NEW p \in asked
        PROVE  \A g \in DOMAIN job'[p] :
                 IF g = Len(job'[p]) /\ state'[p].status \in ActiveStatuses
                 THEN job'[p][g].row.status = state'[p].status
                 ELSE job'[p][g].row.status \notin ActiveStatuses
    BY <1>1, <1>6, <2>1 DEF ActiveStatuses
  <2>2. ASSUME NEW p \in Processors \ asked
        PROVE  \A g \in DOMAIN job'[p] :
                 IF g = Len(job'[p]) /\ state'[p].status \in ActiveStatuses
                 THEN job'[p][g].row.status = state'[p].status
                 ELSE job'[p][g].row.status \notin ActiveStatuses
    BY <1>7, <2>2 DEF StepsAreCounted, ActiveStateHasItsJob
  <2> QED
    BY <2>1, <2>2 DEF ActiveStateHasItsJob
<1>11. CurrentAnnotationsMatch'
  BY <1>1, <1>7 DEF StepsAreCounted, CurrentAnnotationsMatch
<1>12. PublisherHolds'
  <2>1. \A w \in Workers : worker'[w].pc # "publish" /\ w # None
    BY <1>4, IdleIs, NlpConstants DEF StepsAreCounted, PublisherHolds
  <2> QED
    BY <2>1 DEF PublisherHolds
<1>13. StaleStaysStale'
  <2> SUFFICES ASSUME NEW w \in Workers, worker'[w].pc = "stale", MayHold(w)'
               PROVE  new # job'[worker'[w].processor][worker'[w].generation].input
    BY DEF StaleStaysStale
  <2> DEFINE p == worker[w].processor
             g == worker[w].generation
  <2>1. /\ worker'[w] = worker[w] /\ worker[w].pc = "stale"
        /\ p \in Processors /\ g \in DOMAIN job[p] /\ worker[w].token \in Tokens
        /\ worker[w].token # None
    BY <1>4, NlpConstants DEF StepsAreCounted, WorkHasItsJob
  <2>2. job'[p][g].row.token = worker[w].token
    BY <2>1 DEF MayHold, RowOf
  <2>3. p \notin asked
    BY <1>3, <1>6, <2>1, <2>2
  <2>4. job'[p] = job[p] /\ MayHold(w)
    BY <1>7, <2>1, <2>2, <2>3 DEF MayHold, RowOf
  <2>5. /\ document # job[p][g].input /\ state[p].input = job[p][g].input
        /\ state[p].status = "running"
    BY <2>1, <2>4, HolderRuns DEF StepsAreCounted, StaleStaysStale
  <2>6. CASE new = document
    BY <2>1, <2>4, <2>5, <2>6
  <2>7. CASE new # document
    BY <1>7, <2>1, <2>3, <2>5, <2>7 DEF StepsAreCounted, AskedOfThisRelease, TypeOK, Documents
  <2> QED
    BY <2>6, <2>7
<1> QED
  BY <1>2, <1>5, <1>8, <1>9, <1>10, <1>11, <1>12, <1>13 DEF StepsAreCounted

\* A step that writes one row and the state of its processor, which keep saying the same.
StateWrites(p, status) ==
  /\ state' \in [Processors -> [status : StateStatuses, input : Documents \cup {None}]]
  /\ state'[p].status = status /\ state'[p].input = state[p].input
  /\ \A q \in Processors : q # p => state'[q] = state[q]

\* Such a step by the scheduler, or by the worker that runs the job and ends.
LEMMA RowStep ==
  ASSUME StepsAreCounted, NEW p, NEW g, NEW row, NEW status \in StateStatuses \ {"none"},
         Writes(p, g, row), g = Len(job[p]), StateWrites(p, status), state[p].status # "none",
         status \in ActiveStatuses => row.status = status,
         status \notin ActiveStatuses => row.status \notin ActiveStatuses,
         document' = document, WorkersStop
  PROVE  /\ job' \in [Processors -> Seq(Jobs)] /\ \A q \in Processors : Len(job'[q]) <= MaxGeneration
         /\ WorkHasItsJob' /\ NewestJobIsAsked' /\ AskedOfThisRelease' /\ ActiveStateHasItsJob'
         /\ \A w \in Workers : worker'[w].pc # "idle" => worker'[w] = worker[w]
         /\ \A w \in Workers : worker[w].pc # "idle" =>
              /\ worker[w].processor \in Processors
              /\ DOMAIN job'[worker[w].processor] = DOMAIN job[worker[w].processor]
              /\ Len(job'[worker[w].processor]) = Len(job[worker[w].processor])
              /\ job'[worker[w].processor][worker[w].generation].input
                   = job[worker[w].processor][worker[w].generation].input
              /\ worker[w].processor # p \/ worker[w].generation # g =>
                   job'[worker[w].processor][worker[w].generation]
                     = job[worker[w].processor][worker[w].generation]
         /\ job'[p][g].row = row
<1>0. TypeOK
  BY DEF StepsAreCounted
<1>1. /\ p \in Processors /\ g \in DOMAIN job[p]
      /\ job' \in [Processors -> Seq(Jobs)]
      /\ \A q \in Processors :
           /\ Len(job'[q]) = Len(job[q]) /\ DOMAIN job'[q] = DOMAIN job[q]
           /\ \A h \in DOMAIN job[q] :
                /\ job'[q][h].input = job[q][h].input
                /\ q # p \/ h # g => job'[q][h] = job[q][h]
      /\ job'[p][g].row = row
  BY <1>0, WriteChangesOneRow DEF Writes
<1>2. \A q \in Processors : Len(job'[q]) <= MaxGeneration
  BY <1>0, <1>1 DEF TypeOK
<1>3. \A w \in Workers : worker'[w].pc # "idle" => worker'[w] = worker[w]
  BY IdleIs DEF WorkersStop
<1>4. \A w \in Workers : worker[w].pc # "idle" =>
        worker[w].processor \in Processors /\ worker[w].generation \in DOMAIN job[worker[w].processor]
  BY DEF StepsAreCounted, WorkHasItsJob
<1>5. WorkHasItsJob'
  BY <1>1, <1>3 DEF StepsAreCounted, WorkHasItsJob
<1>6. NewestJobIsAsked'
  <2> SUFFICES ASSUME NEW q \in Processors
               PROVE  /\ state'[q].status = "none" <=> job'[q] = <<>>
                      /\ job'[q] # <<>> => job'[q][Len(job'[q])].input = state'[q].input
    BY DEF NewestJobIsAsked
  <2>1. /\ job[q] = <<>> <=> Len(job[q]) = 0
        /\ job'[q] = <<>> <=> Len(job'[q]) = 0
        /\ job[q] # <<>> => Len(job[q]) \in DOMAIN job[q]
    BY <1>0, <1>1, JobsAreSequences, EmptySeq, LenProperties
  <2>2. state'[q].input = state[q].input /\ (state'[q].status = "none" <=> state[q].status = "none")
    BY DEF StateWrites
  <2> QED
    BY <1>1, <2>1, <2>2 DEF StepsAreCounted, NewestJobIsAsked
<1>7. AskedOfThisRelease'
  BY DEF StepsAreCounted, AskedOfThisRelease, StateWrites
<1>8. ActiveStateHasItsJob'
  <2> SUFFICES ASSUME NEW q \in Processors, NEW h \in DOMAIN job[q]
               PROVE  IF h = Len(job'[q]) /\ state'[q].status \in ActiveStatuses
                      THEN job'[q][h].row.status = state'[q].status
                      ELSE job'[q][h].row.status \notin ActiveStatuses
    BY <1>1 DEF ActiveStateHasItsJob
  <2>1. CASE q # p
    BY <1>1, <2>1 DEF StepsAreCounted, ActiveStateHasItsJob, StateWrites
  <2>2. CASE q = p /\ h # g
    BY <1>1, <2>2 DEF StepsAreCounted, ActiveStateHasItsJob
  <2>3. CASE q = p /\ h = g
    BY <1>1, <2>3 DEF StateWrites
  <2> QED
    BY <2>1, <2>2, <2>3
<1> QED
  BY <1>1, <1>2, <1>3, <1>4, <1>5, <1>6, <1>7, <1>8

\* Which processors are active, and which were asked for, is all that Complete looks at.
LEMMA CompleteLooksAt ==
  ASSUME NEW x, NEW old, NEW new,
         \A q \in Processors : /\ old[q].status = "none" <=> new[q].status = "none"
                               /\ old[q].status \in ActiveStatuses <=> new[q].status \in ActiveStatuses
  PROVE  Complete(x, old) <=> Complete(x, new)
  BY DEF Complete

\* A job's row is read by its claim and its status.
SameRows ==
  /\ job' \in [Processors -> Seq(Jobs)]
  /\ \A q \in Processors :
       /\ Len(job'[q]) = Len(job[q]) /\ DOMAIN job'[q] = DOMAIN job[q]
       /\ \A h \in DOMAIN job[q] :
            /\ job'[q][h].input = job[q][h].input
            /\ job'[q][h].row.token = job[q][h].row.token
            /\ job'[q][h].row.status = job[q][h].row.status

LEMMA ClockStep ==
  ASSUME StepsAreCounted, NEW p \in Processors, NEW g \in DOMAIN job[p],
         LeaseExpires(p, g) \/ BackoffEnds(p, g)
  PROVE  StepsAreCounted'
<1>0. TypeOK
  BY DEF StepsAreCounted
<1>1. PICK row : /\ Writes(p, g, row) /\ row.token = job[p][g].row.token
                 /\ row.status = job[p][g].row.status
  <2> DEFINE expired == [job[p][g].row EXCEPT !.leased = FALSE]
             ended == [job[p][g].row EXCEPT !.due = TRUE]
  <2>1. job[p][g].row \in JobRows
    BY <1>0, JobsAreSequences
  <2>2. /\ expired \in JobRows /\ expired.token = job[p][g].row.token
        /\ expired.status = job[p][g].row.status
    BY <2>1, RowOperators DEF JobRows
  <2>3. /\ ended \in JobRows /\ ended.token = job[p][g].row.token
        /\ ended.status = job[p][g].row.status
    BY <2>1, RowOperators DEF JobRows
  <2>4. \/ job' = [job EXCEPT ![p][g].row = expired]
        \/ job' = [job EXCEPT ![p][g].row = ended]
    BY DEF LeaseExpires, BackoffEnds
  <2> HIDE DEF expired, ended
  <2> QED
    BY <2>2, <2>3, <2>4 DEF Writes
<1>2. SameRows
  <2>1. /\ job' \in [Processors -> Seq(Jobs)]
        /\ \A q \in Processors :
             /\ Len(job'[q]) = Len(job[q]) /\ DOMAIN job'[q] = DOMAIN job[q]
             /\ \A h \in DOMAIN job[q] :
                  /\ job'[q][h].input = job[q][h].input
                  /\ q # p \/ h # g => job'[q][h] = job[q][h]
        /\ job'[p][g].row = row
    BY <1>0, <1>1, WriteChangesOneRow
  <2>2. ASSUME NEW q \in Processors, NEW h \in DOMAIN job[q]
        PROVE  job'[q][h].row.token = job[q][h].row.token
               /\ job'[q][h].row.status = job[q][h].row.status
    BY <1>1, <2>1
  <2> QED
    BY <2>1, <2>2 DEF SameRows
<1>3. UNCHANGED <<document, extraction, state, current, enriched, holder, worker>>
  BY DEF LeaseExpires, BackoffEnds
<1>4. TypeOK'
  BY <1>0, <1>2, <1>3 DEF TypeOK, SameRows
<1>5. \A w \in Workers : worker[w].pc # "idle" =>
        worker[w].processor \in Processors /\ worker[w].generation \in DOMAIN job[worker[w].processor]
  BY DEF StepsAreCounted, WorkHasItsJob
<1>6. WorkHasItsJob'
  BY <1>2, <1>3 DEF StepsAreCounted, WorkHasItsJob, SameRows
<1>7. NewestJobIsAsked'
  <2> SUFFICES ASSUME NEW q \in Processors
               PROVE  /\ state[q].status = "none" <=> job'[q] = <<>>
                      /\ job'[q] # <<>> => job'[q][Len(job'[q])].input = state[q].input
    BY <1>3 DEF NewestJobIsAsked
  <2>1. /\ job[q] = <<>> <=> Len(job[q]) = 0
        /\ job'[q] = <<>> <=> Len(job'[q]) = 0
        /\ job[q] # <<>> => Len(job[q]) \in DOMAIN job[q]
    BY <1>0, <1>2, JobsAreSequences, EmptySeq, LenProperties DEF SameRows
  <2> QED
    BY <1>2, <2>1 DEF StepsAreCounted, NewestJobIsAsked, SameRows
<1>8. AskedOfThisRelease' /\ CurrentAnnotationsMatch'
  BY <1>3 DEF StepsAreCounted, AskedOfThisRelease, CurrentAnnotationsMatch
<1>9. StaleStaysStale'
  <2> SUFFICES ASSUME NEW w \in Workers, worker[w].pc = "stale", MayHold(w)'
               PROVE  document # job'[worker[w].processor][worker[w].generation].input
    BY <1>3 DEF StaleStaysStale
  <2>1. MayHold(w)
    BY <1>2, <1>3, <1>5 DEF SameRows, MayHold, RowOf
  <2> QED
    BY <1>2, <1>5, <2>1 DEF StepsAreCounted, StaleStaysStale, SameRows
<1>10. PublisherHolds'
  <2> SUFFICES ASSUME NEW w \in Workers
               PROVE  /\ worker[w].pc = "publish" <=> holder = w
                      /\ holder = w =>
                           /\ worker[w].generation = Len(job'[worker[w].processor])
                           /\ job'[worker[w].processor][worker[w].generation].row.status = "running"
                           /\ worker[w].others
                                = ~Complete(extraction, [state EXCEPT ![worker[w].processor].status = "done"])
    BY <1>3 DEF PublisherHolds
  <2>1. PublisherHolds
    BY DEF StepsAreCounted
  <2> HIDE DEF Complete
  <2> QED
    BY <1>2, <1>5, <2>1 DEF PublisherHolds, SameRows
<1>11. ActiveStateHasItsJob'
  BY <1>2, <1>3 DEF StepsAreCounted, ActiveStateHasItsJob, SameRows
<1> QED
  BY <1>4, <1>6, <1>7, <1>8, <1>9, <1>10, <1>11 DEF StepsAreCounted

\* The token is nobody's, and the article's row is not asked for.
LEMMA ClaimStep ==
  ASSUME StepsAreCounted, NEW p \in Processors, NEW g \in DOMAIN job[p], NEW token \in Tokens,
         ClaimJob(p, g, token)
  PROVE  /\ StepsAreCounted'
         /\ state'[p].status \in ActiveStatuses /\ UNCHANGED <<extraction, enriched>>
<1>0. TypeOK
  BY DEF StepsAreCounted
<1>1. /\ g = Len(job[p]) /\ state[p].status \in ActiveStatuses /\ state[p].status # "none"
      /\ current[p] = None
  BY ClaimedIsNewest DEF ClaimJob, Claimable
<1> DEFINE row == Claimed(job[p][g].row, token, MaxAttempts)
<1>2. /\ job' = [job EXCEPT ![p][g].row = row] /\ state' = [state EXCEPT ![p].status = "running"]
      /\ UNCHANGED <<document, extraction, current, enriched, holder, worker>>
      /\ \A w \in Workers : worker[w].token # token
  BY <1>1 DEF ClaimJob, FreshTokens
<1>3. job[p][g].row \in JobRows
  BY <1>0, JobsAreSequences
<1>4. row \in JobRows /\ row.status = "running" /\ row.token = token
  BY <1>3, RowOperators DEF Claimed, JobRows
<1> HIDE DEF row
<1>5. Writes(p, g, row)
  BY <1>2, <1>4 DEF Writes
<1>6. "running" \in StateStatuses \ {"none"} /\ "running" \in ActiveStatuses
  BY DEF StateStatuses, ActiveStatuses
<1>7. StateWrites(p, "running")
  BY <1>0, <1>2, <1>6 DEF StateWrites, TypeOK
<1>8. WorkersStop
  BY <1>2 DEF WorkersStop
<1>9. /\ job' \in [Processors -> Seq(Jobs)] /\ \A q \in Processors : Len(job'[q]) <= MaxGeneration
      /\ WorkHasItsJob' /\ NewestJobIsAsked' /\ AskedOfThisRelease' /\ ActiveStateHasItsJob'
      /\ job'[p][g].row = row
  BY <1>1, <1>2, <1>4, <1>5, <1>6, <1>7, <1>8, RowStep
<1>10. \A w \in Workers : worker[w].pc # "idle" =>
              /\ worker[w].processor \in Processors
              /\ Len(job'[worker[w].processor]) = Len(job[worker[w].processor])
              /\ job'[worker[w].processor][worker[w].generation].input
                   = job[worker[w].processor][worker[w].generation].input
              /\ worker[w].processor # p \/ worker[w].generation # g =>
                   job'[worker[w].processor][worker[w].generation]
                     = job[worker[w].processor][worker[w].generation]
  BY <1>1, <1>2, <1>4, <1>5, <1>6, <1>7, <1>8, RowStep
<1>11. TypeOK'
  BY <1>0, <1>2, <1>7, <1>9 DEF TypeOK, StateWrites
<1>12. StaleStaysStale'
  <2> SUFFICES ASSUME NEW w \in Workers, worker[w].pc = "stale", MayHold(w)'
               PROVE  document # job'[worker[w].processor][worker[w].generation].input
    BY <1>2 DEF StaleStaysStale
  <2>1. worker[w].token # token
        /\ job'[worker[w].processor][worker[w].generation].row.token = worker[w].token
    BY <1>2 DEF MayHold, RowOf
  <2>2. worker[w].processor # p \/ worker[w].generation # g
    BY <1>4, <1>9, <2>1
  <2>3. job'[worker[w].processor][worker[w].generation] = job[worker[w].processor][worker[w].generation]
    BY <1>10, <2>2
  <2>4. MayHold(w)
    BY <2>1, <2>3 DEF MayHold, RowOf
  <2> QED
    BY <2>3, <2>4 DEF StepsAreCounted, StaleStaysStale
<1>13. PublisherHolds'
  <2> SUFFICES ASSUME NEW w \in Workers
               PROVE  /\ worker[w].pc = "publish" <=> holder = w
                      /\ holder = w =>
                           /\ worker[w].generation = Len(job'[worker[w].processor])
                           /\ job'[worker[w].processor][worker[w].generation].row.status = "running"
                           /\ worker[w].others
                                = ~Complete(extraction, [state' EXCEPT ![worker[w].processor].status = "done"])
    BY <1>2 DEF PublisherHolds
  <2>1. worker[w].pc = "publish" <=> holder = w
    BY DEF StepsAreCounted, PublisherHolds
  <2>2. ASSUME holder = w
        PROVE  /\ worker[w].generation = Len(job'[worker[w].processor])
               /\ job'[worker[w].processor][worker[w].generation].row.status = "running"
    BY <1>4, <1>9, <1>10, <2>1, <2>2 DEF StepsAreCounted, PublisherHolds
  <2>3. ASSUME holder = w
        PROVE  worker[w].others
                 = ~Complete(extraction, [state' EXCEPT ![worker[w].processor].status = "done"])
    <3> DEFINE mine == worker[w].processor
               old == [state EXCEPT ![mine].status = "done"]
               new == [state' EXCEPT ![mine].status = "done"]
    <3>1. /\ worker[w].others = ~Complete(extraction, old)
      BY <2>3 DEF StepsAreCounted, PublisherHolds
    <3>2. \A q \in Processors : /\ old[q].status = "none" <=> new[q].status = "none"
                                /\ old[q].status \in ActiveStatuses <=> new[q].status \in ActiveStatuses
      BY <1>0, <1>1, <1>6, <1>7 DEF StateWrites, TypeOK
    <3> HIDE DEF old, new, mine
    <3>3. Complete(extraction, old) <=> Complete(extraction, new)
      BY <3>2, CompleteLooksAt
    <3>4. Complete(extraction, old) = Complete(extraction, new)
      BY <3>3 DEF Complete
    <3> QED
      BY <3>1, <3>4 DEF new, mine
  <2> QED
    BY <2>1, <2>2, <2>3
<1>14. CurrentAnnotationsMatch'
  BY <1>1, <1>2, <1>7 DEF StepsAreCounted, CurrentAnnotationsMatch, StateWrites
<1> QED
  BY <1>2, <1>6, <1>7, <1>9, <1>11, <1>12, <1>13, <1>14 DEF StepsAreCounted, StateWrites

\* A worker that ran its job to the end, or failed: its row and its state are written and
\* it stops.  Nobody publishes beside it.
LEMMA EndStep ==
  ASSUME StepsAreCounted, NEW w \in Workers, NEW row \in JobRows,
         NEW status \in StateStatuses \ {"none"},
         worker[w].pc # "idle", holder \in {None, w}, holder' = None,
         LET p == worker[w].processor
             g == worker[w].generation
         IN /\ g = Len(job[p]) /\ job[p][g].row.status = "running"
            /\ job' = [job EXCEPT ![p][g].row = row] /\ state' = [state EXCEPT ![p].status = status]
            /\ \/ current' = current
               \/ current' = [current EXCEPT ![p] = job[p][g].input] /\ status = "done",
         status \in ActiveStatuses => row.status = status,
         status \notin ActiveStatuses => row.status \notin ActiveStatuses,
         row.status # "running", UNCHANGED <<document, extraction>>, enriched' \in BOOLEAN, Finished(w)
  PROVE  StepsAreCounted'
<1>0. TypeOK
  BY DEF StepsAreCounted
<1> DEFINE p == worker[w].processor
           g == worker[w].generation
<1>1. p \in Processors /\ g \in DOMAIN job[p]
  BY DEF StepsAreCounted, WorkHasItsJob
<1>2. /\ g = Len(job[p]) /\ job[p][g].row.status = "running"
      /\ job' = [job EXCEPT ![p][g].row = row] /\ state' = [state EXCEPT ![p].status = status]
      /\ \/ current' = current
         \/ current' = [current EXCEPT ![p] = job[p][g].input] /\ status = "done"
      /\ worker' = [worker EXCEPT ![w] = Idle]
  BY DEF Finished
<1>3. worker'[w] = Idle /\ \A v \in Workers : v # w => worker'[v] = worker[v]
  BY <1>0, <1>2 DEF TypeOK
<1>4. \A v \in Workers : worker[v].pc # "idle" =>
        worker[v].processor \in Processors /\ worker[v].generation \in DOMAIN job[worker[v].processor]
  BY DEF StepsAreCounted, WorkHasItsJob
<1> HIDE DEF p, g
<1>5. /\ state[p].status = "running" /\ state[p].status # "none" /\ current[p] = None
      /\ state[p].input = job[p][g].input
  BY <1>1, <1>2, ClaimedIsNewest DEF ActiveStatuses
<1>6. Writes(p, g, row)
  BY <1>1, <1>2 DEF Writes
<1>7. StateWrites(p, status)
  <2> DEFINE new == [state[p] EXCEPT !.status = status]
  <2>1. state' = [state EXCEPT ![p] = new]
    BY <1>2
  <2>2. state[p] \in [status : StateStatuses, input : Documents \cup {None}]
        /\ state \in [Processors -> [status : StateStatuses, input : Documents \cup {None}]]
    BY <1>0, <1>1 DEF TypeOK
  <2>3. /\ new \in [status : StateStatuses, input : Documents \cup {None}]
        /\ new.status = status /\ new.input = state[p].input
    BY <2>2
  <2> HIDE DEF new
  <2>4. state' \in [Processors -> [status : StateStatuses, input : Documents \cup {None}]]
    BY <1>1, <2>1, <2>2, <2>3
  <2>5. state'[p] = new /\ \A q \in Processors : q # p => state'[q] = state[q]
    BY <1>1, <2>1, <2>2
  <2> QED
    BY <2>3, <2>4, <2>5 DEF StateWrites
<1>8. WorkersStop
  BY <1>3 DEF WorkersStop
<1>9. /\ job' \in [Processors -> Seq(Jobs)] /\ \A q \in Processors : Len(job'[q]) <= MaxGeneration
      /\ WorkHasItsJob' /\ NewestJobIsAsked' /\ AskedOfThisRelease' /\ ActiveStateHasItsJob'
      /\ job'[p][g].row = row
      /\ \A v \in Workers : worker[v].pc # "idle" =>
           /\ job'[worker[v].processor][worker[v].generation].input
                = job[worker[v].processor][worker[v].generation].input
           /\ worker[v].processor # p \/ worker[v].generation # g =>
                job'[worker[v].processor][worker[v].generation]
                  = job[worker[v].processor][worker[v].generation]
  <2>1. /\ g = Len(job[p]) /\ state[p].status # "none" /\ document' = document
        /\ status \in ActiveStatuses => row.status = status
        /\ status \notin ActiveStatuses => row.status \notin ActiveStatuses
        /\ StepsAreCounted /\ status \in StateStatuses \ {"none"}
    BY <1>2, <1>5
  <2> QED
    BY ONLY <1>6, <1>7, <1>8, <2>1, RowStep
<1>10. \A v \in Workers : worker[v].pc # "idle" =>
              /\ job'[worker[v].processor][worker[v].generation].input
                   = job[worker[v].processor][worker[v].generation].input
              /\ worker[v].processor # p \/ worker[v].generation # g =>
                   job'[worker[v].processor][worker[v].generation]
                     = job[worker[v].processor][worker[v].generation]
  BY <1>9
<1>11. job[p][g].input \in Documents
  BY <1>0, <1>1, JobsAreSequences
<1>12. current' \in [Processors -> Documents \cup {None}]
  BY <1>0, <1>1, <1>2, <1>11 DEF TypeOK
<1>13. worker' \in [Workers -> {Idle} \cup [pc : {"loaded", "stale", "publish"},
                    processor : Processors, generation : 1..MaxGeneration,
                    token : Tokens, others : BOOLEAN]]
  BY <1>0, <1>2 DEF TypeOK
<1>14. TypeOK'
  BY <1>0, <1>7, <1>9, <1>12, <1>13 DEF TypeOK, StateWrites
<1>15. StaleStaysStale'
  <2> SUFFICES ASSUME NEW v \in Workers, worker'[v].pc = "stale", MayHold(v)'
               PROVE  document # job'[worker'[v].processor][worker'[v].generation].input
    BY DEF StaleStaysStale
  <2>1. worker'[v] = worker[v] /\ worker[v].pc = "stale" /\ worker[v].token # None
    BY <1>3, IdleIs, NlpConstants DEF StepsAreCounted, WorkHasItsJob
  <2>2. job'[worker[v].processor][worker[v].generation].row.token = worker[v].token
    BY <2>1 DEF MayHold, RowOf
  <2>3. row.token = None
    BY RowsAre
  <2>4. worker[v].processor # p \/ worker[v].generation # g
    BY <1>9, <2>1, <2>2, <2>3
  <2>5. job'[worker[v].processor][worker[v].generation] = job[worker[v].processor][worker[v].generation]
    BY <1>10, <2>1, <2>4
  <2>6. MayHold(v)
    BY <2>2, <2>5 DEF MayHold, RowOf
  <2> QED
    BY <2>1, <2>5, <2>6 DEF StepsAreCounted, StaleStaysStale
<1>16. PublisherHolds'
  <2>1. \A v \in Workers : worker'[v].pc # "publish" /\ v # None
    BY <1>3, IdleIs, NlpConstants DEF StepsAreCounted, PublisherHolds
  <2> QED
    BY <2>1 DEF PublisherHolds
<1>17. CurrentAnnotationsMatch'
  <2> SUFFICES ASSUME NEW q \in Processors, current'[q] # None
               PROVE  state'[q] = [status |-> "done", input |-> current'[q]]
    BY DEF CurrentAnnotationsMatch
  <2>1. CASE q # p
    <3>1. current'[q] = current[q] /\ state'[q] = state[q]
      BY <1>0, <1>2, <1>7, <2>1 DEF TypeOK, StateWrites
    <3> QED
      BY <3>1 DEF StepsAreCounted, CurrentAnnotationsMatch
  <2>2. CASE q = p
    <3>1. current'[p] = job[p][g].input /\ status = "done"
      BY <1>0, <1>1, <1>2, <1>5, <2>2 DEF TypeOK
    <3>2. state'[p].status = "done" /\ state'[p].input = current'[p]
          /\ state'[p] \in [status : StateStatuses, input : Documents \cup {None}]
      BY <1>1, <1>5, <1>7, <3>1 DEF StateWrites
    <3> QED
      BY <2>2, <3>2
  <2> QED
    BY <2>1, <2>2
<1> QED
  BY <1>9, <1>14, <1>15, <1>16, <1>17 DEF StepsAreCounted

LEMMA CommitPublishStep ==
  ASSUME StepsAreCounted, NEW w \in Workers, CommitPublish(w)
  PROVE  StepsAreCounted'
<1> DEFINE p == worker[w].processor
           g == worker[w].generation
           row == [Released(job[p][g].row) EXCEPT !.status = "succeeded"]
<1>0. TypeOK
  BY DEF StepsAreCounted
<1>1. /\ p \in Processors /\ g \in DOMAIN job[p] /\ holder = w
      /\ g = Len(job[p]) /\ job[p][g].row.status = "running"
      /\ worker[w].pc # "idle" /\ worker[w].others \in BOOLEAN
  <2>1. worker[w].pc = "publish"
    BY DEF CommitPublish
  <2>2. worker[w].others \in BOOLEAN
    BY <1>0, <2>1, IdleIs DEF TypeOK
  <2> QED
    BY <2>1, <2>2 DEF StepsAreCounted, WorkHasItsJob, PublisherHolds
<1>2. row \in JobRows /\ row.status = "succeeded"
  <2>1. job[p][g].row \in JobRows
    BY <1>0, <1>1, JobsAreSequences
  <2> QED
    BY <2>1, RowOperators DEF Released, JobRows
<1>3. /\ job' = [job EXCEPT ![p][g].row = row] /\ state' = [state EXCEPT ![p].status = "done"]
      /\ current' = [current EXCEPT ![p] = job[p][g].input]
      /\ enriched' \in BOOLEAN /\ holder' = None /\ Finished(w) /\ UNCHANGED <<document, extraction>>
  BY <1>0, <1>1 DEF CommitPublish, TypeOK
<1>4. "done" \in StateStatuses \ {"none"} /\ "done" \notin ActiveStatuses
      /\ "succeeded" \notin ActiveStatuses
  BY DEF StateStatuses, ActiveStatuses
<1> HIDE DEF row
<1> QED
  BY <1>1, <1>2, <1>3, <1>4, EndStep

LEMMA RecordFailureStep ==
  ASSUME StepsAreCounted, NEW w \in Workers, NEW permanent \in BOOLEAN, RecordFailure(w, permanent)
  PROVE  /\ StepsAreCounted'
         /\ LET status == state'[worker[w].processor].status IN
            \/ status \in ActiveStatuses /\ UNCHANGED <<extraction, enriched>>
            \/ enriched' = Marked(extraction', state')
         /\ worker[w].processor \in Processors
<1> DEFINE p == worker[w].processor
           g == worker[w].generation
           row == FailureRecorded(job[p][g].row, MaxAttempts, permanent)
<1>0. TypeOK
  BY DEF StepsAreCounted
<1>1. /\ p \in Processors /\ g \in DOMAIN job[p]
      /\ g = Len(job[p]) /\ job[p][g].row.status = "running"
      /\ worker[w].pc # "idle"
  BY HolderRuns DEF RecordFailure
<1>2. row \in JobRows /\ row.status \in {"failed", "retrying"}
  <2>1. job[p][g].row \in JobRows
    BY <1>0, <1>1, JobsAreSequences
  <2> QED
    BY <2>1, RowOperators
<1>3. /\ job' = [job EXCEPT ![p][g].row = row] /\ state' = [state EXCEPT ![p].status = row.status]
      /\ holder = None /\ holder' = None /\ Finished(w) /\ UNCHANGED <<document, extraction, current>>
      /\ enriched' = IF row.status = "failed" THEN Marked(extraction, state') ELSE enriched
  BY DEF RecordFailure, RowOf, ArticleFree
<1>4. enriched' \in BOOLEAN
  BY <1>0, <1>3 DEF Marked, Complete, TypeOK
<1> HIDE DEF row
<1>5. /\ row.status \in StateStatuses \ {"none"} /\ row.status # "running"
      /\ row.status = "retrying" => row.status \in ActiveStatuses
      /\ "failed" \notin ActiveStatuses
  BY <1>2 DEF StateStatuses, ActiveStatuses
<1>6. StepsAreCounted'
  <2>1. /\ row.status \in ActiveStatuses => row.status = row.status
        /\ row.status \notin ActiveStatuses => row.status \notin ActiveStatuses
    OBVIOUS
  <2> QED
    BY <1>1, <1>2, <1>3, <1>4, <1>5, <2>1, EndStep
<1>7. state'[p].status = row.status
  BY <1>0, <1>1, <1>3 DEF TypeOK
<1> QED
  BY <1>1, <1>2, <1>3, <1>5, <1>6, <1>7

\* Requests.
LEMMA IngestStep ==
  ASSUME StepsAreCounted, NEW text \in Texts, NEW fullText \in BOOLEAN,
         NEW asked \in SUBSET Processors, Ingest(text, fullText, asked)
  PROVE  /\ StepsAreCounted'
         /\ \A p \in asked : state'[p].status = "queued"
         /\ asked = {} => state' = state
<1> DEFINE new == [document EXCEPT !.text = text]
<1>0. TypeOK
  BY DEF StepsAreCounted
<1>1. new \in Documents /\ new.release = document.release /\ (text = document.text => new = document)
  BY <1>0 DEF TypeOK, Documents
<1>2. /\ Request(asked, new, job) /\ document' = new /\ holder = None
      /\ UNCHANGED <<enriched, holder, worker>>
      /\ text # document.text => Outdated(Processors, new) \subseteq asked
      /\ extraction' \in {extraction, "active"}
  BY DEF Ingest, ArticleFree
<1> HIDE DEF new
<1>3. Requested(asked, new)
  BY <1>0, <1>1, <1>2, JobsAreSequences, RequestWrites
<1>4. WorkersStop
  BY <1>2 DEF WorkersStop
<1>5. StepsAreCounted'
  BY <1>0, <1>1, <1>2, <1>3, <1>4, RequestedStep DEF TypeOK
<1>6. asked = {} => state' = state
  BY <1>0, <1>3 DEF Requested, TypeOK
<1> QED
  BY <1>3, <1>5, <1>6 DEF Requested, Queued

LEMMA ReprocessStep ==
  ASSUME StepsAreCounted, NEW asked \in SUBSET Processors, Reprocess(asked)
  PROVE  /\ StepsAreCounted'
         /\ \A p \in asked : state'[p].status = "queued"
<1>0. TypeOK
  BY DEF StepsAreCounted
<1>1. /\ Request(asked, document, job) /\ holder = None
      /\ UNCHANGED <<document, extraction, enriched, holder, worker>>
  BY DEF Reprocess, ArticleFree
<1>2. document \in Documents
  BY <1>0 DEF TypeOK
<1>3. Requested(asked, document)
  BY <1>0, <1>1, <1>2, JobsAreSequences, RequestWrites
<1>4. WorkersStop
  BY <1>1 DEF WorkersStop
<1>5. StepsAreCounted'
  BY <1>0, <1>1, <1>2, <1>3, <1>4, RequestedStep DEF TypeOK
<1> QED
  BY <1>3, <1>5 DEF Requested, Queued

LEMMA ExtractionSucceedsStep ==
  ASSUME StepsAreCounted, NEW text \in Texts, NEW asked \in SUBSET Processors,
         ExtractionSucceeds(text, asked)
  PROVE  StepsAreCounted' /\ enriched' = Marked(extraction', state')
<1> DEFINE new == [document EXCEPT !.text = text]
<1>0. TypeOK
  BY DEF StepsAreCounted
<1>1. new \in Documents /\ new.release = document.release
  BY <1>0 DEF TypeOK, Documents
<1>2. /\ Request(asked, new, job) /\ document' = new /\ holder = None
      /\ UNCHANGED <<holder, worker>> /\ Outdated(Processors, new) \subseteq asked
      /\ extraction' = "succeeded" /\ enriched' = Marked(extraction', state')
  BY DEF ExtractionSucceeds, ArticleFree
<1> HIDE DEF new
<1>3. Requested(asked, new)
  BY <1>0, <1>1, <1>2, JobsAreSequences, RequestWrites
<1>4. WorkersStop /\ enriched' \in BOOLEAN
  BY <1>0, <1>2 DEF WorkersStop, Marked, Complete, TypeOK
<1>5. StepsAreCounted'
  BY <1>0, <1>1, <1>2, <1>3, <1>4, RequestedStep DEF TypeOK
<1> QED
  BY <1>2, <1>5

\* The stale job ends, and another one is queued in its place.
LEMMA SupersedeStep ==
  ASSUME StepsAreCounted, NEW w \in Workers, Supersede(w)
  PROVE  /\ StepsAreCounted' /\ worker[w].processor \in Processors
         /\ state'[worker[w].processor].status = "queued"
<1> DEFINE p == worker[w].processor
           g == worker[w].generation
           line == [job[p] EXCEPT ![g] = Ended(@)]
           jobs == [job EXCEPT ![p] = line]
<1>0. TypeOK
  BY DEF StepsAreCounted
<1>1. /\ worker[w].pc = "stale" /\ MayHold(w) /\ holder = None
      /\ Request(AskedAgain(p), document, jobs) /\ worker' = [worker EXCEPT ![w] = Idle]
      /\ UNCHANGED <<document, extraction, enriched, holder>>
  BY DEF Supersede, ArticleFree, Finished
<1>2. /\ p \in Processors /\ g \in DOMAIN job[p]
      /\ state[p].status = "running" /\ state[p].input = job[p][g].input
      /\ document # job[p][g].input
  BY <1>1, HolderRuns DEF StepsAreCounted, StaleStaysStale
<1>3. AskedAgain(p) = {p}
  BY <1>2 DEF AskedAgain, Outdated
<1> HIDE DEF p, g
<1>4. /\ job \in [Processors -> Seq(Jobs)] /\ job[p] \in Seq(Jobs) /\ job[p][g] \in Jobs
      /\ \A q \in Processors : job[q] \in Seq(Jobs)
      /\ DOMAIN job[p] = 1..Len(job[p])
  BY <1>0, <1>2, JobsAreSequences DEF TypeOK
<1>5. Ended(job[p][g]) \in Jobs /\ Ended(Ended(job[p][g])) = Ended(job[p][g])
  BY <1>4, EndedIs
<1>6. /\ line \in Seq(Jobs) /\ Len(line) = Len(job[p])
      /\ \A h \in DOMAIN job[p] : line[h] = IF h = g THEN Ended(job[p][g]) ELSE job[p][h]
  BY <1>2, <1>4, <1>5, ExceptSeq, LenProperties
<1> HIDE DEF line
<1>7. \A q \in Processors : jobs[q] = IF q = p THEN line ELSE job[q]
  BY <1>2, <1>4
<1> HIDE DEF jobs
<1>8. /\ \A q \in Processors : jobs[q] \in Seq(Jobs) /\ Len(jobs[q]) = Len(job[q])
      /\ \A q \in {p} : \A h \in DOMAIN job[q] : Ended(jobs[q][h]) = Ended(job[q][h])
      /\ \A q \in Processors \ {p} : jobs[q] = job[q]
  BY <1>2, <1>4, <1>5, <1>6, <1>7
<1>9. document \in Documents /\ {p} \in SUBSET Processors
  BY <1>0, <1>2 DEF TypeOK
<1>10. Requested({p}, document)
  <2>1. Request({p}, document, jobs)
    BY <1>1, <1>3
  <2> QED
    BY <1>0, <1>8, <1>9, <2>1, RequestWrites
<1>11. WorkersStop /\ worker' \in [Workers -> {Idle} \cup [pc : {"loaded", "stale", "publish"},
                    processor : Processors, generation : 1..MaxGeneration,
                    token : Tokens, others : BOOLEAN]]
  BY <1>0, <1>1 DEF WorkersStop, TypeOK
<1>12. StepsAreCounted'
  BY <1>0, <1>1, <1>9, <1>10, <1>11, RequestedStep DEF TypeOK
<1>13. state'[p].status = "queued"
  BY <1>10 DEF Requested, Queued
<1> QED
  BY <1>2, <1>12, <1>13 DEF p

WorkerStates ==
  {Idle} \cup [pc : {"loaded", "stale", "publish"}, processor : Processors,
               generation : 1..MaxGeneration, token : Tokens, others : BOOLEAN]

\* One worker goes on or stops, and nothing else changes but who holds the article's row.
LEMMA WorkerStep ==
  ASSUME StepsAreCounted, NEW w \in Workers, NEW after \in WorkerStates,
         worker' = [worker EXCEPT ![w] = after],
         UNCHANGED <<document, extraction, state, job, current, enriched>>,
         after.pc # "idle" => after.generation \in DOMAIN job[after.processor],
         after.pc = "stale" => document # job[after.processor][after.generation].input,
         after.pc = "publish" =>
           /\ holder = None /\ holder' = w
           /\ after.generation = Len(job[after.processor])
           /\ job[after.processor][after.generation].row.status = "running"
           /\ after.others = ~Complete(extraction, [state EXCEPT ![after.processor].status = "done"]),
         after.pc # "publish" => holder' = IF holder = w THEN None ELSE holder
  PROVE  StepsAreCounted'
<1>0. TypeOK
  BY DEF StepsAreCounted
<1>1. worker'[w] = after /\ \A v \in Workers : v # w => worker'[v] = worker[v]
  BY <1>0 DEF TypeOK
<1>2. /\ after.pc # "idle" => after.processor \in Processors /\ after.token \in Tokens
      /\ worker \in [Workers -> WorkerStates] /\ holder \in Workers \cup {None} /\ None \notin Workers
  BY <1>0, IdleIs, NlpConstants DEF TypeOK, WorkerStates
<1>3. worker' \in [Workers -> WorkerStates] /\ holder' \in Workers \cup {None}
  BY <1>2
<1>4. TypeOK'
  BY <1>0, <1>3 DEF TypeOK, WorkerStates
<1>5. WorkHasItsJob'
  BY <1>1, <1>2 DEF StepsAreCounted, WorkHasItsJob
<1>6. NewestJobIsAsked' /\ AskedOfThisRelease'
  BY DEF StepsAreCounted, NewestJobIsAsked, AskedOfThisRelease
<1>7. StaleStaysStale'
  BY <1>1 DEF StepsAreCounted, StaleStaysStale, MayHold, RowOf
<1>8. PublisherHolds'
  <2> SUFFICES ASSUME NEW v \in Workers
               PROVE  /\ worker'[v].pc = "publish" <=> holder' = v
                      /\ holder' = v =>
                           /\ worker'[v].generation = Len(job[worker'[v].processor])
                           /\ job[worker'[v].processor][worker'[v].generation].row.status = "running"
                           /\ worker'[v].others
                                = ~Complete(extraction, [state EXCEPT ![worker'[v].processor].status = "done"])
    BY DEF PublisherHolds, Complete
  <2>1. PublisherHolds
    BY DEF StepsAreCounted
  <2>2. CASE v = w
    BY <1>1, <1>2, <2>2
  <2>3. CASE v # w
    <3>1. worker'[v] = worker[v] /\ (holder' = v <=> holder = v)
      BY <1>1, <1>2, <2>1, <2>3 DEF PublisherHolds
    <3> QED
      BY <2>1, <3>1 DEF PublisherHolds
  <2> QED
    BY <2>2, <2>3
<1>9. ActiveStateHasItsJob' /\ CurrentAnnotationsMatch'
  BY DEF StepsAreCounted, ActiveStateHasItsJob, CurrentAnnotationsMatch
<1> QED
  BY <1>4, <1>5, <1>6, <1>7, <1>8, <1>9 DEF StepsAreCounted

LEMMA LoadStep ==
  ASSUME StepsAreCounted, NEW w \in Workers, NEW p \in Processors, NEW g \in DOMAIN job[p],
         Load(w, p, g)
  PROVE  StepsAreCounted'
<1> DEFINE pc == IF Stale(p, g) THEN "stale" ELSE "loaded"
           after == [pc |-> pc, processor |-> p, generation |-> g, token |-> job[p][g].row.token,
                     others |-> FALSE]
<1>0. TypeOK
  BY DEF StepsAreCounted
<1>1. /\ worker' = [worker EXCEPT ![w] = after] /\ worker[w].pc = "idle" /\ job[p][g].row.leased
      /\ UNCHANGED <<document, extraction, state, job, current, enriched, holder>>
  BY IdleIs DEF Load
<1>2. job[p][g].row.token \in Tokens /\ job[p][g].row.status = "running" /\ g \in 1..MaxGeneration
  <2>1. job[p][g].row \in JobRows /\ g \in 1..MaxGeneration
    BY <1>0, JobsAreSequences
  <2> QED
    BY <1>1, <2>1, RowsAre DEF RowFields
<1>3. g = Len(job[p]) /\ state[p].input = job[p][g].input
  BY <1>2, ClaimedIsNewest DEF ActiveStatuses
<1>4. pc \in {"stale", "loaded"} /\ (pc = "stale" => document # job[p][g].input)
  BY <1>3 DEF Stale
<1>5. holder # w
  BY <1>1 DEF StepsAreCounted, PublisherHolds
<1> HIDE DEF pc
<1>6. after \in WorkerStates /\ after.pc = pc /\ after.processor = p /\ after.generation = g
  BY <1>2, <1>4 DEF WorkerStates
<1> HIDE DEF after
<1> QED
  BY <1>1, <1>4, <1>5, <1>6, WorkerStep

LEMMA BeginPublishStep ==
  ASSUME StepsAreCounted, NEW w \in Workers, BeginPublish(w)
  PROVE  StepsAreCounted'
<1> DEFINE p == worker[w].processor
           g == worker[w].generation
           others == ~Complete(extraction, [state EXCEPT ![p].status = "done"])
           after == [worker[w] EXCEPT !.pc = "publish", !.others = others]
<1>0. TypeOK
  BY DEF StepsAreCounted
<1>1. /\ worker' = [worker EXCEPT ![w] = after] /\ worker[w].pc = "loaded" /\ MayHold(w)
      /\ UNCHANGED <<document, extraction, state, job, current, enriched>>
      /\ holder = None /\ holder' = w
  BY DEF BeginPublish, ArticleFree, IsCurrent
<1>2. /\ p \in Processors /\ g \in DOMAIN job[p] /\ job[p][g].row.status = "running"
      /\ g = Len(job[p])
  BY <1>1, HolderRuns
<1>3. others \in BOOLEAN
  BY DEF Complete
<1>4. worker[w] \in [pc : {"loaded", "stale", "publish"}, processor : Processors,
                     generation : 1..MaxGeneration, token : Tokens, others : BOOLEAN]
  BY <1>0, <1>1, IdleIs DEF TypeOK
<1> HIDE DEF others
<1>5. /\ after \in WorkerStates /\ after.pc = "publish" /\ after.processor = p
      /\ after.generation = g /\ after.others = others
  BY <1>3, <1>4 DEF WorkerStates
<1> HIDE DEF after
<1> QED
  BY <1>1, <1>2, <1>5, WorkerStep DEF others

LEMMA StopSteps ==
  ASSUME StepsAreCounted, NEW w \in Workers, NothingToFinish(w) \/ Crash(w)
  PROVE  StepsAreCounted'
<1>1. /\ worker' = [worker EXCEPT ![w] = Idle]
      /\ UNCHANGED <<document, extraction, state, job, current, enriched>>
      /\ holder' = IF holder = w THEN None ELSE holder
  BY DEF NothingToFinish, Crash, Finished, StepsAreCounted, PublisherHolds
<1>2. Idle \in WorkerStates
  BY DEF WorkerStates
<1> QED
  BY <1>1, <1>2, IdleIs, WorkerStep

\* A release changes the document, and the full text what is awaited, while nobody publishes.
LEMMA ArticleSteps ==
  ASSUME StepsAreCounted, NewRelease \/ RequestExtraction \/ ExtractionFails
  PROVE  StepsAreCounted'
<1>0. TypeOK
  BY DEF StepsAreCounted
<1>1. /\ UNCHANGED <<state, job, current, holder, worker>>
      /\ \/ document' = document
         \/ document' = [document EXCEPT !.release = @ + 1] /\ document.release < MaxRelease
      /\ extraction' = extraction \/ holder = None
      /\ extraction' \in {"none", "active", "succeeded", "failed"} /\ enriched' \in BOOLEAN
  BY <1>0 DEF NewRelease, RequestExtraction, ExtractionFails, ArticleFree, TypeOK, Marked, Complete
<1>2. /\ document' \in Documents
      /\ document' = document \/ document.release < document'.release
      /\ document.release \in Nat /\ document'.release \in Nat
  <2>1. document \in Documents /\ document.release \in 0..MaxRelease /\ MaxRelease \in Nat
    BY <1>0, NlpConstants DEF TypeOK, Documents
  <2>2. CASE document' = document
    BY <2>1, <2>2
  <2>3. ASSUME document' = [document EXCEPT !.release = @ + 1], document.release < MaxRelease
        PROVE  document' \in Documents /\ document'.release = document.release + 1
    <3> DEFINE next == document.release + 1
    <3>1. next \in 0..MaxRelease
      BY <2>1, <2>3
    <3>2. document' = [document EXCEPT !.release = next]
      BY <2>3
    <3> HIDE DEF next
    <3>3. document' \in Documents /\ document'.release = next
      BY <2>1, <3>1, <3>2 DEF Documents
    <3> QED
      BY <3>3 DEF next
  <2> QED
    BY <1>1, <2>1, <2>2, <2>3
<1>3. TypeOK'
  BY <1>0, <1>1, <1>2 DEF TypeOK
<1>4. WorkHasItsJob' /\ NewestJobIsAsked' /\ ActiveStateHasItsJob' /\ CurrentAnnotationsMatch'
  BY <1>1 DEF StepsAreCounted, WorkHasItsJob, NewestJobIsAsked, ActiveStateHasItsJob,
     CurrentAnnotationsMatch
<1>5. ASSUME NEW p \in Processors, state[p].status # "none"
      PROVE  /\ state[p].input \in Documents
             /\ document' # document =>
                  state[p].input.release < document'.release /\ state[p].input # document'
  <2>1. /\ Len(job[p]) \in Nat /\ (job[p] = <<>> <=> Len(job[p]) = 0)
        /\ DOMAIN job[p] = 1..Len(job[p])
        /\ \A g \in DOMAIN job[p] : job[p][g].input \in Documents
    BY <1>0, JobsAreSequences, EmptySeq
  <2>2. job[p] # <<>> /\ job[p][Len(job[p])].input = state[p].input
    BY <1>5 DEF StepsAreCounted, NewestJobIsAsked
  <2>3. state[p].input \in Documents /\ state[p].input.release \in Nat
    BY <2>1, <2>2 DEF Documents
  <2>4. state[p].input = document \/ state[p].input.release < document.release
    BY <1>5 DEF StepsAreCounted, AskedOfThisRelease
  <2>5. document' # document => state[p].input.release < document'.release
    BY <1>2, <2>3, <2>4
  <2> QED
    BY <1>2, <2>3, <2>5
<1>6. AskedOfThisRelease'
  BY <1>1, <1>5 DEF StepsAreCounted, AskedOfThisRelease
<1>7. StaleStaysStale'
  <2> SUFFICES ASSUME NEW w \in Workers, worker[w].pc = "stale", MayHold(w)
               PROVE  document' # job[worker[w].processor][worker[w].generation].input
    BY <1>1 DEF StaleStaysStale, MayHold, RowOf
  <2>1. /\ worker[w].processor \in Processors
        /\ state[worker[w].processor].status = "running"
        /\ state[worker[w].processor].input
             = job[worker[w].processor][worker[w].generation].input
    BY HolderRuns
  <2>2. document # job[worker[w].processor][worker[w].generation].input
    BY DEF StepsAreCounted, StaleStaysStale
  <2> QED
    BY <1>5, <2>1, <2>2
<1>8. PublisherHolds'
  <2>1. PublisherHolds /\ None \notin Workers
    BY NlpConstants DEF StepsAreCounted
  <2>2. CASE extraction' = extraction
    BY <1>1, <2>1, <2>2 DEF PublisherHolds, Complete
  <2>3. CASE holder = None
    BY <1>1, <2>1, <2>3 DEF PublisherHolds
  <2> QED
    BY <1>1, <2>2, <2>3
<1> QED
  BY <1>3, <1>4, <1>6, <1>7, <1>8 DEF StepsAreCounted

LEMMA CountedInit == Init => StepsAreCounted /\ EnrichedWhenComplete
<1> SUFFICES ASSUME Init PROVE StepsAreCounted /\ EnrichedWhenComplete
  OBVIOUS
<1>1. /\ \A p \in Processors : /\ state[p] = NoState /\ state[p].status = "none"
                               /\ job[p] = <<>> /\ current[p] = None
      /\ \A w \in Workers : worker[w] = Idle /\ worker[w].pc = "idle"
      /\ holder = None
  BY DEF Init, NoState, Idle
<1>2. TypeOK
  <2>1. NoState \in [status : StateStatuses, input : Documents \cup {None}]
    BY DEF NoState, StateStatuses
  <2>2. document \in Documents
    BY NlpConstants DEF Init, Documents
  <2>3. job \in [Processors -> Seq(Jobs)] /\ \A p \in Processors : Len(job[p]) <= MaxGeneration
    <3>1. <<>> \in Seq(Jobs) /\ Len(<<>>) = 0
      OBVIOUS
    <3> QED
      BY <1>1, <3>1, NlpConstants DEF Init
  <2> QED
    BY <2>1, <2>2, <2>3 DEF Init, TypeOK
<1>3. \A p \in Processors : DOMAIN job[p] = {}
  BY <1>1
<1>4. \A p \in Processors : state[p].status = "none" /\ job[p] = <<>>
  BY <1>1
<1>5. WorkHasItsJob /\ StaleStaysStale /\ PublisherHolds
  BY <1>1, NlpConstants DEF WorkHasItsJob, StaleStaysStale, PublisherHolds
<1>6. NewestJobIsAsked /\ AskedOfThisRelease /\ ActiveStateHasItsJob /\ CurrentAnnotationsMatch
  BY <1>1, <1>3, <1>4 DEF NewestJobIsAsked, AskedOfThisRelease, ActiveStateHasItsJob,
     CurrentAnnotationsMatch
<1>7. EnrichedWhenComplete
  BY <1>4 DEF EnrichedWhenComplete
<1> QED
  BY <1>2, <1>5, <1>6, <1>7 DEF StepsAreCounted

LEMMA CountedStep == StepsAreCounted /\ [Next]_vars => StepsAreCounted'
<1> SUFFICES ASSUME StepsAreCounted, [Next]_vars PROVE StepsAreCounted'
  OBVIOUS
<1>1. ASSUME NEW text \in Texts, NEW asked \in SUBSET Processors,
             \/ \E fullText \in BOOLEAN : Ingest(text, fullText, asked)
             \/ ExtractionSucceeds(text, asked)
      PROVE  StepsAreCounted'
  BY <1>1, IngestStep, ExtractionSucceedsStep
<1>2. ASSUME NEW asked \in SUBSET Processors, Reprocess(asked) PROVE StepsAreCounted'
  BY <1>2, ReprocessStep
<1>3. CASE RequestExtraction \/ ExtractionFails \/ NewRelease
  BY <1>3, ArticleSteps
<1>4. ASSUME NEW p \in Processors, NEW g \in DOMAIN job[p],
             \/ \E token \in Tokens : ClaimJob(p, g, token)
             \/ LeaseExpires(p, g) \/ BackoffEnds(p, g)
             \/ \E w \in Workers : Load(w, p, g)
      PROVE  StepsAreCounted'
  BY <1>4, ClaimStep, ClockStep, LoadStep
<1>5. ASSUME NEW w \in Workers,
             \/ BeginPublish(w) \/ CommitPublish(w) \/ Supersede(w) \/ NothingToFinish(w) \/ Crash(w)
             \/ \E permanent \in BOOLEAN : RecordFailure(w, permanent)
      PROVE  StepsAreCounted'
  BY <1>5, BeginPublishStep, CommitPublishStep, SupersedeStep, StopSteps, RecordFailureStep
<1>6. CASE UNCHANGED vars
  <2>1. UNCHANGED <<document, extraction, state, job, current, enriched, holder, worker>>
    BY <1>6 DEF vars
  <2> QED
    BY <2>1 DEF StepsAreCounted, TypeOK, WorkHasItsJob, NewestJobIsAsked, AskedOfThisRelease,
       StaleStaysStale, MayHold, RowOf, PublisherHolds, Complete, ActiveStateHasItsJob,
       CurrentAnnotationsMatch
<1> QED
  BY <1>1, <1>2, <1>3, <1>4, <1>5, <1>6 DEF Next

-----------------------------------------------------------------------------
(* The mark of a complete article.                                         *)

\* The mark is not set early, and it is set once every step has finished.
MarkedWhenComplete ==
  /\ EnrichedWhenComplete'
  /\ ~enriched /\ enriched' =>
       extraction' # "active" /\ \A p \in Processors : state'[p].status \notin ActiveStatuses

LEMMA NothingFinishes ==
  ASSUME EnrichedWhenComplete, UNCHANGED <<state, enriched>>, extraction' \in {extraction, "active"}
  PROVE  MarkedWhenComplete
  BY DEF EnrichedWhenComplete, MarkedWhenComplete

LEMMA StillActive ==
  ASSUME NEW p \in Processors, state'[p].status \in ActiveStatuses, UNCHANGED enriched
  PROVE  MarkedWhenComplete
  BY DEF EnrichedWhenComplete, MarkedWhenComplete

LEMMA Looked ==
  ASSUME enriched' = Marked(extraction', state')
  PROVE  MarkedWhenComplete
  BY DEF EnrichedWhenComplete, MarkedWhenComplete, Marked, Complete

LEMMA PublisherLooked ==
  ASSUME StepsAreCounted, NEW w \in Workers, CommitPublish(w)
  PROVE  enriched' = Marked(extraction', state')
<1>1. /\ worker[w].pc = "publish" /\ enriched' = (enriched \/ ~worker[w].others)
      /\ state' = [state EXCEPT ![worker[w].processor].status = "done"]
      /\ extraction' = extraction
  BY DEF CommitPublish
<1>2. worker[w].others =
        ~Complete(extraction, [state EXCEPT ![worker[w].processor].status = "done"])
  BY <1>1 DEF StepsAreCounted, PublisherHolds
<1>3. worker[w].others = ~Complete(extraction', state')
  BY <1>1, <1>2
<1>4. Complete(extraction', state') \in BOOLEAN
  BY DEF Complete
<1> QED
  BY <1>1, <1>3, <1>4 DEF Marked

LEMMA EnrichedStep ==
  ASSUME StepsAreCounted, EnrichedWhenComplete, [Next]_vars
  PROVE  MarkedWhenComplete
<1> USE DEF ActiveStatuses
<1>1. ASSUME NEW text \in Texts, NEW asked \in SUBSET Processors, NEW fullText \in BOOLEAN,
             Ingest(text, fullText, asked)
      PROVE  MarkedWhenComplete
  <2>1. /\ \A p \in asked : state'[p].status = "queued"
        /\ asked = {} => state' = state
    BY <1>1, IngestStep
  <2>2. UNCHANGED enriched /\ extraction' \in {extraction, "active"}
    BY <1>1 DEF Ingest
  <2> QED
    BY <2>1, <2>2, NothingFinishes, StillActive
<1>2. ASSUME NEW text \in Texts, NEW asked \in SUBSET Processors, ExtractionSucceeds(text, asked)
      PROVE  MarkedWhenComplete
  BY <1>2, ExtractionSucceedsStep, Looked
<1>3. ASSUME NEW asked \in SUBSET Processors, Reprocess(asked) PROVE MarkedWhenComplete
  <2>1. \A p \in asked : state'[p].status = "queued"
    BY <1>3, ReprocessStep
  <2>2. asked # {} /\ UNCHANGED enriched
    BY <1>3 DEF Reprocess
  <2> QED
    BY <2>1, <2>2, StillActive
<1>4. CASE RequestExtraction \/ NewRelease
  BY <1>4, NothingFinishes DEF RequestExtraction, NewRelease
<1>5. CASE ExtractionFails
  BY <1>5, Looked DEF ExtractionFails, Marked, Complete
<1>6. ASSUME NEW p \in Processors, NEW g \in DOMAIN job[p], NEW token \in Tokens,
             ClaimJob(p, g, token)
      PROVE  MarkedWhenComplete
  BY <1>6, ClaimStep, StillActive
<1>7. ASSUME NEW p \in Processors, NEW g \in DOMAIN job[p],
             LeaseExpires(p, g) \/ BackoffEnds(p, g) \/ \E w \in Workers : Load(w, p, g)
      PROVE  MarkedWhenComplete
  BY <1>7, NothingFinishes DEF LeaseExpires, BackoffEnds, Load
<1>8. ASSUME NEW w \in Workers, BeginPublish(w) \/ NothingToFinish(w) \/ Crash(w)
      PROVE  MarkedWhenComplete
  BY <1>8, NothingFinishes DEF BeginPublish, NothingToFinish, Crash
<1>9. ASSUME NEW w \in Workers, CommitPublish(w) PROVE MarkedWhenComplete
  BY <1>9, PublisherLooked, Looked
<1>10. ASSUME NEW w \in Workers, Supersede(w) PROVE MarkedWhenComplete
  <2>1. worker[w].processor \in Processors /\ state'[worker[w].processor].status = "queued"
    BY <1>10, SupersedeStep
  <2>2. UNCHANGED enriched
    BY <1>10 DEF Supersede
  <2> QED
    BY <2>1, <2>2, StillActive
<1>11. ASSUME NEW w \in Workers, NEW permanent \in BOOLEAN, RecordFailure(w, permanent)
       PROVE  MarkedWhenComplete
  <2>1. /\ \/ state'[worker[w].processor].status \in ActiveStatuses /\ UNCHANGED enriched
           \/ enriched' = Marked(extraction', state')
        /\ worker[w].processor \in Processors
    BY <1>11, RecordFailureStep
  <2> QED
    BY <2>1, StillActive, Looked
<1>12. CASE UNCHANGED vars
  BY <1>12, NothingFinishes DEF vars
<1> QED
  BY <1>1, <1>2, <1>3, <1>4, <1>5, <1>6, <1>7, <1>8, <1>9, <1>10, <1>11, <1>12 DEF Next

-----------------------------------------------------------------------------
LEMMA StepsAlwaysCounted == Spec => [](StepsAreCounted /\ EnrichedWhenComplete)
<1>1. Init => StepsAreCounted /\ EnrichedWhenComplete
  BY CountedInit
<1>2. /\ StepsAreCounted /\ EnrichedWhenComplete
      /\ [Next]_vars
      => (StepsAreCounted /\ EnrichedWhenComplete)'
  BY CountedStep, EnrichedStep DEF MarkedWhenComplete
<1> QED
  BY <1>1, <1>2, PTL DEF Spec

\* The rows of processors and jobs keep their form, claimed exactly while they run, through
\* every request, claim, publication, failure and crash (nlp/service.py, nlp/execution.py).
THEOREM TypeCorrect == Spec => []TypeOK
<1>1. StepsAreCounted => TypeOK
  BY DEF StepsAreCounted
<1> QED
  BY <1>1, StepsAlwaysCounted, PTL

\* No request is left without a job that can be claimed for it, and no job of an older
\* request runs beside it (request_article_nlp, claim_job, _supersede).
THEOREM ActiveStateHasItsJobHolds == Spec => []ActiveStateHasItsJob
<1>1. StepsAreCounted => ActiveStateHasItsJob
  BY DEF StepsAreCounted
<1> QED
  BY <1>1, StepsAlwaysCounted, PTL

\* However late a worker publishes, the annotations shown were made from the document last
\* asked for (_publish).
THEOREM CurrentAnnotationsMatchHolds == Spec => []CurrentAnnotationsMatch
<1>1. StepsAreCounted => CurrentAnnotationsMatch
  BY DEF StepsAreCounted
<1> QED
  BY <1>1, StepsAlwaysCounted, PTL

\* However many steps finish at once, the article is marked by the last of them, and by no
\* earlier one (lock_article, mark_enriched).
THEOREM EnrichedExactlyWhenCompleteHolds == Spec => EnrichedExactlyWhenComplete
<1>1. StepsAreCounted /\ EnrichedWhenComplete /\ [Next]_vars =>
        [~enriched /\ enriched' =>
           extraction' # "active" /\ \A p \in Processors : state'[p].status \notin ActiveStatuses]_vars
  BY EnrichedStep DEF MarkedWhenComplete
<1> QED
  BY <1>1, StepsAlwaysCounted, PTL DEF Spec, EnrichedExactlyWhenComplete, NotEnrichedEarly
=============================================================================
