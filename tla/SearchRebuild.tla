---------------------------- MODULE SearchRebuild ---------------------------
(***************************************************************************)
(* Building a new search index beside the live one and moving the alias to *)
(* it (backend/app/search/rebuild.py, driven by `rebuild-search` and       *)
(* `resume-search-rebuild` of backend/app/cli.py) while the archive goes   *)
(* on changing (request_indexing of backend/app/search/service.py).        *)
(*                                                                         *)
(* The deliveries below it are taken as what IndexDelivery promises, which *)
(* SearchDelivery is shown to implement.  There is one per index and       *)
(* article; it is "none" until its row is inserted.                        *)
(*                                                                         *)
(* A change to an article is a transaction of two steps, because what it   *)
(* reads of the targets is older than its commit: it holds the advisory    *)
(* lock 728341904 shared from before it reads them, and the coordinator's  *)
(* transactions take the lock exclusively.                                 *)
(***************************************************************************)
EXTENDS Batches

CONSTANTS
  None,
  Indices,       \* the index names ever created; bounds the rebuilds
  LastArticle,   \* articles are 1..LastArticle in the order of their ids
  Coordinators,  \* processes running the CLI command
  BatchSize,     \* scan_rebuild's batch_size
  MaxRevision    \* bounds the changes of one article

ASSUME RebuildConstants ==
  /\ None \notin Indices
  /\ LastArticle \in Nat
  /\ BatchSize \in Nat \ {0}
  /\ MaxRevision \in Nat \ {0}

Articles   == 1..LastArticle
Deliveries == Indices \X Articles

VARIABLES
  revision,      \* ArticleSearchState.requested_revision; 0 before the article exists
  change,        \* an article's open transaction and the targets it read
  role,          \* SearchIndexTarget.role
  rebuild,       \* status and scan cursor of the rebuild that made the index
  alias,         \* the indices behind articles-current
  refreshing,    \* some SourceSearchRefresh has not succeeded
  coordinator,   \* what each CLI process is doing
  requested, indexed, stored, outcome

queueVars == <<requested, indexed, stored, outcome>>
vars == <<revision, change, role, rebuild, alias, refreshing, coordinator, queueVars>>

Queue == INSTANCE IndexDelivery WITH Outdated <- {}

Roles    == {"none", "replacement", "current", "retained"}
Statuses == {"none", "scanning", "catching_up", "completed"}

Existing == {a \in Articles : revision[a] > 0}
Active   == {t \in Indices : rebuild[t].status \in {"scanning", "catching_up"}}

\* Mutant: an index is fed only from its cutover on.
FedCurrentOnly == {t \in Indices : role[t] = "current"}

\* What request_indexing feeds.
Fed == {t \in Indices : role[t] \in {"current", "replacement"}}

\* previous: the alias as it was read; promised: a history variable, the
\* revisions when cutover_intent_at was set.
Free == [pc |-> "free", index |-> None, previous |-> {}, promised |-> [a \in Articles |-> 0]]

NoChange == [open |-> FALSE, sees |-> {}]

TypeOK ==
  /\ revision \in [Articles -> Nat]
  /\ change \in [Articles -> [open : BOOLEAN, sees : SUBSET Indices]]
  /\ role \in [Indices -> Roles]
  /\ rebuild \in [Indices -> [status : Statuses, cursor : 0..LastArticle]]
  /\ alias \subseteq Indices
  /\ refreshing \in BOOLEAN
  /\ coordinator \in [Coordinators ->
       {Free} \cup [pc : {"scan", "decide", "switch", "commit"}, index : Indices,
                    previous : SUBSET Indices, promised : [Articles -> Nat]]]
  /\ requested \in [Deliveries -> Nat]
  /\ indexed \in [Deliveries -> Nat]
  /\ stored \in [Deliveries -> Nat]
  /\ outcome \in [Deliveries -> {"none", "open", "done", "failed"}]

\* Elasticsearch starts empty: articles may come before the first index.
Init ==
  /\ revision = [a \in Articles |-> 0]
  /\ change = [a \in Articles |-> NoChange]
  /\ role = [t \in Indices |-> "none"]
  /\ rebuild = [t \in Indices |-> [status |-> "none", cursor |-> 0]]
  /\ alias = {}
  /\ refreshing = FALSE
  /\ coordinator = [c \in Coordinators |-> Free]
  /\ requested = [d \in Deliveries |-> 0]
  /\ indexed = [d \in Deliveries |-> 0]
  /\ stored = [d \in Deliveries |-> 0]
  /\ outcome = [d \in Deliveries |-> "none"]

-----------------------------------------------------------------------------
(* The archive. *)

\* A transaction that creates or changes an article calls request_indexing: it
\* has taken the shared lock and the article's state row, and read the targets.
BeginChange(a) ==
  /\ ~change[a].open
  /\ revision[a] < MaxRevision
  /\ change' = [change EXCEPT ![a] = [open |-> TRUE, sees |-> Fed]]
  /\ UNCHANGED <<revision, role, rebuild, alias, refreshing, coordinator, queueVars>>

\* It commits the revision and one request for every target it saw.
CommitChange(a) ==
  /\ change[a].open
  /\ change'   = [change EXCEPT ![a] = NoChange]
  /\ revision' = [revision EXCEPT ![a] = @ + 1]
  /\ LET asked == change[a].sees \X {a} IN
     /\ requested' = [d \in Deliveries |-> IF d \in asked THEN revision[a] + 1 ELSE requested[d]]
     /\ outcome'   = [d \in Deliveries |-> IF d \in asked THEN "open" ELSE outcome[d]]
  /\ UNCHANGED <<role, rebuild, alias, refreshing, coordinator, indexed, stored>>

RollBackChange(a) ==
  /\ change[a].open
  /\ change' = [change EXCEPT ![a] = NoChange]
  /\ UNCHANGED <<revision, role, rebuild, alias, refreshing, coordinator, queueVars>>

\* The scheduler and the workers deliver; a failed delivery can be retried.
QueueStep(d) ==
  /\ Queue!Land(d) \/ Queue!Done(d) \/ Queue!GiveUp(d) \/ Queue!Retry(d)
  /\ UNCHANGED <<revision, change, role, rebuild, alias, refreshing, coordinator>>

\* A source was renamed, or the last refresh for one succeeded.
SourceRefreshes ==
  /\ refreshing' = ~refreshing
  /\ UNCHANGED <<revision, change, role, rebuild, alias, coordinator, queueVars>>

-----------------------------------------------------------------------------
(* The coordinator: run_search_rebuild of the CLI. *)

\* Mutant: without pg_advisory_xact_lock(728341904).
LockFreeAlways == TRUE

\* The exclusive lock waits for every transaction that holds it shared.
LockFree == \A a \in Articles : ~change[a].open

Enter(c, pc, t) == coordinator' = [coordinator EXCEPT ![c].pc = pc, ![c].index = t]
Leave(c) == coordinator' = [coordinator EXCEPT ![c] = Free]

\* create_rebuild, where no other rebuild is active.
CreateRebuild(c, t) ==
  /\ coordinator[c] = Free
  /\ role[t] = "none"
  /\ LockFree
  /\ Active = {}
  /\ role'    = [role EXCEPT ![t] = "replacement"]
  /\ rebuild' = [rebuild EXCEPT ![t].status = "scanning"]
  /\ Enter(c, "scan", t)
  /\ UNCHANGED <<revision, change, alias, refreshing, queueVars>>

\* resume-search-rebuild: nothing asks whether another process is at it.
ResumeRebuild(c, t) ==
  /\ coordinator[c] = Free
  /\ rebuild[t].status # "none"
  /\ Enter(c, "scan", t)
  /\ UNCHANGED <<revision, change, role, rebuild, alias, refreshing, queueVars>>

\* scan_rebuild: the rows a request has already inserted stay as they are; the
\* state row of every article in the batch is locked while it is scanned.
ScanBatch(c, batch) ==
  LET t == coordinator[c].index
      added == {d \in {t} \X batch : outcome[d] = "none"}
  IN
  /\ coordinator[c].pc = "scan"
  /\ rebuild[t].status = "scanning"
  /\ IsBatch(batch, Existing, rebuild[t].cursor, BatchSize)
  /\ \A a \in batch : ~change[a].open
  /\ requested' = [d \in Deliveries |-> IF d \in added THEN revision[d[2]] ELSE requested[d]]
  /\ outcome'   = [d \in Deliveries |-> IF d \in added THEN "open" ELSE outcome[d]]
  /\ \E last \in 0..LastArticle :
       /\ IsCursor(last, batch, rebuild[t].cursor)
       /\ rebuild' = [rebuild EXCEPT ![t] =
            [status |-> IF LastBatch(batch, BatchSize) THEN "catching_up" ELSE "scanning",
             cursor |-> last]]
  /\ UNCHANGED <<revision, change, role, alias, refreshing, coordinator, indexed, stored>>

\* The scan returned 0; try_cutover asks Elasticsearch for the alias.
ReadAlias(c) ==
  /\ coordinator[c].pc = "scan"
  /\ rebuild[coordinator[c].index].status # "scanning"
  /\ coordinator' = [coordinator EXCEPT ![c].pc = "decide", ![c].previous = alias]
  /\ UNCHANGED <<revision, change, role, rebuild, alias, refreshing, queueVars>>

\* Mutant: only failed deliveries are counted.
OutstandingFailedOnly(t) == \E a \in Articles : outcome[<<t, a>>] = "failed"

Outstanding(t) ==
  \E a \in Articles :
    indexed[<<t, a>>] < requested[<<t, a>>] \/ outcome[<<t, a>>] = "failed"

NotCaughtUp(t) == Outstanding(t) \/ refreshing

\* The first transaction of try_cutover goes on; Elasticsearch is asked to move
\* the alias only where it had not been moved when it was read.
DecideCutover(c) ==
  LET t == coordinator[c].index IN
  /\ coordinator[c].pc = "decide"
  /\ LockFree
  /\ rebuild[t].status = "catching_up" /\ ~NotCaughtUp(t)
  /\ coordinator' = [coordinator EXCEPT
       ![c].pc = IF t \in coordinator[c].previous THEN "commit" ELSE "switch",
       ![c].promised = revision]
  /\ UNCHANGED <<revision, change, role, rebuild, alias, refreshing, queueVars>>

\* It returns early: nothing left to do, or not yet.
DeclineCutover(c) ==
  LET t == coordinator[c].index IN
  /\ coordinator[c].pc = "decide"
  /\ LockFree
  /\ rebuild[t].status = "completed" \/ NotCaughtUp(t)
  /\ Leave(c)
  /\ UNCHANGED <<revision, change, role, rebuild, alias, refreshing, queueVars>>

\* One _aliases request, outside any transaction: removes what was read, adds the
\* new index; removing an index that is no longer there does nothing.
SwitchAlias(c) ==
  /\ coordinator[c].pc = "switch"
  /\ alias' = (alias \ coordinator[c].previous) \cup {coordinator[c].index}
  /\ coordinator' = [coordinator EXCEPT ![c].pc = "commit"]
  /\ UNCHANGED <<revision, change, role, rebuild, refreshing, queueVars>>

\* Mutant: the target takes its rebuild's status for its role.
PromotedCompleted(t) ==
  [x \in Indices |->
     IF role[x] = "current" THEN "retained" ELSE IF x = t THEN "completed" ELSE role[x]]

\* UPDATE ... SET role = 'retained' WHERE role = 'current', then target.role =
\* "current": of a target loaded as current the session writes nothing, and the
\* UPDATE stands.
Promoted(t) ==
  [x \in Indices |->
     IF role[x] = "current" THEN "retained" ELSE IF x = t THEN "current" ELSE role[x]]

\* The second transaction, which checks again what may have changed meanwhile
\* but not whether the rebuild has been completed.
CompleteCutover(c) ==
  LET t == coordinator[c].index IN
  /\ coordinator[c].pc = "commit"
  /\ LockFree
  /\ ~NotCaughtUp(t)
  /\ role'    = Promoted(t)
  /\ rebuild' = [rebuild EXCEPT ![t].status = "completed"]
  /\ Leave(c)
  /\ UNCHANGED <<revision, change, alias, refreshing, queueVars>>

PostponeCutover(c) ==
  /\ coordinator[c].pc = "commit"
  /\ LockFree
  /\ NotCaughtUp(coordinator[c].index)
  /\ Leave(c)
  /\ UNCHANGED <<revision, change, role, rebuild, alias, refreshing, queueVars>>

\* The process dies, or an exception (Elasticsearch is down) ends it.
Crash(c) ==
  /\ coordinator[c] # Free
  /\ Leave(c)
  /\ UNCHANGED <<revision, change, role, rebuild, alias, refreshing, queueVars>>

-----------------------------------------------------------------------------
Next ==
  \/ \E a \in Articles : BeginChange(a) \/ CommitChange(a) \/ RollBackChange(a)
  \/ \E d \in Deliveries : QueueStep(d)
  \/ SourceRefreshes
  \/ \E c \in Coordinators :
       \/ \E t \in Indices : CreateRebuild(c, t) \/ ResumeRebuild(c, t)
       \/ \E batch \in SUBSET Articles : ScanBatch(c, batch)
       \/ ReadAlias(c) \/ DecideCutover(c) \/ DeclineCutover(c) \/ SwitchAlias(c)
       \/ CompleteCutover(c) \/ PostponeCutover(c) \/ Crash(c)

Spec == Init /\ [][Next]_vars

-----------------------------------------------------------------------------
(* Fairness.  The queue's outages end (SearchDelivery), failed deliveries are
   retried, and the operator resumes a rebuild until it completes, as README.md
   asks, in the end without being interrupted.  PostgreSQL serves a lock in
   turn: no later transaction overtakes a coordinator that waits. *)

LocksAreServedInTurn ==
  \A a \in Articles : ~change[a].open /\ change'[a].open
     => \A c \in Coordinators : coordinator[c].pc \notin {"scan", "decide", "commit"}

Coordinate(c) ==
  \/ \E batch \in SUBSET Articles : ScanBatch(c, batch)
  \/ ReadAlias(c) \/ DecideCutover(c) \/ DeclineCutover(c) \/ SwitchAlias(c)
  \/ CompleteCutover(c) \/ PostponeCutover(c)

Fairness ==
  /\ \A a \in Articles : WF_vars(CommitChange(a) \/ RollBackChange(a))
  /\ \A d \in Deliveries :
       /\ SF_vars(QueueStep(d) /\ stored'[d] = requested[d] /\ stored[d] # requested[d])
       /\ SF_vars(QueueStep(d) /\ outcome'[d] = "done")
       /\ WF_vars(QueueStep(d) /\ outcome[d] = "failed")
  /\ \A t \in Indices :
       SF_vars(\E c \in Coordinators : rebuild[t].status # "completed" /\ ResumeRebuild(c, t))
  /\ \A c \in Coordinators : WF_vars(Coordinate(c))

CrashesCease == <>[][\A c \in Coordinators : Crash(c) => Coordinate(c)]_vars

FairSpec == Init /\ [][Next]_vars /\ Fairness

-----------------------------------------------------------------------------
(* Properties. *)

\* Once its scan is over, an index has missed no change of any article, whenever the
\* article was created and wherever the cursor was then: by a request or by the scan,
\* each was asked for at its newest revision (request_indexing and scan_rebuild, held
\* together by the advisory lock).
ScannedIndexMissesNothing ==
  \A t \in Indices, a \in Existing :
    rebuild[t].status = "catching_up" => requested[<<t, a>>] = revision[a]

\* Nor does it miss one after its cutover, for as long as it is fed; an index that is
\* not fed for a while must not come back (request_indexing and try_cutover).
FedIndexMissesNothing ==
  \A t \in Fed, a \in Existing :
    rebuild[t].status # "scanning" => requested[<<t, a>>] = revision[a]

\* While a coordinator is about to move the alias, or has, its index holds every
\* revision that existed when it decided to (try_cutover's first transaction).
CaughtUpBeforeCutover ==
  \A c \in Coordinators, a \in Articles :
    coordinator[c].pc \in {"switch", "commit"} =>
      stored[<<coordinator[c].index, a>>] >= coordinator[c].promised[a]

\* The index that Search reads goes on receiving changes, also after a crash
\* between moving the alias and recording it.
SearchedIndexIsFed == alias \subseteq Fed

\* A retained index is never read again behind Search's back: the alias names one
\* index, and one target is current from the first completed rebuild on.
OneLiveIndex ==
  /\ Cardinality(alias) <= 1
  /\ Cardinality({t \in Indices : role[t] = "current"}) <= 1
  /\ (\E t \in Indices : rebuild[t].status = "completed") => \E t \in Indices : role[t] = "current"

\* Search always has one live index that goes on receiving changes (try_cutover and
\* request_indexing).
SearchIsServed == SearchedIndexIsFed /\ OneLiveIndex

\* A rebuild that is resumed until it completes does complete, and then the
\* alias is on its index (README.md:203).
RebuildCompletes ==
  <>[]~refreshing /\ CrashesCease /\ <>[][LocksAreServedInTurn]_vars =>
    \A t \in Indices :
      rebuild[t].status # "none" ~>
        rebuild[t].status = "completed" /\ (alias = {t} \/ role[t] = "retained")
=============================================================================
