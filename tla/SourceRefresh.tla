---------------------------- MODULE SourceRefresh ---------------------------
(***************************************************************************)
(* Renaming a source (update_feed of backend/app/feeds/routes.py) and the  *)
(* refresh that takes the new name to its articles in the search index:    *)
(* request_source_refresh and process_source_refresh of                    *)
(* backend/app/search/service.py, run by schedule_source_refreshes of      *)
(* backend/app/scheduler.py.                                               *)
(*                                                                         *)
(* One source.  A name is the number of renames before it.  What becomes   *)
(* of a requested article is SearchDelivery's subject; here it is          *)
(* delivered some time later with the name of that moment.                 *)
(***************************************************************************)
EXTENDS Batches, Sequences

CONSTANTS
  LastArticle,   \* articles are 1..LastArticle in the order of their ids
  BatchSize,     \* process_source_refresh's batch_size
  MaxName        \* bounds the renames

ASSUME SourceRefreshConstants ==
  LastArticle \in Nat /\ BatchSize \in Nat \ {0} /\ MaxName \in Nat

Articles == 1..LastArticle

VARIABLES
  name,          \* the committed name of the source
  rename,        \* the open transaction of a rename, and what it found
  refreshes,     \* the SourceSearchRefresh rows, in the order of their ids
  listed,        \* the articles discovered in the source
  pending,       \* those whose newest revision is not in the index yet
  asked,         \* a history variable: the name when the article was last requested
  shown          \* the name the article's document in the index carries

vars == <<name, rename, refreshes, listed, pending, asked, shown>>

Refreshes == [status : {"queued", "running", "succeeded"}, cursor : 0..LastArticle,
              since : 1..MaxName]      \* since: the rename it was created for

TypeOK ==
  /\ name \in 0..MaxName
  /\ rename \in [open : BOOLEAN, active : BOOLEAN]
  /\ refreshes \in Seq(Refreshes)
  /\ listed \subseteq Articles /\ pending \subseteq listed
  /\ asked \in [Articles -> 0..MaxName] /\ shown \in [Articles -> 0..MaxName]

NoRename == [open |-> FALSE, active |-> FALSE]

Init ==
  /\ name = 0
  /\ rename = NoRename
  /\ refreshes = <<>>
  /\ listed \in SUBSET Articles
  /\ pending = {}
  /\ asked = [a \in Articles |-> 0] /\ shown = [a \in Articles |-> 0]

-----------------------------------------------------------------------------
\* request_indexing for these articles.
Request(articles) ==
  /\ pending' = pending \cup articles
  /\ asked' = [a \in Articles |-> IF a \in articles THEN name ELSE asked[a]]

\* Mutant: the request, but not the discovery.
ArticleChangesUnlinked(a) ==
  /\ Request({a})
  /\ UNCHANGED <<name, rename, refreshes, listed, shown>>

\* Ingestion finds the article in the source, or some stage changes it.
ArticleChanges(a) ==
  /\ listed' = listed \cup {a}
  /\ Request({a})
  /\ UNCHANGED <<name, rename, refreshes, shown>>

\* A worker reads the document and delivers it.
Deliver(a) ==
  /\ a \in pending
  /\ pending' = pending \ {a}
  /\ shown' = [shown EXCEPT ![a] = name]
  /\ UNCHANGED <<name, rename, refreshes, listed, asked>>

ActiveRefresh == \E i \in DOMAIN refreshes : refreshes[i].status \in {"queued", "running"}

\* update_feed: the query for an active refresh flushes the UPDATE first, so that
\* renames of one source wait for each other; the refresh itself is not locked.
BeginRename ==
  /\ ~rename.open
  /\ name < MaxName
  /\ rename' = [open |-> TRUE, active |-> ActiveRefresh]
  /\ UNCHANGED <<name, refreshes, listed, pending, asked, shown>>

CommitRename ==
  /\ rename.open
  /\ name' = name + 1
  /\ refreshes' = IF rename.active THEN refreshes
                  ELSE Append(refreshes, [status |-> "queued", cursor |-> 0, since |-> name + 1])
  /\ rename' = NoRename
  /\ UNCHANGED <<listed, pending, asked, shown>>

RollBackRename ==
  /\ rename.open
  /\ rename' = NoRename
  /\ UNCHANGED <<name, refreshes, listed, pending, asked, shown>>

\* process_source_refresh: one batch in one transaction.
RefreshBatch(i, batch) ==
  /\ refreshes[i].status # "succeeded"
  /\ IsBatch(batch, listed, refreshes[i].cursor, BatchSize)
  /\ Request(batch)
  /\ \E last \in 0..LastArticle :
       /\ IsCursor(last, batch, refreshes[i].cursor)
       /\ refreshes' = [refreshes EXCEPT
            ![i].status = IF LastBatch(batch, BatchSize) THEN "succeeded" ELSE "running",
            ![i].cursor = last]
  /\ UNCHANGED <<name, rename, listed, shown>>

RefreshStep == \E i \in DOMAIN refreshes, batch \in SUBSET listed : RefreshBatch(i, batch)

Next ==
  \/ \E a \in Articles : ArticleChanges(a) \/ Deliver(a)
  \/ BeginRename \/ CommitRename \/ RollBackRename
  \/ RefreshStep

Spec == Init /\ [][Next]_vars

\* The scheduler goes on, and the index catches up with what was requested; a
\* request transaction ends.
Fairness ==
  /\ WF_vars(RefreshStep)
  /\ \A a \in Articles : WF_vars(Deliver(a))
  /\ WF_vars(CommitRename \/ RollBackRename)

FairSpec == Spec /\ Fairness

-----------------------------------------------------------------------------
\* A refresh that succeeded has asked for every article of the source at the name
\* it was created for, also those discovered while it ran at ids its cursor had
\* passed (process_source_refresh).
FinishedRefreshAskedForAll ==
  \A i \in DOMAIN refreshes :
    refreshes[i].status = "succeeded" => \A a \in listed : asked[a] >= refreshes[i].since

\* A name that a refresh was created for reaches the index with every article of
\* the source, or a later one does, whatever is discovered or renamed meanwhile.
RefreshedNameReachesIndex ==
  \A n \in 1..MaxName, a \in Articles :
    a \in listed /\ (\E i \in DOMAIN refreshes : refreshes[i].since = n) ~> shown[a] >= n

\* "Reindex a source's articles after its name changes" (processes/summary.py:62):
\* with no refresh under way and nothing left to deliver, the index shows the name.
QuietIndexShowsSourceName ==
  ~ActiveRefresh /\ pending = {} => \A a \in listed : shown[a] = name
=============================================================================
