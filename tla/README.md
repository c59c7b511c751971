# NewsIntel in TLA+

NewsIntel polls news feeds, fetches the articles' pages, annotates them, groups
them into stories and events, and keeps a search index, watches and an entity
authority file over them. Its processes — the API, a scheduler, Dramatiq workers,
an NLP worker, a CLI — share one PostgreSQL database and never call each other:
each stage writes the next stage's job row in the transaction of its own results,
and the scheduler claims due rows under leases (`README.md`, section 3). The claim
this design makes, that crashes, retries, lost messages and outages cost latency
and never data, is what this project is about, together with what the site
makes of the results: stories, entities, watches, and the numbers and lists it shows.

Paths of source files below are relative to `backend/app/` unless they say otherwise.

- [Inventory](#inventory) · [Modules](#modules) · [How the models read the code](#how-the-models-read-the-code)
- [What each run checks](#what-each-run-checks) · [Fairness](#fairness) · [What is proved](#what-is-proved)
- [Where code and text disagree](#where-code-and-text-disagree) · [What is not modelled](#what-is-not-modelled) · [Plan](#plan)

To check a run: `tlc -config X.cfg M`, with M from the table of runs. To check the
proofs: `tlapm SearchDeliveryProofs.tla`, and so on.

## Inventory

| Component | State it keeps | Operations | Hard behaviour | What makes it correct | Here |
| --- | --- | --- | --- | --- | --- |
| Leases (`jobs/leasing.py`) | `status`, `next_attempt_at`, `claim_token`, `claim_expires_at`, `attempt_count` on every queue row | claim, holds, release, record_failure | a lease that runs out under a living worker; attempts counted at the claim | one outcome per claim; no row is left active for ever | `Leasing` |
| Search delivery (`search/service.py`, `indexing.py`, `elasticsearch.py`) | `article_search_states`, `search_deliveries` | request_indexing, claim, load, bulk write, acknowledge, fail, retry | snapshot read before the write; a timed-out write that lands later; per-item outcomes | the index never goes back; a delivery that succeeded delivered the newest revision | `SearchDelivery`, `IndexDelivery` |
| Index rebuild (`search/rebuild.py`, `cli.py`) | targets and roles, rebuild status and cursor, the alias | create, scan, try_cutover, resume | articles change while it scans; the alias and the database are two systems; the process dies between them | no article is missed; Search always reads an index that is fed | `SearchRebuild` |
| Source refresh (`search/service.py`, `feeds/routes.py`) | `source_search_refreshes` | request on a rename, one batch per round | renames and discoveries while it runs | the index ends up with the source's name | `SourceRefresh` |
| NLP jobs and enrichment (`nlp/service.py`, `nlp/execution.py`, `articles/enrichment.py`) | state and jobs per processor, annotation runs, `enriched_at` | request, claim, load, heartbeat, publish, supersede, fail, mark_enriched | input changed under a running job; last steps of one article that end together | annotations match the newest request; an article is marked exactly when its last step ends | `NlpPipeline` |
| Article pages (`articles/service.py`, `processing.py`, `maintenance.py`, `storage*.py`) | processing jobs, attempts, contents, objects in the store | request, retry, claim, start_attempt, fetch, extract, delete_after_commit, cleanup | an object store beside a database; leases without heartbeat; two overlapping retries | no page that is referred to is deleted; every request ends | `ArticleProcessing` |
| Scheduler (`scheduler.py`) | none of its own | one step per queue, each on its own | a step that raises; a message lost after its claim | every due row is claimed again | the claim actions of the modules above |
| Actors and broker (`jobs/`) | messages | send, redeliver | lost, repeated and late messages | at most one effect per claim | the messages of the modules above |
| Feeds (`feeds/`) | feeds, fetches, articles, feed_articles | claim_feed, fetch_now, send, ask the address, persist, finish, fail, abandon, switch, move, retire | a lease that runs out while a fetch is under way; a message that comes twice; a send that fails after the queue took the message; "not modified" | a fetch that nobody will end is ended by the next claim; a success stays one, unless a user waits for its send; what is skipped was stored with its titles | `Feeds` |
| Authority file (`entities/authority.py`, `relations.py`, `transfer.py`) | names, roots, variants, choices, links, claims, items; authority runs; article rows | merge, bulk, split, claims, imports, links, marks; runs in batches; what NER writes | merges of the same names at once; NER between the batches; runs that meet | a variant points at a root; no mention is lost; every article ends under its root; search keeps finding it | `AuthorityFile` |
| Stories (`clustering/`) | jobs, stories, members | request, assign, merge, refresh, retire | stories that meet, grow, split; an article read again | stored facts are of the members; a moved article is indexed | `Stories` |
| Events (`events/`) | events, event_clusters, runs | associate, refresh, reconcile | stories that merge while they are decided; clocks of two transactions | in the end every event shows its stories' articles | `Stories` |
| Watches (`monitors/`) | cursors, unseen counts, claims | claim, evaluate, publish, edit, switch, view, delete | edits and views during an evaluation; an index that lags | each article counts once | `Watches` |
| Notifications (`notifications/`) | settings, what is owed | claim, read, send, take off, end | dying between sending and taking off; matches and views in between | nothing owed is forgotten | `Watches` |
| Wikidata (`wikidata/`) | links, candidates, cache, runs, throttle | search, refresh, link, unlink, dismiss, approve, stop | a run that goes from worker to worker; a shared pace and budget | a run ends once, having come to every root | `Wikidata` |
| Processes page, retention (`processes/`, `operations/`) | none of their own (reads the histories) | cards, lists, retry, run now, stop, prune | acting on rows that workers hold; queries that must agree | what is pruned is superseded; views agree | `Processes` |
| Reading (`search/`, `graph/`, `compare/`, `events/`, `sources/`, `entities/`, `monitors/results.py`) | none (a snapshot in Elasticsearch) | search, export, facets, timeline, graph, evidence, compare, pages | the archive changes between two pages, and between a number and its list | a page list shows once what stayed; a number is its list's length | `Readings` |
| Sign-in, investigations, marks, maps, OPML, text and language functions, frontend, migrations | plain rows or none | — | — | — | not modelled, reasons in `PROJECT.json` |

They interact only through rows and two locks: a row inserted or requeued in the
producer's transaction (`request_indexing`, `request_article_nlp`,
`request_processing`, `request_clustering`), the row lock on the article, and the
advisory locks (728341904 between changes and the rebuild's coordinator, one per
stored page between jobs and cleanup, 728341906 and 728341907 around the assignment
of stories and the decision of events, 0x57494B49 around queueing Wikidata sweeps).

The hazards, each at its line, with the properties that would catch it, are in
`PROJECT.json`.

## Modules

| Module | Models | Built on |
| --- | --- | --- |
| `Leasing` | `jobs/leasing.py`: the operators on one queue row | — |
| `IndexDelivery` | the promise of a delivery, as an abstract machine: request, land, done, give up, retry | — |
| `SearchDelivery` | one queue of deliveries with scheduler, broker, workers, Elasticsearch | `Leasing`; implements `IndexDelivery` |
| `SearchDeliveryProofs` | its theorems | `SearchDelivery` |
| `SearchRebuildProofs`, `SourceRefreshProofs`, `NlpPipelineProofs`, `ArticleProcessingProofs`, `AuthorityFileProofs`, `StoriesProofs` | their theorems | the module of that name |
| `ServicesProofs` | the theorems of `Feeds`, `Watches`, `Processes`, `Wikidata` and `Readings`, and of the five together | `MCServices` |
| `Batches` | `WHERE id > cursor ORDER BY id LIMIT n`, the cursor scan of rebuild and refresh | — |
| `SearchRebuild` | the rebuild above the deliveries, which it takes as `IndexDelivery` | `Batches`, `IndexDelivery` |
| `SourceRefresh` | renames and the refreshes they start | `Batches` |
| `NlpPipeline` | one article's text processing until it is enriched | `Leasing` |
| `ArticleProcessing` | one article's pages: jobs, object store, retries, cleanup | `Leasing` |
| `AuthorityFile` | names, roots and their runs, with the article rows they move | `Batches` |
| `Stories` | stories and events: assignment, decision, reconciliation | — |
| `Watches` | one watch, its evaluations and its messages | `Leasing` |
| `Feeds` | one feed, its fetches and what they store | `Leasing` |
| `Wikidata` | links, candidates, runs, cache, throttle | `Leasing` |
| `Processes` | the history of a process, what the page shows of it and does to it, cleanup | `Leasing` |
| `Readings` | what is read of an archive that goes on changing | `Leasing` |
| `MCServices` | the last five side by side, one at a time | the five |
| `MC*` | model values, symmetry, views | the module of that name |

The delivery queue is thus in the project twice, once as a promise and once as a
mechanism. `SearchDelivery` is shown to implement the promise (by TLC on an
instance, by TLAPS for all of them), and `SearchRebuild` steps the promise
(`QueueStep`) instead of leases, messages and workers. It adds that a row need not
exist yet: until a request or the scan inserts it, its outcome is "none" and nothing is
requested of it, and no action of `IndexDelivery` but `Request` is enabled. That the rows
which `SearchRebuild` inserts and asks for itself are again what `IndexDelivery` says, from
before they exist and across every cutover, is the theorem `EachRowIsADelivery`.

### How state and actions correspond to the code

- **A queue row** (`Leasing`). `due` is `next_attempt_at <= now`, `leased` is
  `claim_expires_at > now`; actions `LeaseExpires` and `BackoffEnds` let the clock
  flip either comparison at any moment. The code's `uuid4` is a token that nothing
  refers to any more; sets of tokens bound the claims that are referred to at one
  time, not how many there are. The attempt counter stops at its limit, because the
  code only asks whether it was reached.
- **`SearchDelivery`**: `RequestIndexing` is `request_indexing` on one row;
  `ClaimDelivery` an iteration of `schedule_due_search`, in which the message may be
  lost after the commit; `Load`/`LoadStale` are `_load_document`, the REPEATABLE READ
  snapshot; `WriteApplied`, `WriteConflicts`, `WriteUnavailable`, `WriteRejected` are
  the answers to the bulk request as `result_outcome` reads them; `Acknowledge` is
  `_acknowledge`, `FailAttempt` is `_fail`. A document is its revision, because a
  change and its request commit together. `late` holds writes whose request timed out
  and that Elasticsearch may still apply. Mappings and chunking by size are not in the
  model: each document's outcome is its own.
- **`SearchRebuild`**: `BeginChange` … `CommitChange` is a transaction that calls
  `request_indexing`: it reads the targets early and commits late, under the shared
  advisory lock. `ScanBatch` is one transaction of `scan_rebuild`. `try_cutover` is
  four steps: reading the alias (`ReadAlias`), its first transaction
  (`DecideCutover`, `DeclineCutover`), the `_aliases` request (`SwitchAlias`), its
  second transaction (`CompleteCutover`, `PostponeCutover`); the process may die
  before each. `Promoted` is what SQLAlchemy makes of the two assignments of the
  second transaction: of a target that was loaded as current it writes nothing back.
- **`SourceRefresh`**: a rename reads whether a refresh is active before it commits;
  `RefreshBatch` is `process_source_refresh`. What becomes of a request is
  `SearchDelivery`'s subject: here it is delivered some time later (`Deliver`).
- **`NlpPipeline`**: `job[p][g]` is the job of generation g, `requested_generation`
  the length of `job[p]`. `Ingest`, `Reprocess`, `ExtractionSucceeds` are the callers
  of `request_article_nlp`, each with the processors it cannot skip and any more it is
  made to ask (a forced request, another setting). `_publish` is two steps,
  `BeginPublish` (the article's row lock, and what `mark_enriched` saw) and
  `CommitPublish`; the other transactions have no other commit in their middle that
  would change their effect. `NewRelease` is a new version of `build_input_document`.
- **`ArticleProcessing`**: `process_claim` is its transactions and the calls to the
  store between them: `StartAttempt`, `FetchPage` (put), `CommitFetch` or `DropFetch`;
  `ReadHtml` (get), `RequeueFetch` or `CommitExtract`, and `DeleteAfterCommit`.
  Cleanup is three steps, because it locks keys, asks the contents, and then asks the
  jobs. `retry_processing` is two: what `db.get` read stays in the session, also
  through the later `SELECT … FOR UPDATE`, which refreshes nothing unless
  `populate_existing` is set. The age of a page is left out: any page may have
  reached the minimum age.
- **`AuthorityFile`**: an article's rows hold mentions, and each mention remembers whose
  it is (`of`, what NER read) beside what the code keeps (`tag`, `observed`), so that
  what a split gives back can be compared with what was taken. A request is one step; a
  merge is two (`BeginMerge`, `CommitMerge`), because it reads its root without a lock.
  A request that ties several names to a root (`claim_name`, an import, an item's labels)
  does so one name after another, each checked against what the ones before have left:
  `TiedInTurn` is that loop. The scheduler's cycle takes the open runs in order: `due`
  are the ones it still has to come to, `StartCycle` fills it, and `AdvanceRun` advances
  the least of them by one batch. `Publish` is what NER writes for a reading.
  `QuietRowsAreTheRoots` speaks of the name a row keeps (`NameOf`) and not of the name
  the article used, because the two may differ (`Authority_mistag.cfg`).
- **`Stories`**: whether two articles score above the threshold is the set `alike`;
  which of the events a story may go to is chosen freely among those the code looks at.
  `Begin` is the moment a transaction's `updated_at` will say, `Publish` its effect under
  the lock of all assignments. `ReadEvent`/`WriteEvent` are the refresh that a run of the
  authority file makes without that lock.
- **`Watches`**: an evaluation is `Evaluate` (the watch is read, the index asked) and
  `PublishWindow`, `DropWindow` or `EvaluationFails`; a message `ReadOwed`, `Send`,
  `TakeOff`, `EndDelivery`. Time is a few moments; the settle time is one of them.
- **`Feeds`**: an address serves editions of entries, and answers "not modified" to a
  validator that is not older. `Persist` is `_persist_success` over all entries of an
  edition (`Stored` for each), with the conflict on a feed's guid or article. Who has
  claimed a fetch stays in `sender` until its send has come back: `SendFails` may come
  after the queue has taken the message and a worker has answered it. `next_poll_at` is
  left out: the scheduler reads it in an earlier transaction than the claim, which does
  not ask for it again.
- **`Wikidata`**: a run is handed by a notice to a worker that takes a batch, asks (the
  throttle's slot, the answer), writes what it found and saves its place; the other
  workers, the user's link and stop come in between. Scoring a root may take further
  requests (`AskClasses`), each with a slot of its own. `owes` is what a sweep must come to.
- **`Processes`**: one process's rows; each card, list, failure list and health is an
  operator over them, written as its query is. Rows change as their own module says.
- **`Readings`**: `facts` are the tables, `documents` the index, and a reading is a
  number (if the view has one) and pages, each page of the archive as it is by then, or
  of the snapshot a search opened. A page is a set of rows that come before all that are
  left (`AreFirst`), the cursor is the key of its last row; within a page the order says
  nothing more. `stayed` is what was in the list, at its place, at every page.

## How the models read the code

- **A transaction is one step** unless another may commit in its middle with an effect
  on it; then it is two, as said above. READ COMMITTED statements that only ever read
  rows the transaction has locked are one step. Waits for locks inside a transaction,
  and deadlocks that PostgreSQL breaks, are not in the models (listed under hazards).
- **A crash** drops what a process was doing and nothing that was committed.
- **A message** may be lost, repeated or late: `SearchDelivery` keeps the set of
  messages the broker has not seen acknowledged; in `NlpPipeline` and
  `ArticleProcessing` any idle worker may at any time receive the token a leased row
  carries, which is the same without the set.
- **`holds()`** compares the token and a `now` from before the transaction waited for
  its locks, so that a lease which has just run out may pass: `MayHold` and
  `MayNotHold` overlap there.

## What each run checks

| Run (module) | Bounds | Shows |
| --- | --- | --- |
| `SearchDelivery` (`MCSearchDelivery`) | 1 delivery, 2 workers, 2 tokens, 2 attempts, 2 revisions | `ReportsAreTrue` (what a row reports is stored, a success is current, a conflict means a newer request); `IndexNeverRegresses`; implements `IndexDelivery`; every delivery settles |
| `SearchRebuild` (`MCSearchRebuild`) | 2 indices one after the other, 1 article, 1 coordinator at a time, 2 revisions | `SearchIsServed` (the searched index is fed, one is live), `FedIndexMissesNothing`, `CaughtUpBeforeCutover`; `RebuildCompletes` |
| `SearchRebuild_two` | 1 index, 1 article, 2 coordinators | a disagreement, below |
| `SourceRefresh` | 3 articles, batches of 2, 2 renames | `FinishedRefreshAskedForAll`; `RefreshedNameReachesIndex` |
| `NlpPipeline` (`MCNlpPipeline`) | 2 processors, workers, tokens, texts and generations, 1 release, 2 attempts | `EnrichedExactlyWhenComplete`, `CurrentAnnotationsMatch`, `ActiveStateHasItsJob` |
| `ArticleProcessing` (`MCArticleProcessing`) | 2 workers, tokens, keys and jobs, 1 retry at a time, 2 attempts per stage, batches of 1 | `RetainedHtmlExists`, `ReferredPageIsNotDeleted`; `PageSettles` |
| `ArticleProcessing_retries` | 2 retries at a time, 3 jobs, 1 attempt | a disagreement, below |
| `Authority` (`MCAuthorityFile`) | 3 names (2 of one spelling), 2 articles, 2 requests of any kind one after another, 1 new reading, batches of 1 | `VariantPointsAtRoot`, `MentionsAreKept`, `QuietArchiveAgrees`, `SearchKeepsFindingArticles`; `EveryRunFinishes` |
| `Authority_split` | as above, the user not waiting for runs | a disagreement, below |
| `Stories` (`MCStories`) | 4 articles alike in a row, 2 outlets, 3 stories, 3 events, 1 open assignment, 3 changes | `StoriesCountTheirArticles`, `MovedArticlesAreIndexed`; `EventsSettle` |
| `Services` (`MCServices`) | 2 articles, 2 criteria, 4 moments; 2 addresses, 2 editions; 2 roots, 1 item, 2 runs; 3 rows, 4 hours; 3 articles, 2 stories, 2 events, pages of 1, 2 changes | `WatchCountsAreTrue`, `FetchesEndOnce`, `SkippedWasRead`, `RunsDoTheirWork`, `ActionsKeepTheHistory`, `ViewsAgree`, `PagesCoverWhatStayed`, `CountsMatchTheirEvidence` |
| `Watches_owed` (`MCWatches`) | 2 articles, 1 criteria, 4 moments | a disagreement, below |

Why these bounds are enough for the interesting cases:

- Two workers, because what can go wrong between claims is that one takes over what
  another is still doing; a third would take over from one of the two. Tokens are
  reused only when nothing refers to them, so two serve any number of claims.
- Two attempts, because the code tells apart the last attempt and the others; two
  revisions (with the first free), because a write is older than, equal to or newer
  than what is there. Rows of different deliveries do not meet, so one is enough
  (the theorems say it of any set of them).
- Deliveries to an index of an older schema (`Outdated`) are empty in the TLC
  instance, where they would only add deliveries that succeed unwritten; the theorems
  cover them.
- A scan with batches of one has a last batch, a full one before it and articles on
  either side of its cursor; the refresh with batches of two and up to three articles
  ends with an empty or with a partial last batch, after full ones or at once.
- `NlpPipeline` is checked up to a permutation of workers and tokens, of processors and
  of texts, with a `VIEW` that drops rows of ended jobs nothing reads any more.
- `Authority`: three names are a variant, its root and a third that either may be merged
  into, or a new name NER brings; two requests are enough for every pair of operations in
  either order, with a batch, a reading and a search between them. Three requests leave
  TLC's reach, and two at once are `Authority_chain.cfg`.
- `Stories`: with four articles in a row two pairs become stories and a change of the
  middle makes them one, or takes one apart; three changes are one to make two stories,
  one to join them and one to divide them.
- `Services`: the five modules share no state, so that running them together would only
  multiply their states. A behaviour moves one of them; three are moved twice, each time
  without what the other has (`MCServices`). Two articles or editions because one is
  counted, or read, before and one after; two roots with batches of one because a sweep
  then has a cursor between them; rows of one thing, because the page compares rows of a
  thing and counts things; pages of one row, so that every place is a boundary, with two
  changes between pages (a row that leaves and one that comes).
- `CHECK_DEADLOCK FALSE` is set where the system really may rest: everything that was
  asked for is done, and the bound on requests is reached. `SourceRefresh` never rests.

## Fairness

What the liveness properties assume, and why the code justifies it:

- *The clock runs and the scheduler loop does not stop* (`scheduler.run_scheduler`
  catches the exceptions of every step): weak fairness of lease expiry and backoff,
  strong fairness of a claim whose message arrives, since a claim may be interrupted
  by other claims and a send may fail any finite number of times.
- *A worker goes on or dies*: weak fairness of each worker's next step. A crash is
  never prevented by fairness; the properties assume that crashes are not endless.
- *A lease outlasts its work* from some time on (`LeaseOutlastsWork`,
  `TimesAreLongEnough`): leases are 300 s against one request of 30 s, and a page must
  be a day old before cleanup may take it. Before that time leases may run out at any
  moment. The safety properties do not assume it.
- *The outage run's fairness*: Elasticsearch comes back however often it is down.
- *Rebuild*: the operator resumes it until it completes, as `README.md:203` asks;
  failed deliveries are retried; source refreshes end; PostgreSQL serves the advisory
  lock in turn (`LocksAreServedInTurn`).
- *Refresh*: its step runs again and again; requests are delivered.
- *Authority runs*: `scan_authority_runs` is called again and again and takes every open
  run; a transaction commits or is rolled back.
- *Events*: `run_batch` decides every dirty story and reconciles, again and again. (It
  takes a hundred at a time; with more than that dirty at all times a story could wait,
  which the model leaves out.) A refresh that has read an event writes it.

`NlpPipeline` states no liveness property: its instance is too large for TLC's
liveness checking. `ActiveStateHasItsJob` stands in for it: a processor that is to run
always has exactly one job that can be claimed for it. `Services` states none either: an
address that always fails, a user who always edits or a worker that always dies may
keep a fetch, an evaluation or a run from ending, and the code does not prevent it.

## What is proved

For all sets of deliveries, workers, names, articles and so on, and all bounds, from
the assumptions on constants that each module names (`SearchConstants`,
`RebuildConstants`, `SourceRefreshConstants`, `NlpConstants`, `ArticleConstants`,
`AuthorityFileConstants`, `StoriesConstants`, `FeedConstants`, `WatchConstants`,
`WikidataConstants`, `ProcessBounds`, `ProcessesObserved`, `ReadingBounds`,
`ReadingTables`, `ReadingRequests`): they say that bounds are numbers, that tables given
as constants have the shape of their tables, and that a request is one its route accepts.

| Module | Theorem | States |
| --- | --- | --- |
| `SearchDeliveryProofs` | `TypeCorrect` | `Spec => []TypeOK` |
| | `IndexedIsStoredHolds` | what a delivery reports as indexed is in the index |
| | `SucceededIsCurrentHolds` | a succeeded row owes nothing |
| | `ConflictMeansNewerRequestHolds` | a 409 proves that a newer revision was requested |
| | `ReportsAreTrueHolds` | the three together, as the run checks them |
| | `IndexNeverRegressesHolds` | no step takes the index or the reported revision back |
| | `Refinement` | `SearchDelivery` implements `IndexDelivery` |
| `SearchRebuildProofs` | `TypeCorrect` | `Spec => []TypeOK` |
| | `ScannedIndexMissesNothingHolds` | a scanned index was asked for every newest revision |
| | `CaughtUpBeforeCutoverHolds` | the alias moves only to an index that holds what existed |
| | `FedIndexMissesNothingHolds` | with one coordinator at a time, a fed index misses nothing |
| | `SearchIsServedHolds` | with one coordinator at a time, Search reads an index that is fed |
| | `EachRowIsADelivery` | with one coordinator at a time, each row of `SearchRebuild`'s queue implements `IndexDelivery` |
| `SourceRefreshProofs` | `TypeCorrect` | `Spec => []TypeOK` |
| | `FinishedRefreshAskedForAllHolds` | a finished refresh asked for every article of its source |
| `NlpPipelineProofs` | `TypeCorrect` | `Spec => []TypeOK` |
| | `ActiveStateHasItsJobHolds` | a processor that is to run has exactly one job that can be claimed |
| | `CurrentAnnotationsMatchHolds` | current annotations are of the newest request and of the input as it is |
| | `EnrichedExactlyWhenCompleteHolds` | an article is marked in the step that ends the last of its work, and in no other |
| `ArticleProcessingProofs` | `TypeCorrect` | `Spec => []TypeOK` |
| | `RetainedHtmlExistsHolds` | with one retry of a job at a time, a page that is referred to is in the store |
| | `ReferredPageIsNotDeletedHolds` | on that premise, no step deletes a page referred to after it |
| `AuthorityFileProofs` | `VariantPointsAtRootHolds` | with one request at a time, a variant points at a root, and what the user said stays with roots |
| | `TypeCorrect` | with one request at a time, `Spec => []TypeOK` |
| | `MentionsAreKeptHolds` | with a user who waits for the runs of a name, no mention is lost or doubled by merges, splits and readings |
| | `QuietRowsAreTheRootsHolds` | with such a user, once the runs have ended every row is of the root of the names it keeps |
| | `QuietArchiveAgreesHolds` | and each article was last asked to be indexed with its entities as they are now |
| | `SearchKeepsFindingArticlesHolds` | with such a user, what a search for a name finds it goes on finding through merges, imports, claims and runs |
| `StoriesProofs` | `TypeCorrect` | `Spec => []TypeOK` |
| | `StoriesCountTheirArticlesHolds` | what a story stores is of its members |
| | `MovedArticlesAreIndexedHolds` | an article whose story changes is asked to be indexed with it |
| `ServicesProofs` | `FetchesEndOnceHolds` | a fetch without an outcome is the one that the next claim ends; a success stays one, but for the user's request that is still sending the message of that fetch |
| | `SkippedWasReadHolds` | where addresses go by ETags, what "not modified" skips is stored, with the titles the feed serves now |
| | `WatchCountsAreTrueHolds` | a watch counts each match once, while the index keeps up |
| | `ViewsAgreeHolds` | card, lists and health of a process agree |
| | `ActionsKeepTheHistoryHolds` | one unfinished row each, and a cleanup that takes and revives nothing |
| | `RunsDoTheirWorkHolds` | a Wikidata run ends once, and a finished sweep came to every root |
| | `PagesCoverWhatStayedHolds` | what stayed in a list is on exactly one of its pages |
| | `CountsMatchTheirEvidenceHolds` | a number is that of the list behind it, in every view, when nothing has changed since it was asked for |
| | `ServicesAreIndependent` | the run's one-at-a-time instance is a behaviour of each service's own specification |
| | `ServicesTypeOKHolds` | `ServicesSpec => []ServicesTypeOK` |

The premises are where the property fails without them, and a run shows each:

- `OneAtATime` (one coordinator of a rebuild): `SearchRebuild_two`.
- `[]OneRetryOfAJob`: `ArticleProcessing_retries`.
- `OneRequestAtATime` (`Parallel` is FALSE): `Authority_chain.cfg`.
- `PatientUser` (`Impatient` is FALSE): `Authority_split`, `Authority_merged.cfg`.
- `ETags` (no address goes by Last-Modified alone): `Feeds_moved.cfg`.
- `KeepsUp` (the index follows within `monitor_settle_seconds`): the outage of the
  index among the notes below.

**Search delivery.** None of the properties is inductive by itself: that a write is
accepted says nothing of what the acknowledgement will report, so the invariant
(`IndInv`) follows a revision through the worker. `NothingAheadOfRequest`: what is
stored, indexed, late or carried by a worker was requested. `AnswersHold`: what an
acknowledging worker was told is true of the index (a success is stored, a conflict
met something newer). `SettledIsFree`: a row that has ended belongs to nobody, so that
only a claim can put a worker on it. From these a conflict can only come from a newer
request, what is indexed is stored, and `SucceededIsCurrent` holds since a row succeeds
only where the acknowledged revision is the requested one and every new request puts it
back in the queue. For the refinement, claims, the clock and most worker steps
stutter; a write lands (`Land`) or, of an equal revision, stutters; an acknowledgement
is `Done`, `GiveUp` or a stutter.

**Rebuild.** The argument is the advisory lock: no role changes while a change is open,
so that an open change sees the targets as they are (`OpenChangesSeeFed`). Then of
every article and every index under construction either the newest revision has been
requested or the scan has yet to come to it (`BuildingMissesNothing`), which a batch
keeps because it leaves nothing behind its new cursor (`BatchLeavesNothing`). Hence
nothing outstanding means everything stored, and this goes on being true after the
decision, since nothing stored goes back. `RolesFollow` and `CoordinatorsFollow` tie
roles, statuses and the coordinators' progress together. `FedIndexMissesNothing` needs
`OneAtATime`: `CompleteCutover` does not ask whether the rebuild has completed, so that
of three coordinators in it the second makes the index retained and the third current
again, without what it missed in between. (The same omission as in
`SearchRebuild_two`.) For `SearchIsServed`, `AliasFollows` adds that
there is one alias, one active rebuild and one current target at most, that what the
coordinator has read of the alias is still so, and that between the two transactions of
its cutover the alias names its own index, which is fed as well.

`EachRowIsADelivery` maps one row (`Followed`, any of them) to `IndexDelivery`. A row that
is not there yet is owed the revision it would be inserted with (`AskedFor`), so that the
scan's insertion changes nothing and a change to an article is one `Request` of each row
that is fed or still missing. That it is one, and no request jumps over a revision, is
`FedIndexMissesNothing`'s invariant again, and so is the premise: with several
coordinators an index that has become current again is asked for the newest revision after
some that it was never asked for. What the queue does to a row is a step of the promise
because nothing can be done to a row that is not there (`RowsComeWithArticles`). One row at
a time, because a change requests every target's row in one step.

**Source refresh.** `PassedWasAsked`: what lies behind a refresh's cursor was asked for
at its name or a later one, by its own batches or by whoever listed the article there.

**Text processing.** `StepsAreCounted` ties a job to its state through all that happens
between a claim and its publication: the newest job is of the newest request
(`NewestJobIsAsked`), what was asked is the article as it is or as an earlier release read
it (`AskedOfThisRelease`), so that a job found stale does not become current again
(`StaleStaysStale`); a worker at work has its job (`WorkHasItsJob`), and who publishes
holds the article's row, so that its job still runs and what `mark_enriched` saw of the
other processors is still so at its commit (`PublisherHolds`). The mark then is set in the
step that ends the last of them (`MarkedWhenComplete`).

**Article pages.** A page has one owner (`PagesAreOwned`): it is one job's, or the
content's, or a worker's that has just stored it (`PagesHaveOneOwner`), and what a worker
is to delete after its commit is nobody's (`DoomedIsDead`); a claim that is still held is
worked for by one worker, which has its job's page (`HoldersAlone`, `HolderHasPage`); no
content has begun to refer to what cleanup is about to take since it asked
(`CleanerHasSeen`). Two retries of one job would give its page two owners.

**Authority file.** What is inductive is the file as a whole (`FileIsSound`): names that
point point at known roots, and links, items, claims, types and marks are of roots,
because `Joined` moves all of a variant's to its new root at once. A request over
several names is a loop of steps, each of which starts from what the ones before left
(`TiedInTurnIsSound`).

The rows need more than the file. `RunsNamed` and `RowsNamed`: runs and rows are of
entities that exist, which a run goes on relying on long after its request. Then the
state of the runs is tied to the rows (`RowsFit`), and each part is there for another
that would not be inductive without it:

- `RunsFit`: a run that moves rows is of a variant and a root above it (a merge) or of two
  roots (a split), and no two of them are about one name. This is what the user's waiting
  gives, and why `Impatient` breaks `MentionsAreKept`: a split whose name is merged into
  meanwhile gives back a second row.
- `RowFits` and `TagFits`: a row's entity is a root or has an open merge run to take it
  there; each name a row keeps has that entity as its root, or an open split that will give
  it back.
- `GivesBack`: where a split is under way, an article has no current row yet of the name it
  gives back. With it a split never meets a row it would double.
- `DueFits`: merges may follow one another (`v` into `r`, then `r` into `q`) and are advanced
  in the order of their requests. A cycle that has done with the first and not with the
  second has rows of `r` left to move, so that the second does not stop moving before the
  rows the first brings have come.

That a request preserves all of it is proved once for the steps requests are made of
(a name tied, a name split off, a mark, a run more: `Closed`, `ClosedBetween`), so that a
request over many names needs no argument of its own (`RequestStays`). `MentionsAreKept`
then is inductive beside `RowsFit` (`MentionsHeld`): a merge joins at most the two rows of
its names, a split divides one row into two.

What an article was last indexed with is a part more (`IndexTold`, of each article
`Told`), because a request reaches a document long before, or long after, its rows:

- Either the document is what it would be now, silent names left out, or the article is
  still to be asked for: it has a row of a variant, or of a root with a run that has not
  come to the article (`Covered`, `Renewed`, `Ahead`). A run that reindexes passes no
  article by: one with a row of its root that it has not asked for yet stays ahead of its
  cursor (`PassedBy`).
- Each entity in the document can be reached (`Reachable`): a current row has its root, or
  a split has still to come to the article and take it off a row of its root. Otherwise the
  widened search would find an article under a name it no longer has.

Requests keep it by the same steps as the rows (`ToldBut`, `ToldButClosed`). When the runs
have ended nothing is `Covered`, and `QuietArchiveAgrees` is what is left.
`SearchKeepsFindingArticles` is of a step: no request but a split, which the property
excepts, unties a name (`KeepsTies`, `RequestKeepsTies`), so that the widened search of a root finds
whatever the search of one of its variants found; and a document that is new names the root
of every row (`FreshIsFound`).

**Stories.** `StoriesAreKept` is inductive as the three properties together; the work is
in the assignment, which joins, divides and retires stories in one step (`Assigned`).

**Feeds, watches, processes, Wikidata, readings.** `FetchesAreAccounted`: a claim is of a fetch
that has not succeeded, so that whoever writes a failure only while the claim holds
overwrites no success; with `FeedStores` a validator stands for an edition that is stored entry by entry
(`HasEdition`), which one `Persist` establishes in a loop over the entries (`Stores`).
`WatchIsTrue`: the window of an evaluation that may still be published is the one an
evaluation of now would take up to the same moment (`WindowIsOfTheWatch`), and up to that
moment all that completes is searchable already (`SettledIsSearchable`).
`HistoryIsKept`: of one thing at most one row is unfinished (`OneEach`), and a queue's
failure has its end. `RunsAreWorked`: a sweep owes roots beyond its cursor that have no
link (`OwesWhatIsOpen`), and what it owes up to the end of a batch is in the batch of the
worker that holds it (`KeepsStep`); `SlotIsHeld`: who has the throttle's slot has
something to ask. For the types `WikidataIsBounded` is needed as well: a slot is taken
only while the day's budget lasts and at most one is out, so that an answer does not
overspend it.

The lists of `Readings` are reasoned about as sets in an order: the keys of a list order
its rows one after the other because they end with the row's id (`Orders`; without the id
the mutant `SearchKeyWithoutId` loses rows), so that there is a first page
(`PagesAreNext`) and what it leaves lies behind its cursor. Then `PagesFit` is inductive:
a row that has stayed since the first page has been shown on one page if the cursor has
passed its key, and on none if it has not. What comes, goes or changes its key in between
is no longer among what stayed, so that no change of the archive needs an argument; a
cursor that is gone (`SnapshotGone`) starts again with nothing shown.

For the numbers `CountFits` says what is so while nothing has changed since the question:
the snapshot is the index, everything in the list has stayed, the pages show nothing else,
and the number is that of the list (`LiveBehind`). The last is where each view has its own
argument (`NumberIsItsList`): the bars of a timeline part the matching articles
(`TimelineIsTheHits`), the sides of a comparison overlap as inclusion and exclusion say
(`OverlapIsThePart`), an edge's weight counts the articles its evidence asks for
(`EdgeIsItsEvidence`), and a bucket's count is that of the list narrowed to it, provided
no other criterion is asked of the same nested records (`FacetIsItsList`). With
`PagesCoverWhatStayed` the rows shown and the list then are as many.

Definitions by recursion (the loops of `Feeds`, `Wikidata` and `AuthorityFile`) are
recursive functions on numbers. The library's induction cannot be used here, so
`LoopEnds` and its like argue by the least number at which a loop would fail
(`WFMin`, `LeastNumber`).

Only model-checked:

- liveness (`EveryDeliverySettles`, `RebuildCompletes`, `RefreshedNameReachesIndex`,
  `PageSettles`, `EveryRunFinishes`, `EventsSettle`): fairness and `ENABLED` are beyond
  these provers. Every safety property a passing run checks is a theorem.

No module uses a recursive operator. That `ScannedIndexMissesNothing` holds is proved and
no longer run: `CaughtUpBeforeCutover` and `FedIndexMissesNothing` follow from it.

## Where code and text disagree

Runs that find a sentence of the repository violated:

- `SearchRebuild_two`: two processes that resume one rebuild leave the live index with
  the role `retained`, to which `request_indexing` sends nothing. With one process at a
  time, interrupted anywhere, `SearchIsServed` holds.
- `ArticleProcessing_retries`: the second of two overlapping retries hands over a page
  that the first has handed over already; an article may then keep a reference to a
  page that is gone. With one retry at a time the property holds.
- `Authority_split`: a name split off while its merge is at work: the merge run takes
  what the split run gives back, and the split run takes it again. Neither ends. With a
  user who waits for the runs of a name, every run ends.
- `Watches_owed`: a message takes off what was counted after the watch had been viewed.

Further instances, each a `.cfg` beside the modules that finds a property violated
(`tlc -config X.cfg M`):

| File (module) | Property | What happens |
| --- | --- | --- |
| `SearchDelivery_outage.cfg` (`MCSearchDelivery`) | `OutageCostsOnlyLatency` | a delivery that used up its attempts (20, about ten hours) in an outage stays failed when Elasticsearch is back, until the article changes or somebody retries it (`jobs/leasing.py:111`; `README.md:95`: "cost latency, never data") |
| `SourceRefresh_overlap.cfg` (`SourceRefresh`) | `QuietIndexShowsSourceName` | a source renamed again while its refresh is running gets no further refresh; articles behind the cursor keep the earlier name (`search/service.py:96`; `processes/summary.py:62`) |
| `Authority_chain.cfg` (`MCAuthorityFile`) | `VariantPointsAtRoot` | of two requests at once, the one merges into a root the other has just made a variant: a chain (`authority.py:339`; its line 4: "never at another variant") |
| `Authority_mistag.cfg` (`MCAuthorityFile`) | `MentionsKeepTheirName` | an untagged row that is merged into one with tags loses its name: a split gives those mentions to another (`authority.py:775`; its lines 4–7: "so a split can give the mentions back exactly") |
| `Authority_merged.cfg` (`MCAuthorityFile`) | `MentionsAreKept` | a name is split off, and another name that an article has of its own is merged into it before the split's run has come to the article: the run gives back a second current row for the name without looking for the one that is there (`authority.py:817`). The unique index `uq_article_nlp_entities_current` (`nlp/models.py:178`) refuses it, and the run stops there each cycle |
| `Stories_clock.cfg` (`MCStories`) | `ChangedStoryIsDirty` | with two assignments open, a story changed by the one that began first has an older `updated_at` than its decision, and is not dirty (`events/engine.py:380`). Reconciliation looks at it in the end: `EventsSettle` |
| `Feeds_moved.cfg` (`MCServices`) | `SkippedWasRead` | `update_feed` moves a feed and keeps `etag` and `last_modified` (`feeds/routes.py:296`): a new address that goes by Last-Modified answers "not modified" before anything of it was stored |
| `Feeds_overwritten.cfg` (`MCServices`) | `EverySuccessIsFinal` | a send that fails after the queue has taken its message: the worker has recorded the success of the fetch, and the user's request writes `failed` over it without looking (`feeds/service.py:82`; the docstring of `QueueUnavailable`, line 65: "its message could not be queued"). The scheduler looks whether the claim still holds (`scheduler.py:87`) |
| `Wikidata_relink.cfg` (`MCServices`) | `IdentifiersAreOfTheLinkedItem` | an item is linked while a refresh of the one before has its answer: the older item's identifiers are written (`wikidata/refresh.py:71`; `wikidata/links.py:3`: "read off the item") |
| `Wikidata_dismissed.cfg` (`MCServices`) | `DismissedIsNeverSuggested` | linking deletes the dismissed candidates of a root too: unlinked, it is offered them again (`wikidata/routes.py`: "it is never suggested for this root again") |
| `Processes_red.cfg` (`MCServices`) | `RedIsRecent` | a card of feeds, watches or a run turns red for failures of any age (`processes/states.py:23`, `README.md:212`) |

Read in the code while modelling, and not a run:

- *Search*: names, tags and events in the criteria are resolved again at every
  page of a snapshot, so that a list may skip or repeat in spite of `search/routes.py:115`.
  A facet's count is of articles, its list of articles whose *one* record has the value
  and the other criteria on that record: they agree only where the criteria leave the
  records of that facet alone (`AloneOnItsRecords`). Evidence and watch results page
  without a snapshot; a watch's cursor does not carry its criteria. While a merge
  run is under way an edge's weight and its evidence differ (`OnlyRootsIndexed`),
  against the docstring of `evidence_body`. A comparison and a source page read members and
  counts in two statements, and fail if a story ends between them.
- *Watches*: during an outage of the index a watch moves its cursor past articles that
  are not searchable yet (`IndexKeepsUp` = FALSE; `README.md:135`). `_HISTORY_FIELDS`
  (`monitors/service.py:25`) leaves out what is owed and `notified_through` when
  a watch is given other criteria. A message is sent again when the process dies after
  sending it (`README.md:185`).
- *Feeds*: a new article whose guid its feed has already used for another is stored
  without a `feed_articles` row (`ingestion.py:95`). `claim_feed` may answer with a fetch
  that has finished. The fetch of a retired feed whose message is lost never ends. Two
  feeds of one article overwrite each other's title: the model has one feed.
- *Authority file*: `_move_relations` can close a cycle that `add_relation` refuses
  (`relations.py:77`). Imports and claims tie a name without asking for its articles
  (`transfer.py:374`; the `silent` names of the model). A split under way whose root is
  merged gives nothing back. Distinct pairs are not moved by a merge.
- *Stories*: a story may be left with one outlet, and the same articles may end in
  other stories than `README.md:53` says, depending on their order. `run_batch` takes a
  hundred dirty stories at a time.
- *Wikidata*: a crash during a request loses its count and its pause. `queue_fetch` on
  an open run keeps that run's `add_labels`. Sweeps are created under a lock, single
  searches without one.
- *Processes*: "Retry N failed" counts rows the retry skips; refreshes of sources are
  windowed by their creation; nothing sets rebuilds, refreshes, reprocessing or
  authority runs to failed; `retry_failed` takes the first 200 ids.

## What is not modelled

Per component in `PROJECT.json`. The choices that matter to a reader of the
results: waits and deadlocks inside transactions; that attempts are not bounded when
claims are lost rather than failed (`jobs/leasing.py:66`, `articles/processing.py:30`);
one `process_source_refresh` that always raises and stops its batch
(`scheduler.py:293`); a release that is rolled back, so that a document returns to an
earlier form; the size limits, formats and contents of documents, pages and
annotations; the text that is searched and how it is scored (a score is a number each
article has) and the syntax of queries; what an event is called and
where it happened; maps and analytics, which are sums over the same documents; the
cards of a Wikidata that is switched off or stalled, and of outdated indices.

What cannot be modelled faithfully in a checkable way: the language functions
(`nlp/processors.py`, `articles/extraction.py`, the tokens and weights of
`clustering/engine.py` and `events/engine.py`), which compute on text; the construction
of the API, its schemas and migrations, which declare and do not act; sign-in and
investigations, whose transactions touch single rows and have no step another one
could come between.

## Plan

The modules of the first plan are written. What is left, in this order:

1. `ImplementsIndexDelivery`'s counterpart for stories: an abstract grouping (each article
   in one story, each story in one event) that `Stories` implements once it rests.
2. Larger instances of `AuthorityFile` (three requests) by reducing what a request may be.
