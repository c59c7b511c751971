------------------------------ MODULE Processes ------------------------------
(***************************************************************************)
(* The Processes page: the history each background process leaves, the     *)
(* cards and lists read from it, what a user can do from there (retry, run  *)
(* now, stop), and the cleanup that deletes old history under it.           *)
(*                                                                          *)
(* One behaviour shows one process, chosen at the start. Its history is a   *)
(* function from row number (the order rows are created in) to a row, kept  *)
(* in the terms all processes share; the process's own module models how a  *)
(* row is worked.                                                           *)
(***************************************************************************)
EXTENDS Integers, FiniteSetsExt, Leasing

CONSTANTS
    Observed,       \* the processes a behaviour may show
    Things,         \* what rows are about: articles, feeds, monitors, names
    LastHour,       \* bound: the clock
    MaxRows,        \* bound: rows created
    WindowHours,    \* the window of the page
    KeepHours       \* JOB_RETENTION

ASSUME ProcessBounds ==
    /\ {LastHour, MaxRows, WindowHours, KeepHours} \subseteq Nat
    /\ Things # {} /\ None \notin Nat

VARIABLES process, history, living, hour

processVars == <<process, history, living, hour>>

Queues    == {"articles", "nlp", "clustering", "search"}
Sweeps    == {"wikidata_refresh", "wikidata_candidates"}
Runs      == Sweeps \union {"reprocessing", "authority", "rebuild", "source_refresh"}
Recorded  == {"events", "retention"}      \* only a run's end is written down
Retryable == Queues \union {"feeds", "monitors"}
Runnable  == Recorded \union Sweeps
Stoppable == Sweeps \union {"reprocessing"}
Processed == Queues \union Runs \union Recorded \union {"feeds", "monitors"}

ASSUME ProcessesObserved == Observed \subseteq Processed

Hours == 0..LastHour

(* `failedAt` is the end of the last attempt that failed (a processor run's *)
(* or a fetch's); `updated` is when the row last changed. A lease lasts     *)
(* less than an hour, so one taken in an earlier hour has run out. `due` is *)
(* a monitor's: its interval is shorter than an hour.                       *)
HistoryRows ==
    [thing : Things, status : QueueStatuses \union {"superseded", "stopped"},
     created : Hours, ended : Hours \union {None}, updated : Hours,
     failedAt : Hours \union {None}, lease : Hours \union {None}, due : BOOLEAN]

ProcessesTypeOK ==
    /\ process \in Processed
    /\ DOMAIN history \subseteq 1..MaxRows
    /\ \A n \in DOMAIN history : history[n] \in HistoryRows
    /\ living \subseteq Things
    /\ hour \in Hours

ProcessInit ==
    /\ process \in Observed
    /\ history = [n \in {} |-> None]
    /\ living = Things
    /\ hour = 0

-----------------------------------------------------------------------------
(* Reading the history.                                                     *)

Status(s)      == {n \in DOMAIN history : history[n].status \in s}
Unfinished     == Status(ActiveStatuses)
RowsOf(t)      == {n \in DOMAIN history : history[n].thing = t}
Start          == hour - WindowHours
InWindow(time) == time # None /\ time >= Start

(* The newest row of a thing that ended one way or the other.               *)
NewestEnded(t) == RowsOf(t) \intersect Status({"succeeded", "failed"})

(* Live feeds whose newest finished fetch failed.                           *)
FailingFeeds ==
    {t \in living : /\ NewestEnded(t) # {}
                    /\ history[Max(NewestEnded(t))].status = "failed"}

(* The times a process's numbers are windowed by: the time its failures are *)
(* counted at, its successes, and its place on the activity list.           *)
FailureTime(r) == CASE process = "nlp"                        -> r.failedAt
                    [] process = "search"                     -> r.updated
                    [] process \in {"feeds", "source_refresh"} -> r.created
                    [] OTHER                                  -> r.ended
ListTime(r)    == CASE process \in {"search", "monitors"}     -> r.updated
                    [] process = "source_refresh"             -> r.created
                    [] OTHER -> IF r.ended # None THEN r.ended ELSE r.created

CountedFailures ==
    {n \in DOMAIN history : /\ InWindow(FailureTime(history[n]))
                            /\ process = "nlp" \/ history[n].status = "failed"}

Held(n)  == history[n].lease # None /\ history[n].lease >= hour
LeaseOut == {n \in DOMAIN history : history[n].lease # None /\ history[n].lease < hour}

(* Claimed work whose claim ran out: a queue's running row, a live feed's   *)
(* fetch. A monitor's card counts none.                                     *)
Expired ==
    CASE process \in Queues -> LeaseOut \intersect Status({"running"})
      [] process = "feeds"  -> {n \in LeaseOut : history[n].thing \in living}
      [] OTHER              -> {}

(* What waits or is worked: a monitor waits when it is enabled and due.     *)
AtWork ==
    IF process = "monitors"
    THEN {n \in DOMAIN history : Held(n) \/ (history[n].thing \in living /\ history[n].due)}
    ELSE Status({"queued", "running"})

-----------------------------------------------------------------------------
(* The cards.                                                               *)

(* A queue of items: only failures inside the window make it failing.       *)
PerItemState(failing) ==
    IF failing # {} THEN "failing"
    ELSE IF Expired # {} THEN "stalled"
    ELSE IF Status({"retrying"}) # {} THEN "retrying"
    ELSE IF AtWork # {} THEN "working"
    ELSE "ok"

(* Runs one after another: the active one, else how the newest one ended.   *)
RunState ==
    CASE Unfinished # {}      -> "working"
      [] DOMAIN history = {}  -> "idle"
      [] OTHER -> IF history[Max(DOMAIN history)].status = "failed" THEN "failing" ELSE "ok"

(* What a card counts as failed: every failed row of a queue, feeds by      *)
(* their newest fetch, monitors by the error they carry, paused or not.     *)
FailedOf == IF process = "feeds" THEN FailingFeeds ELSE Status({"failed"})

CardState ==
    CASE process \in Queues          -> PerItemState(CountedFailures)
      [] process \in {"feeds", "monitors"} -> PerItemState(FailedOf)
      [] process = "source_refresh"  -> IF DOMAIN history = {} THEN "idle"
                                        ELSE PerItemState(CountedFailures)
      [] OTHER                       -> RunState

(* A process with a run in hand offers to stop it, not to run again.        *)
Offers ==
    (IF process \in Retryable /\ FailedOf # {} THEN {"retry_failed"} ELSE {})
        \union
    (IF process \in Stoppable /\ Unfinished # {} THEN {"stop"}
     ELSE IF process \in Runnable THEN {"run_now"} ELSE {})

-----------------------------------------------------------------------------
(* A monitor's error comes before its evaluation under way.                 *)
ShownStatus(n) ==
    LET r == history[n]
    IN CASE process # "monitors" \/ r.status = "failed" -> r.status
         [] process = "monitors" /\ r.status # "failed" ->
              IF Held(n) THEN "running"
              ELSE IF r.due \/ r.ended = None THEN "queued" ELSE "succeeded"

(* The activity list: what is unfinished, and what ended in the window. A   *)
(* paused monitor and a superseded job are not on it.                       *)
Listed ==
    {n \in DOMAIN history :
        /\ history[n].status # "superseded"
        /\ process = "monitors" => history[n].thing \in living
        /\ ShownStatus(n) \in ActiveStatuses \/ InWindow(ListTime(history[n]))}

NeedsAttention == {n \in Listed : ShownStatus(n) \in {"running", "retrying", "failed"}}

(* The Operations list of failures of one area.                             *)
FailuresOf ==
    LET shown == IF process = "search" THEN {"failed", "retrying"} ELSE {"failed"}
    IN {n \in DOMAIN history :
            /\ process = "nlp" \/ history[n].status \in shown
            /\ InWindow(IF process = "monitors" THEN history[n].updated
                        ELSE FailureTime(history[n]))}

(* A feed's health: the finished fetches since its last success.            *)
Finished(t) == NewestEnded(t)
Streak(t) ==
    {n \in Finished(t) : \A later \in Finished(t) :
        later >= n => history[later].status = "failed"}
FeedState(t) == CASE t \notin living  -> "disabled"
                  [] t \in living /\ Streak(t) # {} -> "failing"
                  [] OTHER            -> IF Finished(t) # {} THEN "ok" ELSE "awaiting"

-----------------------------------------------------------------------------
(* Work leaves its history.                                                 *)

Fresh == IF DOMAIN history = {} THEN 1 ELSE Max(DOMAIN history) + 1

Row(t, status) ==
    [thing |-> t, status |-> status, created |-> hour, updated |-> hour,
     ended |-> IF status \in ActiveStatuses THEN None ELSE hour,
     failedAt |-> IF status = "failed" THEN hour ELSE None, due |-> TRUE,
     lease |-> IF process = "feeds" THEN hour ELSE None]

Written(h, n, row) == [m \in DOMAIN h \union {n} |-> IF m = n THEN row ELSE h[m]]
Changed(n, row) == [history EXCEPT ![n] = row]

(* Mutant: the failure is not given an end.                                 *)
FailedRowOpen(r, status) ==
    [r EXCEPT !.status = status, !.updated = hour, !.failedAt = hour, !.lease = None,
              !.due = FALSE]

(* An attempt fails: a queue's row waits for its backoff or fails for good. *)
FailedRow(r, status) ==
    [r EXCEPT !.status = status, !.updated = hour, !.failedAt = hour, !.lease = None,
              !.due = FALSE, !.ended = IF status = "failed" THEN hour ELSE @]

(* What new work on a thing does to the work already on it: a queue of      *)
(* generations supersedes it, a feed's claim that ran out fails its fetch.  *)
Replacing(t) ==
    [n \in DOMAIN history |->
        LET r == history[n]
        IN IF r.thing # t \/ n \notin Unfinished THEN r
           ELSE IF process = "feeds" THEN FailedRow(r, "failed")
           ELSE [r EXCEPT !.status = "superseded", !.updated = hour, !.lease = None]]

(* Whether unfinished work on a thing stands for what is asked now. A       *)
(* rebuild is the only one of its kind, and a sweep too.                    *)
Reused(t) ==
    CASE process \in {"articles", "source_refresh"} -> RowsOf(t) \intersect Unfinished # {}
      [] process = "feeds"   -> \E n \in RowsOf(t) \intersect Unfinished : Held(n)
      [] process \in Sweeps \union {"rebuild"} -> Unfinished # {}
      [] OTHER               -> FALSE

(* The history after work on a thing is asked for. A delivery is one row,   *)
(* queued again; reprocessing runs and name changes are made each time.     *)
Asked(t) ==
    CASE Reused(t) -> history
      [] process = "search" /\ RowsOf(t) # {} ->
            LET n == Max(RowsOf(t))
            IN Changed(n, [history[n] EXCEPT !.status = "queued", !.updated = hour,
                                             !.ended = None])
      [] process \in {"nlp", "clustering", "feeds"} /\ ~Reused(t) ->
            Written(Replacing(t), Fresh, Row(t, "queued"))
      [] OTHER -> Written(history, Fresh, Row(t, "queued"))

NewRowFits == Fresh <= MaxRows

Ask(t) ==
    /\ process \in Queues \union {"feeds"} \union Runs
    /\ process = "feeds" => t \in living
    /\ NewRowFits
    /\ history' = Asked(t)
    /\ UNCHANGED <<process, living, hour>>

(* A monitor has one row, from its creation on.                             *)
Watch(t) ==
    /\ process = "monitors"
    /\ RowsOf(t) = {}
    /\ NewRowFits
    /\ history' = Written(history, Fresh, Row(t, "queued"))
    /\ UNCHANGED <<process, living, hour>>

(* A worker takes a queued row, a row whose lease ran out, a due monitor.   *)
Claims(n) ==
    IF process = "monitors" THEN history[n].thing \in living /\ history[n].due
    ELSE \/ history[n].status \in {"queued", "retrying"}
         \/ process \in Queues /\ history[n].status = "running"

Begin(n) ==
    /\ Claims(n)
    /\ process # "feeds" => ~Held(n)
    /\ history' = Changed(n, [history[n] EXCEPT
                     !.status = IF process = "monitors" THEN @ ELSE "running",
                     !.lease = IF process \in Queues \union {"monitors"} THEN hour ELSE @,
                     !.updated = hour])
    /\ UNCHANGED <<process, living, hour>>

InHand(n) == IF process = "monitors" THEN Held(n) ELSE history[n].status = "running"

Succeed(n) ==
    /\ InHand(n)
    /\ history' = Changed(n, [history[n] EXCEPT !.status = "succeeded", !.ended = hour,
                                                !.updated = hour, !.lease = None,
                                                !.due = FALSE])
    /\ UNCHANGED <<process, living, hour>>

Fail(n) ==
    /\ process \in Retryable \union Sweeps
    /\ InHand(n)
    /\ \E status \in {"failed"} \union (IF process \in Queues THEN {"retrying"} ELSE {}) :
           history' = Changed(n, FailedRow(history[n], status))
    /\ UNCHANGED <<process, living, hour>>

Old(time) == time # None /\ time < hour - KeepHours

(* A run of the events or of the cleanup is written down when it ends; the  *)
(* events drop their own old rows with it.                                  *)
Record(status) ==
    /\ process \in Recorded
    /\ NewRowFits
    /\ LET kept == {n \in DOMAIN history : process = "events" => ~Old(history[n].created)}
       IN \E t \in Things :
            history' = Written([n \in kept |-> history[n]], Fresh, Row(t, status))
    /\ UNCHANGED <<process, living, hour>>

(* A feed or a monitor is paused or taken up again; a rebuild retires the   *)
(* index a delivery was for.                                                *)
Pause(t) ==
    /\ process \in {"feeds", "monitors", "search"}
    /\ living' = IF t \in living THEN living \ {t} ELSE living \union {t}
    /\ process = "search" => t \in living
    /\ UNCHANGED <<process, history, hour>>

HourPasses ==
    /\ hour < LastHour
    /\ hour' = hour + 1
    /\ history' = [n \in DOMAIN history |->
                      IF process = "monitors" THEN [history[n] EXCEPT !.due = TRUE]
                      ELSE history[n]]
    /\ UNCHANGED <<process, living>>

-----------------------------------------------------------------------------
(* What the page does.                                                      *)

(* The rows "retry all failed" takes: an article's newest job, a job of the *)
(* generation still requested, a failed delivery, an enabled monitor in     *)
(* error, a live feed whose newest fetch failed.                            *)
Candidates ==
    CASE process \in {"articles", "nlp", "clustering"} ->
            {n \in Status({"failed"}) : n = Max(RowsOf(history[n].thing))}
      [] process = "search"   -> Status({"failed"})
      [] process = "monitors" -> {n \in Status({"failed"}) : history[n].thing \in living}
      [] process = "feeds"    -> {Max(NewestEnded(t)) : t \in FailingFeeds}
      [] OTHER                -> {}

(* One failed row tried again. A monitor keeps its error until its next     *)
(* evaluation, which is now due.                                            *)
RetriedRow(n) ==
    IF process = "monitors"
    THEN Changed(n, [history[n] EXCEPT !.updated = hour, !.due = TRUE])
    ELSE Asked(history[n].thing)

RetryItem(n) ==
    /\ process \in Retryable
    /\ history[n].status = "failed"
    /\ process \in {"feeds", "monitors"} => history[n].thing \in living
    /\ NewRowFits
    /\ history' = RetriedRow(n)
    /\ UNCHANGED <<process, living, hour>>

(* "Retry all failed" takes the candidates in the order of their ids, up to *)
(* 200 of them; each is one of these steps.                                 *)
RetryFailed ==
    /\ "retry_failed" \in Offers
    /\ Candidates # {}
    /\ RetryItem(Min(Candidates))

(* Run now: the sweep still unfinished, else a new one; the events and the  *)
(* cleanup are only sent word.                                              *)
RunNow ==
    /\ "run_now" \in Offers
    /\ process \in Sweeps
    /\ NewRowFits
    /\ history' = Asked(CHOOSE t \in Things : TRUE)
    /\ UNCHANGED <<process, living, hour>>

StopRun(n) ==
    /\ process \in Stoppable
    /\ n \in Unfinished
    /\ history' = Changed(n, [history[n] EXCEPT !.status = "stopped", !.ended = hour,
                                                !.updated = hour, !.lease = None])
    /\ UNCHANGED <<process, living, hour>>

-----------------------------------------------------------------------------
(* The cleanup deletes history nothing reads any more.                      *)

(* Mutant: any old row may go.                                              *)
ReplacedAlways(n) == TRUE

(* Some newer row of the same thing has taken this one's place.             *)
Replaced(n) ==
    \E later \in RowsOf(history[n].thing) :
        /\ later > n
        /\ history[later].created > history[n].created \/ process # "articles"
        /\ process # "articles" => history[later].status = "succeeded"

Prunable ==
    {n \in DOMAIN history :
        LET r == history[n]
        IN CASE process = "articles" -> r.status = "succeeded" /\ Old(r.ended) /\ Replaced(n)
             [] process \in {"nlp", "clustering"} ->
                    r.status \in {"succeeded", "superseded"} /\ Old(r.created) /\ Replaced(n)
             [] process = "search" ->
                    r.status = "succeeded" /\ Old(r.updated) /\ r.thing \notin living
             [] process = "retention" -> Old(r.created)
             [] OTHER -> FALSE}

Prune ==
    /\ Prunable # {}
    /\ history' = [n \in DOMAIN history \ Prunable |-> history[n]]
    /\ UNCHANGED <<process, living, hour>>

-----------------------------------------------------------------------------
ProcessNext ==
    \/ \E t \in Things : Ask(t) \/ Watch(t) \/ Pause(t)
    \/ \E n \in DOMAIN history : \/ Begin(n) \/ Succeed(n) \/ Fail(n)
                                 \/ RetryItem(n) \/ StopRun(n)
    \/ \E status \in {"succeeded", "failed"} : Record(status)
    \/ RetryFailed
    \/ RunNow
    \/ Prune
    \/ HourPasses

-----------------------------------------------------------------------------
(* Properties.                                                              *)

(* The row a reader of a thing's history depends on: that an article has    *)
(* any job at all (automatic processing refuses one that has), and the      *)
(* newest success, whose runs the article page shows.                       *)
Needed(t) ==
    IF process = "articles" THEN {RowsOf(t) # {}}
    ELSE LET done == RowsOf(t) \intersect Status({"succeeded"})
         IN IF process \in {"nlp", "clustering"} /\ done # {} THEN {Max(done)} ELSE {}

(* The cleanup takes nothing a reader depends on, keeps every failure, and  *)
(* brings no old failure back as a thing's newest row: what a retry would   *)
(* take is the same before and after it.                                    *)
CleanupRevivesNothing ==
    [][DOMAIN history' # DOMAIN history /\ DOMAIN history' \subseteq DOMAIN history
         => /\ Candidates' = Candidates
            /\ process \notin Recorded => Status({"failed"})' = Status({"failed"})
            /\ \A t \in Things : Needed(t)' = Needed(t)]_processVars

(* However a user retries, asks and stops, an article, a feed, a source or  *)
(* a sweep has one piece of unfinished work at a time.                      *)
OneUnfinishedEach ==
    process \notin {"reprocessing", "authority", "monitors"} =>
    \A t \in Things : Cardinality(RowsOf(t) \intersect Unfinished) <= 1

(* Both: what the page's buttons and the cleanup do to a history neither   *)
(* doubles work nor brings back what was over.                              *)
ActionsKeepTheHistory == []OneUnfinishedEach /\ CleanupRevivesNothing

(* The page's views are separate queries of one history and agree on it: a  *)
(* queue whose card is at rest hides nothing that needs attention, its      *)
(* failures are on the Operations list, and the feeds its card counts as    *)
(* failing are those whose health says so.                                  *)
ViewsAgree ==
    /\ process \in Queues /\ CardState = "ok" => NeedsAttention = {}
    /\ process \in Queues => CountedFailures \subseteq FailuresOf
    /\ process = "feeds" => FailingFeeds = {t \in Things : FeedState(t) = "failing"}

(* A card turns red only for failures inside the chosen window              *)
(* (README.md:212).                                                         *)
RedIsRecent ==
    CardState = "failing" =>
        \E n \in DOMAIN history :
            history[n].failedAt # None /\ InWindow(history[n].failedAt)
=============================================================================
