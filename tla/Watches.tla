------------------------------- MODULE Watches --------------------------------
(***************************************************************************)
(* One watch (backend/app/monitors: a saved search the scheduler evaluates *)
(* again and again) and the messages about it (backend/app/notifications). *)
(*                                                                         *)
(* Time is a number of moments.  An article is complete at one of them     *)
(* (enriched_at) and searchable at the same or a later one.  A watch       *)
(* counts the matches completed up to some moments before its evaluation   *)
(* began, so that the index has time to follow.                            *)
(*                                                                         *)
(* An evaluation is two steps: it reads the watch and asks the index, and  *)
(* it publishes under the watch's lock.  In between the watch may be       *)
(* viewed, edited, switched, deleted, or claimed again.  A delivery is     *)
(* four: it reads what is owed, sends it, takes it off, and ends.          *)
(***************************************************************************)
EXTENDS Leasing, FiniteSets

CONSTANTS
  WatchArticles,
  Criteria,
  MatchedBy,        \* the criteria each article matches
  WatchTokens,      \* bounds the claims referred to at one time
  Evaluators,
  LastMoment,       \* bounds the time
  Settle,           \* monitor_settle_seconds
  IndexKeepsUp      \* whether articles are searchable before they settle

ASSUME WatchConstants ==
  /\ None \notin Nat \cup WatchTokens
  /\ IsFiniteSet(WatchArticles)
  /\ MatchedBy \in [WatchArticles -> SUBSET Criteria]
  /\ LastMoment \in Nat
  /\ Settle \in Nat
  /\ IndexKeepsUp \in BOOLEAN

VARIABLES
  moment,
  completed,        \* enriched_at of each article
  searchable,       \* the articles whose documents say so
  watch,            \* Monitor
  evaluator,
  settings,         \* NotificationSettings
  delivery,         \* the worker that sends
  counted,          \* how often each article was counted to be announced
  owed              \* those counted and neither sent, viewed nor muted since

watchArchive == <<moment, completed, searchable>>
watchVars == <<watchArchive, watch, evaluator, settings, delivery, counted, owed>>

Moments == 0..LastMoment

WatchRows ==
  [criteria : Criteria, enabled : BOOLEAN, notify : BOOLEAN,
   cursor : Moments \cup {None}, viewed : Moments \cup {None},
   notified : Moments \cup {None}, unseen : Nat, pending : Nat,
   due : BOOLEAN, token : WatchTokens \cup {None}, leased : BOOLEAN]

NewWatch(criteria) ==
  [criteria |-> criteria, enabled |-> TRUE, notify |-> TRUE, cursor |-> None, viewed |-> None,
   notified |-> None, unseen |-> 0, pending |-> 0, due |-> TRUE, token |-> None, leased |-> FALSE]

\* ready: switched on, with a server and a topic; quiet: the clock is in the quiet
\* hours; summary: today's is still to be sent; waits: retry_after is to come.
SettingsRows ==
  [ready : BOOLEAN, quiet : BOOLEAN, summary : BOOLEAN, waits : BOOLEAN,
   token : WatchTokens \cup {None}, leased : BOOLEAN]

NoEvaluation == [token |-> None]
NoDelivery == [pc |-> "idle", token |-> None, summary |-> FALSE, covered |-> 0, about |-> {}]

WatchTypeOK ==
  /\ moment \in Moments
  /\ completed \in [WatchArticles -> Moments \cup {None}]
  /\ searchable \subseteq {a \in WatchArticles : completed[a] # None}
  /\ watch \in WatchRows \cup {None}
  /\ \A e \in Evaluators : evaluator[e].token \in WatchTokens \cup {None}
  /\ settings \in SettingsRows
  /\ delivery.pc \in {"idle", "read", "sent", "failed", "done"}
  /\ \A a \in owed : counted[a] > 0

WatchInit ==
  /\ moment = 0
  /\ completed = [a \in WatchArticles |-> None]
  /\ searchable = {}
  /\ watch = None
  /\ evaluator = [e \in Evaluators |-> NoEvaluation]
  /\ settings = [ready |-> TRUE, quiet |-> FALSE, summary |-> FALSE, waits |-> FALSE,
                 token |-> None, leased |-> FALSE]
  /\ delivery = NoDelivery
  /\ counted = [a \in WatchArticles |-> 0]
  /\ owed = {}

-----------------------------------------------------------------------------
(* Articles and time. *)

\* The last step of an article's processing ends (mark_enriched).
Completes(a) ==
  /\ completed[a] = None
  /\ completed' = [completed EXCEPT ![a] = moment]
  /\ UNCHANGED <<moment, searchable, watch, evaluator, settings, delivery, counted, owed>>

\* Its document is written.
Indexes(a) ==
  /\ completed[a] # None
  /\ a \notin searchable
  /\ searchable' = searchable \cup {a}
  /\ UNCHANGED <<moment, completed, watch, evaluator, settings, delivery, counted, owed>>

TimePasses ==
  /\ moment < LastMoment
  /\ IndexKeepsUp => \A a \in WatchArticles \ searchable :
       completed[a] # None => moment + 1 < completed[a] + Settle
  /\ moment' = moment + 1
  /\ UNCHANGED <<completed, searchable, watch, evaluator, settings, delivery, counted, owed>>

-----------------------------------------------------------------------------
(* The user's requests: each locks the watch's row. *)

SetWatch(new) == watch' = new /\ UNCHANGED <<watchArchive, evaluator, settings, delivery, counted>>

Create(criteria) == watch = None /\ SetWatch(NewWatch(criteria)) /\ UNCHANGED owed

Delete == watch # None /\ SetWatch(None) /\ owed' = {}

\* _HISTORY_FIELDS.
Forgotten(row) ==
  [row EXCEPT !.cursor = None, !.viewed = None, !.unseen = 0, !.due = TRUE,
              !.token = None, !.leased = FALSE]

\* update_monitor with another target.
Edit(criteria) ==
  /\ watch # None
  /\ watch.criteria # criteria
  /\ SetWatch([Forgotten(watch) EXCEPT !.criteria = criteria])
  /\ UNCHANGED owed

Switch(enabled) ==
  /\ watch # None
  /\ watch.enabled # enabled
  /\ SetWatch([watch EXCEPT !.enabled = enabled, !.due = @ \/ enabled])
  /\ UNCHANGED owed

SetNotify(notify) ==
  /\ watch # None
  /\ watch.notify # notify
  /\ SetWatch([watch EXCEPT !.notify = notify, !.pending = IF notify THEN @ ELSE 0])
  /\ owed' = IF notify THEN owed ELSE {}

\* Mutant: a view up to an earlier evaluation leaves the cursor where it is.
ViewedKeepingCursor(row, through) ==
  [row EXCEPT !.viewed = through, !.unseen = 0, !.pending = 0, !.token = None, !.leased = FALSE]

Viewed(row, through) ==
  [row EXCEPT !.due = @ \/ through < row.cursor, !.cursor = through, !.viewed = through,
              !.unseen = 0, !.pending = 0, !.token = None, !.leased = FALSE]

\* mark_viewed, up to the boundary the page showed.
View(through) ==
  /\ watch # None
  /\ watch.cursor # None
  /\ through <= watch.cursor
  /\ watch.viewed # None => through > watch.viewed
  /\ SetWatch(Viewed(watch, through))
  /\ owed' = {}

-----------------------------------------------------------------------------
(* The evaluation. *)

TokensInUse ==
  (IF watch = None THEN {} ELSE {watch.token})
    \cup {evaluator[e].token : e \in Evaluators} \cup {settings.token, delivery.token}

\* claim_monitor, for the scheduler.
ClaimWatch(token) ==
  /\ watch # None
  /\ watch.enabled /\ watch.due /\ ~watch.leased
  /\ token \notin TokensInUse
  /\ watch' = [watch EXCEPT !.token = token, !.leased = TRUE]
  /\ UNCHANGED <<watchArchive, evaluator, settings, delivery, counted, owed>>

WatchLeaseExpires ==
  /\ watch # None
  /\ watch.leased
  /\ watch' = [watch EXCEPT !.leased = FALSE]
  /\ UNCHANGED <<watchArchive, evaluator, settings, delivery, counted, owed>>

IntervalPasses ==
  /\ watch # None
  /\ ~watch.due
  /\ watch' = [watch EXCEPT !.due = TRUE]
  /\ UNCHANGED <<watchArchive, evaluator, settings, delivery, counted, owed>>

\* What a query of the index finds, completed after one moment and up to another.
Matches(criteria, after, upto) ==
  {a \in searchable : criteria \in MatchedBy[a] /\ after < completed[a] /\ completed[a] <= upto}

Later(a, b) == IF b # None /\ b > a THEN b ELSE a

\* After a view rewound the cursor, what lies before the last announcement is not.
NewSince(row, horizon) == Matches(row.criteria, Later(row.cursor, row.notified), horizon)

\* search_evaluator: where the cursors go, and the counts that change (None: not).
Window(row, horizon) ==
  IF row.cursor = None
  THEN [cursor |-> horizon, viewed |-> horizon, unseen |-> 0, new |-> {}]
  ELSE IF horizon <= row.cursor
  THEN [cursor |-> row.cursor, viewed |-> row.viewed, unseen |-> None, new |-> {}]
  ELSE IF Matches(row.criteria, row.cursor, horizon) = {}
  THEN [cursor |-> horizon, viewed |-> row.viewed, unseen |-> None, new |-> {}]
  ELSE [cursor |-> horizon, viewed |-> row.viewed,
        unseen |-> Cardinality(Matches(row.criteria, row.viewed, horizon)),
        new    |-> NewSince(row, horizon)]

\* process_monitor up to _publish: a message with the row's token, maybe not its first.
Evaluate(e) ==
  /\ evaluator[e].token = None
  /\ watch # None
  /\ watch.enabled /\ watch.leased
  /\ moment >= Settle
  /\ evaluator' = [evaluator EXCEPT ![e] =
       [token |-> watch.token, viewed |-> watch.viewed,
        window |-> Window(watch, moment - Settle)]]
  /\ UNCHANGED <<watchArchive, watch, settings, delivery, counted, owed>>

EvaluationEnds(e) == evaluator' = [evaluator EXCEPT ![e] = NoEvaluation]

MayPublish(e) ==
  /\ watch # None
  /\ watch.leased
  /\ watch.token = evaluator[e].token
  /\ watch.viewed = evaluator[e].viewed

\* _publish.
PublishWindow(e) ==
  LET window == evaluator[e].window
      owes   == watch.notify /\ settings.ready
  IN /\ evaluator[e].token # None
     /\ MayPublish(e)
     /\ watch' = [watch EXCEPT
          !.cursor   = window.cursor,
          !.viewed   = window.viewed,
          !.unseen   = IF window.unseen = None THEN @ ELSE window.unseen,
          !.pending  = IF owes THEN @ + Cardinality(window.new) ELSE @,
          !.notified = IF @ = None \/ window.cursor > @ THEN window.cursor ELSE @,
          !.due = FALSE, !.token = None, !.leased = FALSE]
     /\ counted' = [a \in WatchArticles |->
          IF owes /\ a \in window.new THEN counted[a] + 1 ELSE counted[a]]
     /\ owed' = IF owes THEN owed \cup window.new ELSE owed
     /\ EvaluationEnds(e)
     /\ UNCHANGED <<watchArchive, settings, delivery>>

\* StaleClaim, or a worker that dies.
DropWindow(e) ==
  /\ evaluator[e].token # None
  /\ EvaluationEnds(e)
  /\ UNCHANGED <<watchArchive, watch, settings, delivery, counted, owed>>

\* _record_failure: the index does not answer, or the criteria cannot be read.
EvaluationFails(e) ==
  /\ evaluator[e].token # None
  /\ watch # None
  /\ watch.token = evaluator[e].token
  /\ watch' = [watch EXCEPT !.due = FALSE, !.token = None, !.leased = FALSE]
  /\ EvaluationEnds(e)
  /\ UNCHANGED <<watchArchive, settings, delivery, counted, owed>>

-----------------------------------------------------------------------------
(* The messages. *)

SetSettings(new) ==
  settings' = new /\ UNCHANGED <<watchArchive, watch, evaluator, delivery, counted, owed>>

\* The settings page, and the clock: quiet hours, the hour of the summary, a wait.
PutSettings(ready) ==
  settings.ready # ready /\ SetSettings([settings EXCEPT !.ready = ready, !.waits = FALSE])

QuietHours == SetSettings([settings EXCEPT !.quiet = ~@])

SummaryHour == ~settings.summary /\ SetSettings([settings EXCEPT !.summary = TRUE])

WaitEnds == settings.waits /\ SetSettings([settings EXCEPT !.waits = FALSE])

DeliveryLeaseExpires == settings.leased /\ SetSettings([settings EXCEPT !.leased = FALSE])

Owing == watch # None /\ watch.enabled /\ watch.notify /\ watch.pending > 0

\* claim_delivery: one at a time, and only when something is to be sent.
ClaimDelivery(token) ==
  /\ settings.ready /\ ~settings.waits /\ ~settings.leased
  /\ settings.summary \/ (~settings.quiet /\ Owing)
  /\ token \notin TokensInUse
  /\ SetSettings([settings EXCEPT !.token = token, !.leased = TRUE])

\* deliver, its first transaction: a summary says what is unseen and covers what is
\* owed; without news it covers it silently.
ReadOwed ==
  /\ delivery.pc = "idle"
  /\ settings.token # None
  /\ settings.ready
  /\ delivery' =
       LET covers == Owing /\ (settings.summary \/ ~settings.quiet)
           news   == watch # None /\ watch.enabled /\ watch.unseen > 0
       IN [pc      |-> IF settings.summary THEN (IF news THEN "read" ELSE "sent")
                       ELSE IF covers THEN "read" ELSE "done",
           token   |-> settings.token,
           summary |-> settings.summary,
           covered |-> IF covers THEN watch.pending ELSE 0,
           about   |-> IF covers THEN owed ELSE {}]
  /\ UNCHANGED <<watchArchive, watch, evaluator, settings, counted, owed>>

Send(pc) ==
  /\ delivery.pc = "read"
  /\ delivery' = [delivery EXCEPT !.pc = pc]
  /\ owed' = IF pc = "sent" THEN owed \ delivery.about ELSE owed
  /\ UNCHANGED <<watchArchive, watch, evaluator, settings, counted>>

\* Mutant: nothing stops at zero.
TakenOffBelow(pending, covered) == pending - covered

TakenOff(pending, covered) == IF pending > covered THEN pending - covered ELSE 0

\* _announced.
TakeOff ==
  /\ delivery.pc = "sent"
  /\ watch' = IF watch = None THEN None
              ELSE [watch EXCEPT !.pending = TakenOff(@, delivery.covered)]
  /\ delivery' = [delivery EXCEPT !.pc = "done"]
  /\ owed' = owed \ delivery.about
  /\ UNCHANGED <<watchArchive, evaluator, settings, counted>>

\* The last transaction: the lease, and the day's summary or the wait.
EndDelivery ==
  /\ delivery.pc \in {"done", "failed"}
  /\ settings' =
       LET row == IF settings.token = delivery.token
                  THEN [settings EXCEPT !.token = None, !.leased = FALSE] ELSE settings
       IN IF delivery.pc = "failed" THEN [row EXCEPT !.waits = TRUE]
          ELSE [row EXCEPT !.waits = FALSE, !.summary = @ /\ ~delivery.summary]
  /\ delivery' = NoDelivery
  /\ UNCHANGED <<watchArchive, watch, evaluator, counted, owed>>

\* The worker dies; its lease runs out.
DeliveryDies ==
  /\ delivery.pc # "idle"
  /\ delivery' = NoDelivery
  /\ UNCHANGED <<watchArchive, watch, evaluator, settings, counted, owed>>

WatchedArchive == TimePasses \/ \E a \in WatchArticles : Completes(a) \/ Indexes(a)

Requested ==
  \/ \E criteria \in Criteria : Create(criteria) \/ Edit(criteria)
  \/ Delete
  \/ \E on \in BOOLEAN : Switch(on) \/ SetNotify(on) \/ PutSettings(on)
  \/ \E through \in Moments : View(through)

Evaluating ==
  \/ \E token \in WatchTokens : ClaimWatch(token)
  \/ WatchLeaseExpires \/ IntervalPasses
  \/ \E e \in Evaluators : Evaluate(e) \/ PublishWindow(e) \/ DropWindow(e) \/ EvaluationFails(e)

Delivering ==
  \/ \E token \in WatchTokens : ClaimDelivery(token)
  \/ QuietHours \/ SummaryHour \/ WaitEnds \/ DeliveryLeaseExpires
  \/ ReadOwed \/ TakeOff \/ EndDelivery \/ DeliveryDies
  \/ \E pc \in {"sent", "failed"} : Send(pc)

WatchNext == WatchedArchive \/ Requested \/ Evaluating \/ Delivering

-----------------------------------------------------------------------------
(* What should hold. *)

\* The number a watch shows is of the articles completed between the analyst's last
\* view and the last evaluation, whatever was viewed or edited while an evaluation was
\* under way (_publish, mark_viewed, update_monitor).
UnseenLiesBetween ==
  watch # None /\ watch.cursor # None =>
    watch.unseen = Cardinality({a \in WatchArticles :
      /\ completed[a] # None
      /\ watch.criteria \in MatchedBy[a]
      /\ watch.viewed < completed[a] /\ completed[a] <= watch.cursor})

\* An article is counted to be announced at most once, views and rewound cursors
\* notwithstanding (search_evaluator, notified_through).
CountedOnce == \A a \in WatchArticles : counted[a] <= 1

\* Both: views, edits and late evaluations neither lose a match nor count it twice.
WatchCountsAreTrue == UnseenLiesBetween /\ CountedOnce

\* What was counted and neither sent, seen nor muted is still owed: taking off what a
\* message announced keeps anything newer (_announced).
NothingOwedIsForgotten == watch # None => Cardinality(owed) <= watch.pending
=============================================================================
