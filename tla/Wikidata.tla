------------------------------- MODULE Wikidata -------------------------------
(***************************************************************************)
(* The links of authority roots to Wikidata items: the user's decisions    *)
(* (backend/app/wikidata/links.py and routes.py), the runs that search for *)
(* candidates and refresh linked items (runs.py, candidates.py,            *)
(* refresh.py), the local copy of the items (cache.py) and the throttle    *)
(* every request goes through (throttle.py, client.py).                    *)
(*                                                                         *)
(* An item stands for its own content: a root carries the identifiers, or  *)
(* the labels, "of" an item.  The roots are named roots of a kind Wikidata *)
(* types, none of them ambiguous, hidden or short of articles.             *)
(***************************************************************************)
EXTENDS Naturals, Sequences, FiniteSets, FiniteSetsExt, Functions, Leasing

CONSTANTS
  LastRoot,         \* the roots are 1..LastRoot, in the order of their ids
  Items,
  TurnsInto,        \* the item each item may be merged into
  FoundFor,         \* the items that carry a name of the root: [1..LastRoot -> SUBSET Items]
  LabelOf,          \* those of them whose label is the root's name
  TypeOf,           \* those of them that are of the root's type
  RunTokens,        \* bounds the claims known at one time
  MaxRuns,          \* bounds the runs queued
  DailyBudget,
  SweepBatch        \* roots a sweep works between two saves of its place

ASSUME WikidataConstants ==
  /\ LastRoot \in Nat \ {0} /\ MaxRuns \in Nat /\ DailyBudget \in Nat
  /\ SweepBatch \in Nat \ {0}
  /\ TurnsInto \in [Items -> Items] /\ \A q \in Items : TurnsInto[TurnsInto[q]] = TurnsInto[q]
  /\ FoundFor \in [1..LastRoot -> SUBSET Items]
  /\ None \notin Nat \cup Items \cup RunTokens \cup {"queued", "finished", "failed"}

VARIABLES
  file,             \* what the roots carry: links, identifiers, labels, candidates
  copy,             \* the cached items, those checked long ago, the searches kept
  site,             \* the items on Wikidata
  runs,             \* the WikidataRun rows, in the order they were created
  notices,          \* the messages that hand a run to a worker
  asker,            \* the worker of each claim
  throttle          \* the throttle's row

wikidataVars == <<file, copy, site, runs, notices, asker, throttle>>

Roots == 1..LastRoot
ItemOrNone == Items \cup {None}
ItemStates == {"ok", "redirected", "missing"}
CandidateStates == {None, "open", "exact", "dismissed"}
CacheStates == {None, "light", "full", "redirected", "missing"}
OpenRunStates == {"queued", "running"}
Over == {"finished", "failed", "stopped"}

FileRows ==
  [link : [Roots -> ItemOrNone], ids : [Roots -> ItemOrNone], labels : [Roots -> SUBSET Items],
   candidate : [Roots -> [Items -> CandidateStates]]]

\* root is None for a sweep.  today: the run was created, or ended, within the day.
\* owes is history: the roots a candidates sweep has still to come to.
RunRows ==
  [kind : {"candidates", "refresh"}, root : Roots \cup {None}, status : OpenRunStates \cup Over,
   cursor : 0..LastRoot, token : RunTokens \cup {None}, leased : BOOLEAN, addLabels : BOOLEAN,
   createdToday : BOOLEAN, endedToday : BOOLEAN, owes : SUBSET Roots]

Nobody == [pc |-> "idle", run |-> 0, cursor |-> 0, last |-> 0, addLabels |-> FALSE,
           batch |-> {}, links |-> [r \in Roots |-> None], wanted |-> [r \in Roots |-> {}],
           pages |-> [q \in Items |-> None], ends |-> None]

WikidataTypeOK ==
  /\ file \in FileRows
  /\ copy.state \in [Items -> CacheStates]
  /\ copy.aged \subseteq Items /\ copy.searched \subseteq Roots
  /\ site \in [Items -> ItemStates]
  /\ Len(runs) <= MaxRuns /\ \A i \in DOMAIN runs : runs[i] \in RunRows
  /\ \A t \in RunTokens : asker[t].batch \subseteq Roots /\ asker[t].run \in 0..Len(runs)
  /\ throttle.held \in RunTokens \cup {None} /\ throttle.spent \in 0..DailyBudget

WikidataInit ==
  /\ file = [link |-> [r \in Roots |-> None], ids |-> [r \in Roots |-> None],
             labels |-> [r \in Roots |-> {}],
             candidate |-> [r \in Roots |-> [q \in Items |-> None]]]
  /\ copy = [state |-> [q \in Items |-> None], aged |-> {}, searched |-> {}]
  /\ site = [q \in Items |-> "ok"]
  /\ runs = <<>>
  /\ notices = {}
  /\ asker = [t \in RunTokens |-> Nobody]
  /\ throttle = [held |-> None, paused |-> FALSE, spent |-> 0]

-----------------------------------------------------------------------------
(* Wikidata itself, and the clock. *)

ItemChanges(q) ==
  /\ site[q] = "ok"
  /\ site' \in {[site EXCEPT ![q] = "missing"]} \cup
               (IF TurnsInto[q] = q THEN {} ELSE {[site EXCEPT ![q] = "redirected"]})
  /\ UNCHANGED <<file, copy, runs, notices, asker, throttle>>

\* After many days every copy is due for its check, and the searches are forgotten.
DayPasses(many) ==
  /\ throttle' = [throttle EXCEPT !.spent = 0]
  /\ runs' = [i \in DOMAIN runs |->
                [runs[i] EXCEPT !.createdToday = FALSE, !.endedToday = FALSE]]
  /\ copy' = IF many THEN [copy EXCEPT !.aged = Items, !.searched = {}] ELSE copy
  /\ UNCHANGED <<file, site, notices, asker>>

PauseEnds ==
  /\ throttle.paused
  /\ throttle' = [throttle EXCEPT !.paused = FALSE]
  /\ UNCHANGED <<file, copy, site, runs, notices, asker>>

RunLeaseExpires(i) ==
  /\ runs[i].leased
  /\ runs' = [runs EXCEPT ![i].leased = FALSE]
  /\ UNCHANGED <<file, copy, site, notices, asker, throttle>>

-----------------------------------------------------------------------------
(* The runs a request or the schedule queues. *)

NewRun(kind, root, addLabels) ==
  [kind |-> kind, root |-> root, status |-> "queued", cursor |-> 0, token |-> None,
   leased |-> FALSE, addLabels |-> addLabels, createdToday |-> TRUE, endedToday |-> FALSE,
   owes |-> IF kind = "candidates" /\ root = None
            THEN {r \in Roots : file.link[r] = None} ELSE {}]

Pending(rows, kind, root) ==
  {i \in DOMAIN rows : /\ rows[i].kind = kind /\ rows[i].root = root
                       /\ rows[i].status \in OpenRunStates}

\* queue_fetch.
FetchQueued(rows, r, addLabels) ==
  LET pending == Pending(rows, "refresh", r)
  IN IF pending = {} THEN Append(rows, NewRun("refresh", r, addLabels))
     ELSE [rows EXCEPT ![Min(pending)].addLabels = @ \/ addLabels]

OnlyRuns == UNCHANGED <<file, copy, site, notices, asker, throttle>>

\* request_search: one unfinished run for the root is enough.
RequestSearch(r) ==
  /\ file.link[r] = None
  /\ Pending(runs, "candidates", r) = {}
  /\ runs' = Append(runs, NewRun("candidates", r, FALSE))
  /\ OnlyRuns

RequestItemRefresh(r) ==
  /\ file.link[r] # None
  /\ runs' = FetchQueued(runs, r, FALSE)
  /\ OnlyRuns

\* claims_fetched is kept with a redirect or a deletion too.
DueItem(q) == copy.state[q] \in {None, "light"} \/ q \in copy.aged

DueRoots == {r \in Roots : file.link[r] # None /\ DueItem(file.link[r])}

SweepRuns(kind) == {i \in DOMAIN runs : runs[i].kind = kind /\ runs[i].root = None}

\* ensure_sweep and ensure_refresh; the same sweeps by hand (_queue_wikidata), where
\* the day is not asked about.
QueueSweep(kind, byHand) ==
  /\ Pending(runs, kind, None) = {}
  /\ ~byHand =>
       CASE kind = "candidates" ->
              \A i \in SweepRuns(kind) : ~(/\ runs[i].endedToday
                                        /\ runs[i].status \in {"finished", "stopped"})
         [] kind = "refresh" ->
              (\A i \in SweepRuns(kind) : ~runs[i].createdToday) /\ DueRoots # {}
  /\ runs' = Append(runs, NewRun(kind, None, FALSE))
  /\ OnlyRuns

RunReleased(row, status) ==
  [row EXCEPT !.status = status, !.token = None, !.leased = FALSE, !.endedToday = status \in Over]

\* processes/actions.stop: a sweep or a root's run, queued or in hand.
StopWikidataRun(i) ==
  /\ runs[i].status \in OpenRunStates
  /\ runs' = [runs EXCEPT ![i] = RunReleased(@, "stopped")]
  /\ OnlyRuns

-----------------------------------------------------------------------------
(* The user's decisions. *)

\* The item a link to q is made to, following a redirect the cache knows.
Target(q) == IF copy.state[q] = "redirected" THEN TurnsInto[q] ELSE q

MayLink(f, r, q) ==
  /\ copy.state[q] # "missing"
  /\ f.link[r] = None
  /\ \A s \in Roots : f.link[s] # q

LinkedTo(f, r, q) ==
  [f EXCEPT !.link[r] = q,
            !.ids[r] = IF copy.state[q] = "full" THEN q ELSE @,
            !.candidate[r] = [p \in Items |-> None],
            !.labels[r] = IF copy.state[q] # None THEN @ \cup {q} ELSE @]

\* No sweep owes a root that has been linked.
Excused(rows, r) == [i \in DOMAIN rows |-> [rows[i] EXCEPT !.owes = @ \ {r}]]

RunsOnLink(rows, r, q) ==
  Excused(IF copy.state[q] \in {None, "light"} THEN FetchQueued(rows, r, copy.state[q] = None)
          ELSE rows, r)

Link(r, q) ==
  /\ MayLink(file, r, Target(q))
  /\ file' = LinkedTo(file, r, Target(q))
  /\ runs' = RunsOnLink(runs, r, Target(q)) /\ Len(runs') <= MaxRuns
  /\ UNCHANGED <<copy, site, notices, asker, throttle>>

ExactOf(f, r) == {q \in Items : f.candidate[r][q] = "exact" /\ f.link[r] = None}

\* One root's turn in approve_exact_wikidata_candidates: a refused item is skipped.
Approved(done, r) ==
  IF \A q \in ExactOf(file, r) : ~MayLink(done.file, r, Target(q)) THEN done
  ELSE LET q == Target(CHOOSE p \in ExactOf(file, r) : MayLink(done.file, r, Target(p)))
       IN [file |-> LinkedTo(done.file, r, q), runs |-> RunsOnLink(done.runs, r, q)]

ApprovedInTurn ==
  LET after[r \in 0..LastRoot] ==
        IF r = 0 THEN [file |-> file, runs |-> runs] ELSE Approved(after[r - 1], r)
  IN after[LastRoot]

\* Every root's exact candidate is linked in one transaction.
ApproveExact ==
  LET all == ApprovedInTurn
  IN /\ all.file # file /\ Len(all.runs) <= MaxRuns
     /\ file' = all.file /\ runs' = all.runs
     /\ UNCHANGED <<copy, site, notices, asker, throttle>>

AddItemNames(r) ==
  /\ file.link[r] # None /\ copy.state[file.link[r]] # None
  /\ file' = [file EXCEPT !.labels[r] = @ \cup {file.link[r]}]
  /\ UNCHANGED <<copy, site, runs, notices, asker, throttle>>

Unlink(r) ==
  /\ file.link[r] # None
  /\ file' = [file EXCEPT !.link[r] = None, !.ids[r] = None]
  /\ UNCHANGED <<copy, site, runs, notices, asker, throttle>>

Dismiss(r, q) ==
  /\ file.candidate[r][q] # None
  /\ file' = [file EXCEPT !.candidate[r][q] = "dismissed"]
  /\ UNCHANGED <<copy, site, runs, notices, asker, throttle>>

-----------------------------------------------------------------------------
(* The claim of a run and the message that hands it to a worker. *)

Blocked == throttle.paused \/ throttle.spent >= DailyBudget

\* The buttons first, then a refresh, then the sweep; the oldest of each.
Rank(row) == IF row.root # None THEN IF row.kind = "refresh" THEN 0 ELSE 1
             ELSE IF row.kind = "refresh" THEN 2 ELSE 3

FreeRuns == {i \in DOMAIN runs : \/ runs[i].status = "queued"
                                 \/ runs[i].status = "running" /\ ~runs[i].leased}

FirstRun(i) == \A j \in FreeRuns : \/ Rank(runs[i]) < Rank(runs[j])
                                   \/ Rank(runs[i]) = Rank(runs[j]) /\ i <= j

\* claim_run: one run at a time, and none while Wikidata waits.
ClaimRun(t, i) ==
  /\ ~Blocked
  /\ \A j \in DOMAIN runs : ~(runs[j].status = "running" /\ runs[j].leased)
  /\ i \in FreeRuns /\ FirstRun(i)
  /\ asker[t].pc = "idle" /\ \A n \in notices : n.token # t
  /\ \A j \in DOMAIN runs : runs[j].token # t
  /\ runs' = [runs EXCEPT ![i].status = "running", ![i].token = t, ![i].leased = TRUE]
  /\ notices' = notices \cup {[run |-> i, token |-> t]}
  /\ UNCHANGED <<file, copy, site, asker, throttle>>

\* The queue refuses the message, or loses it: the claim runs out.
LoseNotice(n) ==
  /\ notices' = notices \ {n}
  /\ UNCHANGED <<file, copy, site, runs, asker, throttle>>

-----------------------------------------------------------------------------
(* The worker: process_run, refresh_roots and find_candidates. *)

\* Mutant: a worker writes to its run whoever holds it.
HoldingAlways(t) == TRUE

\* _update writes only to a run the worker still holds.
Holding(t) == runs[asker[t].run].token = t /\ runs[asker[t].run].status = "running"

OnlyAsker == UNCHANGED <<file, copy, site, runs, notices, throttle>>

StartRun(n) ==
  LET row == runs[n.run]
  IN /\ notices' = notices \ {n}
     /\ asker' = IF row.token = n.token /\ row.status = "running"
                 THEN [asker EXCEPT ![n.token] =
                         [Nobody EXCEPT !.pc = "next", !.run = n.run, !.cursor = row.cursor,
                                        !.addLabels = row.addLabels]]
                 ELSE asker
     /\ UNCHANGED <<file, copy, site, runs, throttle>>

\* The roots of the next batch: due_refresh_roots or eligible_roots after the cursor.
NextRoots(kind, cursor) ==
  LET after == {r \in Roots : r > cursor /\ IF kind = "refresh" THEN r \in DueRoots
                                            ELSE file.link[r] = None}
  IN {r \in after : Cardinality({s \in after : s < r}) < SweepBatch}

Forced(row) == row.root # None

\* A root's run is finished with its one batch, a sweep saves its place.
Worked(w) ==
  [w EXCEPT !.pc = IF runs[w.run].root = None THEN "save" ELSE "end", !.ends = "finished"]

\* The next batch is chosen, and what it works from is read: for a refresh the links,
\* for a search the roots' names.
TakeBatch(t) ==
  LET w == asker[t]
      row == runs[w.run]
      batch == IF row.root # None THEN {row.root} ELSE NextRoots(row.kind, w.cursor)
      links == [r \in Roots |->
                  IF /\ r \in batch /\ file.link[r] # None /\ row.kind = "refresh"
                     /\ Forced(row) \/ DueItem(file.link[r])
                  THEN file.link[r] ELSE None]
  IN /\ w.pc = "next"
     /\ asker' = [asker EXCEPT ![t] =
          IF batch = {} THEN [w EXCEPT !.pc = "end", !.ends = "finished"]
          ELSE IF row.kind = "refresh" /\ \A r \in Roots : links[r] = None
               THEN Worked([w EXCEPT !.last = Max(batch)])
               ELSE [w EXCEPT !.batch = batch, !.last = Max(batch), !.links = links,
                              !.pc = IF row.kind = "refresh" THEN "info" ELSE "search"]]
     /\ OnlyAsker

\* wikidata_run_batch_seconds are over: the sweep goes back to the queue.
RunsOutOfTime(t) ==
  /\ asker[t].pc = "next" /\ runs[asker[t].run].root = None
  /\ asker' = [asker EXCEPT ![t].pc = "end", ![t].ends = "queued"]
  /\ OnlyAsker

ToAsk == {"search", "lightly", "classes", "info", "fully"}

\* Every root of the batch has been searched for: nothing is asked.
SearchKept(t) ==
  /\ asker[t].pc = "search" /\ asker[t].batch \subseteq copy.searched
  /\ asker' = [asker EXCEPT ![t].pc = "found"]
  /\ OnlyAsker

\* A slot of the throttle: the row is locked until the answer.  No request may go out
\* while it pauses or the budget is spent, and the run goes back to the queue.
TakeSlot(t) ==
  /\ asker[t].pc \in ToAsk /\ throttle.held = None
  /\ ~(asker[t].pc = "search" /\ asker[t].batch \subseteq copy.searched)
  /\ IF Blocked
     THEN /\ asker' = [asker EXCEPT ![t].pc = "end", ![t].ends = "queued"]
          /\ UNCHANGED throttle
     ELSE throttle' = [throttle EXCEPT !.held = t] /\ UNCHANGED asker
  /\ UNCHANGED <<file, copy, site, runs, notices>>

Linked(w) == {w.links[r] : r \in Roots} \ {None}

\* _needs_fetch: an item with a new revision, a lost one, or one never fetched in full.
NeedsFetch(q) == site[q] # "ok" \/ copy.state[q] # "full"

\* What an answer leaves the worker with, and keeps at once.
Answered(t) ==
  LET w == asker[t]
  IN CASE w.pc = "search" ->
            /\ asker' = [asker EXCEPT ![t].pc = "found"]
            /\ copy' = [copy EXCEPT !.searched = @ \cup w.batch]
       [] w.pc = "lightly" ->
            LET new == {q \in UNION Range(w.wanted) : copy.state[q] = None}
            IN /\ asker' = [asker EXCEPT ![t].pc = "suggest"]
               /\ copy' = [copy EXCEPT
                    !.state = [q \in Items |-> IF q \notin new THEN @[q]
                                               ELSE IF site[q] = "ok" THEN "light" ELSE site[q]],
                    !.aged = @ \ new]
       [] w.pc = "classes" -> asker' = [asker EXCEPT ![t].pc = "suggest"] /\ UNCHANGED copy
       [] w.pc = "info" ->
            LET fetch == {q \in Linked(w) : NeedsFetch(q)}
                known == {q \in fetch : \/ site[q] = "missing"
                                        \/ site[q] = "redirected" /\ site[TurnsInto[q]] # "ok"}
            IN /\ asker' = [asker EXCEPT
                    ![t].pages = [q \in Items |-> IF q \notin Linked(w) THEN None
                                                  ELSE IF q \in fetch THEN site[q] ELSE "same"],
                    ![t].pc = IF fetch = known THEN "apply" ELSE "fully"]
               /\ UNCHANGED copy
       [] w.pc = "fully" ->
            /\ asker' = [asker EXCEPT ![t].pc = "apply",
                 ![t].pages = [q \in Items |->
                    IF \/ @[q] = "ok"
                       \/ \E p \in Items \ {q} : @[p] = "redirected" /\ TurnsInto[p] = q
                    THEN site[q] ELSE @[q]]]
            /\ UNCHANGED copy

Spent(row) == [row EXCEPT !.held = None, !.spent = @ + 1]

Answer(t) ==
  /\ throttle.held = t
  /\ Answered(t)
  /\ throttle' = Spent(throttle)
  /\ UNCHANGED <<file, site, runs, notices>>

\* The answer is a refusal or an error: all traffic pauses, and the run has failed.
Refused(t) ==
  /\ throttle.held = t
  /\ throttle' = [Spent(throttle) EXCEPT !.paused = TRUE]
  /\ asker' = [asker EXCEPT ![t].pc = "end", ![t].ends = "failed"]
  /\ UNCHANGED <<file, copy, site, runs, notices>>

\* find_candidates: the items another root holds, and those dismissed, are left out.
LeaveOut(t) ==
  LET w == asker[t]
      wanted == [r \in Roots |->
                   IF r \notin w.batch THEN {}
                   ELSE {q \in FoundFor[r] : /\ file.candidate[r][q] # "dismissed"
                                             /\ \A s \in Roots \ {r} : file.link[s] # q}]
  IN /\ w.pc = "found"
     /\ asker' = [asker EXCEPT ![t].wanted = wanted,
          ![t].pc = IF \E q \in UNION Range(wanted) : copy.state[q] = None
                    THEN "lightly" ELSE "suggest"]
     /\ OnlyAsker

\* _instance_of and type_matches: an item that has a label of the root in turn is scored
\* with its type, and what that is may take any number of requests.
AskClasses(t) ==
  LET w == asker[t]
  IN /\ w.pc = "suggest"
     /\ \E q \in w.wanted[Min(w.batch)] \cap LabelOf[Min(w.batch)] : copy.state[q] \in {"light", "full"}
     /\ asker' = [asker EXCEPT ![t].pc = "classes"]
     /\ OnlyAsker

\* exact_choice.
Exact(r, scored) ==
  {q \in scored \cap LabelOf[r] : scored \cap LabelOf[r] = {q} /\ q \in TypeOf[r]}

\* _score_root and _write for one root: a dismissed candidate stays as it is.
Suggest(t, r) ==
  LET w == asker[t]
      scored == {q \in w.wanted[r] : copy.state[q] \in {"light", "full"}}
  IN /\ w.pc = "suggest" /\ r \in w.batch /\ r = Min(w.batch)
     /\ file' = [file EXCEPT !.candidate[r] = [q \in Items |->
          IF @[q] = "dismissed" THEN "dismissed"
          ELSE IF q \notin scored THEN None ELSE IF q \in Exact(r, scored) THEN "exact" ELSE "open"]]
     /\ runs' = [runs EXCEPT ![w.run].owes = @ \ {r}]
     /\ asker' = [asker EXCEPT ![t] =
          IF w.batch = {r} THEN Worked(w) ELSE [w EXCEPT !.batch = @ \ {r}]]
     /\ UNCHANGED <<copy, site, notices, throttle>>

\* What a refresh writes of one root: nothing looks whether the root still has the link
\* it was read with, but the move of a redirected one.
Refreshed(w, f, r) ==
  LET q == w.links[r]
      target == TurnsInto[q]
  IN CASE q = None -> f
       [] q # None /\ w.pages[q] = "ok" ->
            [f EXCEPT !.ids[r] = q, !.labels[r] = IF w.addLabels THEN @ \cup {q} ELSE @]
       [] q # None /\ w.pages[q] = "redirected" /\ (\A s \in Roots : f.link[s] # target) ->
            [f EXCEPT !.link[r] = IF @ = q THEN target ELSE @,
                      !.ids[r] = IF w.pages[target] = "ok" THEN target ELSE @]
       [] OTHER -> f

RefreshedInTurn(w) ==
  LET after[r \in 0..LastRoot] == IF r = 0 THEN file ELSE Refreshed(w, after[r - 1], r)
  IN after[LastRoot]

\* The cached items and the roots, in one transaction.
Apply(t) ==
  LET w == asker[t]
      stored == {q \in Items : w.pages[q] \in ItemStates}
  IN /\ w.pc = "apply"
     /\ file' = RefreshedInTurn(w)
     /\ copy' = [copy EXCEPT
          !.state = [q \in Items |-> IF q \notin stored THEN @[q]
                                     ELSE IF w.pages[q] = "ok" THEN "full" ELSE w.pages[q]],
          !.aged = @ \ (stored \cup Linked(w))]
     /\ asker' = [asker EXCEPT ![t] = Worked(w)]
     /\ UNCHANGED <<site, runs, notices, throttle>>

\* The sweep's place is saved behind the batch, and the claim is renewed with it.
SavePlace(t) ==
  LET w == asker[t]
  IN /\ w.pc = "save"
     /\ IF Holding(t)
        THEN /\ runs' = [runs EXCEPT ![w.run].cursor = w.last, ![w.run].leased = TRUE]
             /\ asker' = [asker EXCEPT ![t] = [Nobody EXCEPT
                  !.pc = "next", !.run = w.run, !.addLabels = w.addLabels, !.cursor = w.last]]
        ELSE UNCHANGED runs /\ asker' = [asker EXCEPT ![t] = Nobody]
     /\ UNCHANGED <<file, copy, site, notices, throttle>>

EndRun(t) ==
  LET w == asker[t]
  IN /\ w.pc = "end"
     /\ runs' = IF Holding(t) THEN [runs EXCEPT ![w.run] = RunReleased(@, w.ends)] ELSE runs
     /\ asker' = [asker EXCEPT ![t] = Nobody]
     /\ UNCHANGED <<file, copy, site, notices, throttle>>

\* A request under way when its worker dies is not counted, and pauses nothing.
AskerDies(t) ==
  /\ asker[t].pc # "idle"
  /\ notices' \in {notices, notices \cup {[run |-> asker[t].run, token |-> t]}}
  /\ asker' = [asker EXCEPT ![t] = Nobody]
  /\ throttle' = IF throttle.held = t THEN [throttle EXCEPT !.held = None] ELSE throttle
  /\ UNCHANGED <<file, copy, site, runs>>

-----------------------------------------------------------------------------
WikidataChanges == (\E q \in Items : ItemChanges(q)) \/ (\E b \in BOOLEAN : DayPasses(b)) \/ PauseEnds

Decisions ==
  \/ \E r \in Roots : \/ Unlink(r) \/ AddItemNames(r)
                      \/ \E q \in Items : Link(r, q) \/ Dismiss(r, q)
  \/ ApproveExact

Queueing ==
  \/ /\ Len(runs) < MaxRuns
     /\ \/ \E r \in Roots : RequestSearch(r) \/ RequestItemRefresh(r)
        \/ \E kind \in {"candidates", "refresh"}, b \in BOOLEAN : QueueSweep(kind, b)
  \/ \E i \in DOMAIN runs : StopWikidataRun(i)

Handing ==
  \/ \E i \in DOMAIN runs : RunLeaseExpires(i) \/ \E t \in RunTokens : ClaimRun(t, i)
  \/ \E n \in notices : LoseNotice(n)

Asking ==
  \/ \E n \in notices : StartRun(n)
  \/ \E t \in RunTokens :
       \/ TakeBatch(t) \/ RunsOutOfTime(t) \/ SearchKept(t) \/ TakeSlot(t) \/ Answer(t)
       \/ Refused(t) \/ LeaveOut(t) \/ AskClasses(t) \/ Apply(t) \/ SavePlace(t) \/ EndRun(t)
       \/ AskerDies(t)
       \/ \E r \in Roots : Suggest(t, r)

WikidataNext == WikidataChanges \/ Decisions \/ Queueing \/ Handing \/ Asking

-----------------------------------------------------------------------------
(* Properties. *)

\* A sweep that has finished came to every root that was without a link all along,
\* whatever paused it, took it over or stopped its worker; one under way still has
\* before it those it has not come to (runs.py, process_run and its cursor).
SweepSkipsNoRoot ==
  \A i \in DOMAIN runs :
    /\ runs[i].status = "finished" => runs[i].owes = {}
    /\ \A r \in runs[i].owes : r > runs[i].cursor

\* A run that has ended stays as it ended, though the worker that held it, or one whose
\* claim ran out, goes on with it (runs.py _update; processes/actions.py stop).
RunEndsOnce ==
  [][\A i \in DOMAIN runs : runs[i].status \in Over => runs'[i].status = runs[i].status]_runs

\* Both: a run that is handed from worker to worker ends once, having done what it was for.
RunsDoTheirWork == []SweepSkipsNoRoot /\ RunEndsOnce

\* The identifiers of a root are those of the item it is linked to (links.py: "the VIAF,
\* ISNI and LCNAF numbers beside it are read off the item").
IdentifiersAreOfTheLinkedItem == \A r \in Roots : file.ids[r] \in {None, file.link[r]}

\* A candidate the user dismissed is not suggested for the root again (routes.py,
\* dismiss_wikidata_candidate).
DismissedIsNeverSuggested ==
  [][\A r \in Roots, q \in Items :
       file.candidate[r][q] = "dismissed" => file'.candidate[r][q] = "dismissed"]_file

=============================================================================
