------------------------------- MODULE Stories --------------------------------
(***************************************************************************)
(* Articles grouped into stories, and stories into events                  *)
(* (backend/app/clustering and backend/app/events).                        *)
(*                                                                         *)
(* What two articles have in common (title, entities, opening words, dates)*)
(* is reduced to whether they score above the threshold: the set `alike`   *)
(* of pairs.  Scores are taken to be symmetric, and to change only when an *)
(* article is read again.  What makes a story fit an event is left open:   *)
(* any event the code would look at may win.                               *)
(*                                                                         *)
(* A publication is two steps.  Its transaction begins, which is the       *)
(* moment updated_at = now() will record; then it waits for the lock all   *)
(* assignments take first, and does the rest at once.  The lease, the      *)
(* retries and the generations of its job are those of module NlpPipeline: *)
(* here an article waits for an assignment, or does not.                   *)
(*                                                                         *)
(* Decisions about events hold a lock of their own and the rows of the     *)
(* stories they decide, so that a decision is one step; the refresh of an  *)
(* event after a merge of names (entities/authority.py) holds neither, and *)
(* reads in one step what it writes in another.                            *)
(***************************************************************************)
EXTENDS Naturals, FiniteSets, FiniteSetsExt

CONSTANTS
  None,
  Articles,
  Feeds,
  Stories,     \* ids: as many as can be alive at one time, and one to create
  Events,
  Workers,     \* publications that may be open at one time
  FirstFeeds,  \* the feeds that found the articles: the cases looked at
  Changes,     \* bounds the times an article is read again or carried once more
  Similarities \* the sets of pairs that may be alike

\* The statistics of a story, and the articles they were computed from.
Statistics(articles, carriers) ==
  [articles |-> articles, sources |-> UNION {carriers[a] : a \in articles}]

Facts == [articles : SUBSET Articles, sources : SUBSET Feeds]

\* The moments compared with each other; only their order counts, so they are
\* numbered anew whenever a transaction begins.
Moments == 0..(2 * Cardinality(Stories) + Cardinality(Workers))

StoryRows == [facts : Facts, updated : Moments]
Decisions == [event : Events, seen : Moments, on : Facts]

ASSUME StoriesConstants ==
  /\ None \notin Articles \cup Stories \cup Events
  /\ None \notin StoryRows /\ None \notin Decisions
  /\ \A articles \in SUBSET Articles : articles # None
  /\ IsFiniteSet(Articles) /\ IsFiniteSet(Stories) /\ IsFiniteSet(Workers)
  /\ Stories # {}
  /\ Changes \in Nat
  /\ FirstFeeds \subseteq [Articles -> SUBSET Feeds]
  /\ {} \in Similarities /\ Similarities \subseteq SUBSET kSubset(2, Articles)

VARIABLES
  alike,       \* the pairs of articles that score at least CLUSTER_SCORE_THRESHOLD
  feeds,       \* the feeds that carry each article
  left,        \* changes of the archive still to come
  asked,       \* articles whose newest clustering job has not ended
  failed,      \* articles whose newest job failed for good
  member,      \* StoryClusterMember
  story,       \* StoryCluster
  link,        \* EventCluster
  event,       \* Event: the articles it was last computed from
  indexed,     \* the story an article had when its indexing was last requested
  worker,      \* open transactions of _publish
  touch        \* a refresh by the authority file: the event, and what was read of it

archive == <<alike, feeds, left>>
jobs    == <<asked, failed>>
grouped == <<member, story, indexed>>
decided == <<link, event>>
vars    == <<archive, jobs, grouped, decided, worker, touch>>

Idle == [article |-> None, began |-> 0, superseded |-> FALSE]

Memberships == [Articles -> {s \in Stories : story[s] # None} \cup {None}]

LinkRows == {row \in Decisions : event[row.event] # None}

EventRows == [Events -> (SUBSET Articles) \cup {None}]

\* Besides the types: what belongs to a story or an event belongs to one there is.
TypeOK ==
  /\ alike \in Similarities
  /\ feeds \in [Articles -> SUBSET Feeds]
  /\ left \in 0..Changes
  /\ asked \subseteq Articles
  /\ failed \subseteq Articles
  /\ story \in [Stories -> StoryRows \cup {None}]
  /\ member \in Memberships
  /\ link \in [Stories -> LinkRows \cup {None}]
  /\ \A s \in Stories : link[s] # None => story[s] # None
  /\ event \in EventRows
  /\ indexed \in [Articles -> Stories \cup {None}]
  /\ worker \in [Workers -> [article : Articles \cup {None}, began : Moments, superseded : BOOLEAN]]
  /\ touch \in [event : Events, articles : SUBSET Articles] \cup {None}

\* Every article has been found, by one feed, and none was compared yet.
Init ==
  /\ alike = {}
  /\ feeds \in FirstFeeds
  /\ left = Changes
  /\ asked = {}
  /\ failed = {}
  /\ member = [a \in Articles |-> None]
  /\ story = [s \in Stories |-> None]
  /\ link = [s \in Stories |-> None]
  /\ event = [e \in Events |-> None]
  /\ indexed = [a \in Articles |-> None]
  /\ worker = [w \in Workers |-> Idle]
  /\ touch = None

\* An id nothing has (any, while there is one).
Unused(rows) == CHOOSE id \in DOMAIN rows : (\E free \in DOMAIN rows : rows[free] = None) => rows[id] = None

-----------------------------------------------------------------------------
(* The archive changes. *)

\* request_clustering: a job under way for an older request is superseded.
RequestClustering(a) ==
  /\ asked' = asked \cup {a}
  /\ failed' = failed \ {a}
  /\ worker' = [w \in Workers |->
       [worker[w] EXCEPT !.superseded = @ \/ worker[w].article = a]]

\* NER publishes what an article mentions: its scores change, and it is clustered.
Reread(a, pairs) ==
  /\ left > 0
  /\ \A pair \in alike \ pairs : a \in pair
  /\ \A pair \in pairs \ alike : a \in pair
  /\ alike' = pairs
  /\ left' = left - 1
  /\ RequestClustering(a)
  /\ UNCHANGED <<feeds, grouped, decided, touch>>

\* Another feed carries the article too; its text is the same, so nothing is asked.
Carried(a, f) ==
  /\ left > 0
  /\ f \notin feeds[a]
  /\ feeds' = [feeds EXCEPT ![a] = @ \cup {f}]
  /\ left' = left - 1
  /\ UNCHANGED <<alike, jobs, grouped, decided, worker, touch>>

\* The reclustering command, one article of its batches, or "Retry".
Recluster(a) ==
  /\ left > 0
  /\ left' = left - 1
  /\ RequestClustering(a)
  /\ UNCHANGED <<alike, feeds, grouped, decided, touch>>

-----------------------------------------------------------------------------
(* Assigning an article to a story. *)

SharesSource(a, b) == feeds[a] \cap feeds[b] # {}

\* score_articles is at least the threshold.
Alike(a, b) == {a, b} \in alike

\* What the searches by title, entities and opening words bring, short of the limits.
Found(a) == {b \in Articles \ {a} : Alike(a, b)}

\* Reports of one outlet do not count.
Ranked(a) == {b \in Found(a) : ~SharesSource(a, b)}

Members(s, members) == {a \in Articles : members[a] = s}

\* select_survivor: the largest by the stored count.  Among equals the code takes
\* the oldest; which it is makes no difference here.
Survivors(stories, counts) ==
  {s \in stories : \A other \in stories : counts[s] >= counts[other]}

\* _refresh_cluster, for each of the stale stories: a row is written, and stamped,
\* only when its statistics differ, and a story left with one article is dissolved.
Refreshed(members, stale, stamp) ==
  [s \in Stories |->
     LET now == Statistics(Members(s, members), feeds) IN
     IF s \notin stale THEN story[s]
     ELSE IF Cardinality(now.articles) < 2 THEN None
     ELSE IF story[s] # None /\ story[s].facts = now THEN story[s]
     ELSE [facts |-> now, updated |-> stamp]]

\* Mutant: only the article itself is indexed again.
ToReindexArticle(a, touched, members, stale) == {a}

\* Those the assignment moved, and the members of every story computed again.
ToReindex(a, touched, members, stale) == touched \cup {b \in Articles : members[b] \in stale}

\* _finish: stale stories are computed again, the last article of a dissolved one is
\* left without, and whatever was touched is indexed again if anything changed.  The
\* links of a story that is gone go with it.
Finish(a, stamp, members, stale, merged, touched, changed) ==
  LET fresh   == Refreshed(members, stale, stamp)
      stories == [s \in Stories |-> IF s \in merged THEN None ELSE fresh[s]]
      placed  == [b \in Articles |->
        IF members[b] # None /\ stories[members[b]] = None THEN None ELSE members[b]]
  IN /\ story' = stories
     /\ member' = placed
     /\ link' = [s \in Stories |-> IF stories[s] = None THEN None ELSE link[s]]
     /\ indexed' = [b \in Articles |->
          IF changed /\ b \in ToReindex(a, touched, members, stale)
          THEN placed[b] ELSE indexed[b]]

\* Nothing is like it: it leaves its story.
AssignAlone(a, stamp) ==
  /\ Ranked(a) = {}
  /\ Finish(a, stamp, [member EXCEPT ![a] = None], {member[a]} \ {None}, {}, {a},
            member[a] # None)

\* The stories of all candidates meet.
Involved(base, ranked, members) == ({base} \cup {members[b] : b \in ranked}) \ {None}

\* Mutant: the story the article leaves is not computed again.
StaleJoined(survivor, previous, merged) == {survivor}

\* The stories to compute again.
Stale(survivor, previous, merged) == {survivor} \cup ({previous} \ ({None} \cup merged))

\* Something is: the story of the best match, or a new one with it, becomes the
\* story of every candidate and of the article.
AssignWith(a, stamp, best) ==
  LET created == member[best] = None
      new     == Unused(story)
      base    == IF created THEN new ELSE member[best]
      first   == [member EXCEPT ![best] = base]
      stories == Involved(base, Ranked(a), first)
      counts  == [s \in stories |->
        IF story[s] = None THEN 0 ELSE Cardinality(story[s].facts.articles)]
  IN /\ best \in Ranked(a)
     /\ created => story[new] = None
     /\ \E survivor \in Survivors(stories, counts) :
          LET merged == stories \ {survivor}
              moved  == {b \in Articles : first[b] \in merged}
              joined == [b \in Articles |-> IF b \in moved \cup {a} THEN survivor ELSE first[b]]
          IN Finish(a, stamp, joined, Stale(survivor, member[a], merged), merged,
                    {a} \cup moved \cup (IF created THEN {best} ELSE {}),
                    created \/ merged # {} \/ member[a] # survivor)

-----------------------------------------------------------------------------
(* The workers that publish assignments. *)

Compared == {link[s].seen : s \in {s \in Stories : link[s] # None}}
              \cup {story[s].updated : s \in {s \in Stories : story[s] # None}}
              \cup {worker[w].began : w \in {w \in Workers : worker[w].article # None}}

Numbered(moment) == Cardinality({other \in Compared : other < moment})

\* A job is claimed and loaded, and the transaction begins.
Begin(w, a) ==
  /\ worker[w].article = None
  /\ a \in asked
  /\ story' = [s \in Stories |->
       IF story[s] = None THEN None ELSE [story[s] EXCEPT !.updated = Numbered(@)]]
  /\ link' = [s \in Stories |->
       IF link[s] = None THEN None ELSE [link[s] EXCEPT !.seen = Numbered(@)]]
  /\ worker' = [v \in Workers |->
       IF v = w THEN [article |-> a, began |-> Cardinality(Compared), superseded |-> FALSE]
       ELSE IF worker[v].article = None THEN worker[v]
       ELSE [worker[v] EXCEPT !.began = Numbered(@),
                              !.superseded = @ \/ worker[v].article = a]]
  /\ UNCHANGED <<archive, jobs, member, indexed, event, touch>>

Ends(w) == worker' = [worker EXCEPT ![w] = Idle]

IsCurrent(w) == ~worker[w].superseded

\* The assignment, the job's end and the requests to index, in one transaction.
Publish(w) ==
  LET a == worker[w].article IN
  /\ a # None
  /\ IsCurrent(w)
  /\ \/ AssignAlone(a, worker[w].began)
     \/ \E best \in Articles : AssignWith(a, worker[w].began, best)
  /\ asked' = asked \ {a}
  /\ Ends(w)
  /\ UNCHANGED <<archive, failed, event, touch>>

\* StaleClaim, an error, or the worker dies: nothing is committed.
Abandon(w) ==
  /\ worker[w].article # None
  /\ Ends(w)
  /\ UNCHANGED <<archive, jobs, grouped, decided, touch>>

\* The last attempt fails too.
Fail(w) ==
  LET a == worker[w].article IN
  /\ a # None
  /\ IsCurrent(w)
  /\ asked' = asked \ {a}
  /\ failed' = failed \cup {a}
  /\ Ends(w)
  /\ UNCHANGED <<archive, grouped, decided, touch>>

-----------------------------------------------------------------------------
(* Events. *)

\* dirty_clusters: new, or changed since it was decided.
Dirty(s) == story[s] # None /\ (link[s] # None => story[s].updated > link[s].seen)

StoriesOf(e, links) == {s \in Stories : links[s] # None /\ links[s].event = e}

ArticlesOf(e, links) == {a \in Articles : member[a] \in StoriesOf(e, links)}

\* Mutant: an event left with one story is deleted.
RefreshedPlural(e, links) ==
  IF Cardinality(StoriesOf(e, links)) < 2 THEN None ELSE ArticlesOf(e, links)

\* Mutant: an event without stories is kept.
RefreshedKept(e, links) == ArticlesOf(e, links)

\* refresh_event: what the event shows, from its stories; without any it is deleted.
RefreshedEvent(e, links) ==
  IF StoriesOf(e, links) = {} THEN None ELSE ArticlesOf(e, links)

\* The events candidate_event_ids may return: those with entities of some article.
Candidates == {e \in Events : event[e] \notin {None, {}}}

Current(s) == IF link[s] = None THEN None ELSE link[s].event

\* event_facts_without: other stories are in the event too.
HasOthers(s) == Current(s) # None /\ StoriesOf(Current(s), link) # {s}

\* choose_event and _decide: the current event while other stories keep it and it
\* still fits; else one that fits better; else its own, kept or created.
MayChoose(s, e) ==
  \/ e = Current(s)
  \/ e \in Candidates
  \/ /\ e = Unused(event)
     /\ event[e] = None
     /\ Current(s) # None => HasOthers(s)

Affected(s, e) == {e, Current(s)} \ {None}

\* One story of a batch; a decision that fails is rolled back by itself.
Decide(s, e) ==
  LET links == [link EXCEPT ![s] =
        [event |-> e, seen |-> story[s].updated, on |-> story[s].facts]]
  IN /\ Dirty(s)
     /\ MayChoose(s, e)
     /\ link' = links
     /\ event' = [d \in Events |->
          IF d \in Affected(s, e) THEN RefreshedEvent(d, links) ELSE event[d]]
     /\ UNCHANGED <<archive, jobs, grouped, worker, touch>>

\* reconcile_events, of the events of the last week: those of the model.
Reconcile ==
  /\ event' = [e \in Events |-> IF event[e] = None THEN None ELSE RefreshedEvent(e, link)]
  /\ UNCHANGED <<archive, jobs, grouped, link, worker, touch>>

\* The events of articles a merge of names moved: read, and written a moment later.
ReadEvent(e) ==
  /\ touch = None
  /\ event[e] # None
  /\ StoriesOf(e, link) # {}
  /\ touch' = [event |-> e, articles |-> ArticlesOf(e, link)]
  /\ UNCHANGED <<archive, jobs, grouped, decided, worker>>

\* The event may have been deleted in between.
WriteEvent ==
  /\ touch # None
  /\ event' = [e \in Events |->
       IF e = touch.event /\ event[e] # None THEN touch.articles ELSE event[e]]
  /\ touch' = None
  /\ UNCHANGED <<archive, jobs, grouped, link, worker>>

Changing ==
  \/ \E a \in Articles, pairs \in Similarities : Reread(a, pairs)
  \/ \E a \in Articles, f \in Feeds : Carried(a, f)
  \/ \E a \in Articles : Recluster(a)

Working ==
  \/ \E w \in Workers, a \in Articles : Begin(w, a)
  \/ \E w \in Workers : Publish(w) \/ Abandon(w) \/ Fail(w)

Deciding ==
  \/ \E s \in Stories, e \in Events : Decide(s, e)
  \/ Reconcile
  \/ \E e \in Events : ReadEvent(e)
  \/ WriteEvent

Next == Changing \/ Working \/ Deciding

\* The scheduler asks for decisions and for sweeps every few minutes; the workers
\* that assign articles are left free to stop.
Fairness ==
  /\ \A s \in Stories : WF_vars(\E e \in Events : Decide(s, e))
  /\ WF_vars(Reconcile)
  /\ WF_vars(WriteEvent)

Spec == Init /\ [][Next]_vars /\ Fairness

-----------------------------------------------------------------------------
(* What should hold. *)

\* A story has at least two articles, and its stored count, sources and dates are
\* of the articles that belong to it: each assignment, of whatever article, leaves
\* no story behind that it took one from (_refresh_cluster).
StoriesCountTheirArticles ==
  \A s \in Stories :
    IF story[s] = None THEN Members(s, member) = {}
    ELSE /\ Cardinality(Members(s, member)) >= 2
         /\ story[s].facts.articles = Members(s, member)

\* The search document of an article is asked for again in every transaction that
\* moves the article into, out of or between stories (_finish).
MovedArticlesAreIndexed == \A a \in Articles : indexed[a] = member[a]

\* A story that is no longer what it was when its event was chosen is decided again
\* (dirty_clusters).
ChangedStoryIsDirty ==
  \A s \in Stories :
    story[s] # None /\ link[s] # None /\ link[s].on # story[s].facts => Dirty(s)

\* Once the archive rests, every story has an event, every event has stories, and
\* it shows their articles (run_batch, reconcile_events).
EventsSettle ==
  <>[](/\ \A s \in Stories : story[s] # None => link[s] # None /\ event[link[s].event] # None
       /\ \A e \in Events : event[e] # None =>
            StoriesOf(e, link) # {} /\ event[e] = ArticlesOf(e, link))
=============================================================================
