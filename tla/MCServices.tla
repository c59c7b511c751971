----------------------------- MODULE MCServices -----------------------------
(***************************************************************************)
(* The services beside the pipeline: watches and their notifications,      *)
(* feeds, Wikidata links, the processes page and the reading of the        *)
(* archive.  They share no state, so a behaviour exercises one of them,    *)
(* part, and leaves the others as they begin.  Three are exercised twice:  *)
(* a watch with its edits and evaluations, then with its messages; a feed  *)
(* that publishes, then one whose address is changed; Wikidata with one    *)
(* run and its workers, then with a second run that a link queues and      *)
(* items that are deleted.                                                 *)
(***************************************************************************)
EXTENDS Watches, Feeds, Wikidata, Processes, Readings, TLC

CONSTANTS q1, q2

(* The messages sent are about one of the articles, for one of the criteria.*)
ASSUME SomethingIsWatched == WatchArticles # {} /\ Criteria # {}

VARIABLE part

serviceVars == <<part, watchVars, feedVars, wikidataVars, processVars, readingVars>>

-----------------------------------------------------------------------------
(* Feeds: the address serves two entries of one article and one that cannot*)
(* be read, then the first of them and a new one.                           *)
MCEditions == [u \in Addresses |-> [n \in 0..LastEdition |->
                 CASE u = "u1" /\ n = 0 -> <<"e1b", "e1", "bad">>
                   [] u = "u1" /\ n > 0 -> <<"e1b", "e2">>
                   [] OTHER             -> <<"e3">>]]
MCGuidOf == [e1 |-> "g1", e1b |-> "g1", e2 |-> "g2", e3 |-> "g3", bad |-> "g4"]
MCArticleOf == [e1 |-> "a1", e1b |-> "a1", e2 |-> "a2", e3 |-> "a3", bad |-> None]

(* Watches: either criteria match either article.                           *)
MCMatchedBy == [a \in WatchArticles |-> Criteria]

(* Wikidata: one item carries both names and is the first one's exact       *)
(* match; in the other instance it has become another item.                 *)
MCTurnsInto == [q \in Items |-> IF q2 \in Items THEN q2 ELSE q]
MCFoundFor  == [r \in 1..LastRoot |-> IF r = 1 THEN Items ELSE {MCTurnsInto[q] : q \in Items}]
MCLabelOf   == [r \in 1..LastRoot |-> IF r = 1 THEN {q1} ELSE {}]
MCTypeOf    == [r \in 1..LastRoot |-> IF r = 1 THEN {q1} ELSE Items \ {q1}]

(* Readings: two articles of two stories and two events, and a third one    *)
(* of the first story to come.                                              *)
MCCountryOf   == <<1, 2>>
MCKindOf      == <<1, 1, 2>>
MCFirstEvents == <<1, 2>>
MCScoreOf     == <<2, 1, 2>>
MCFirstFacts  ==
    <<[date |-> 1, found |-> 2, sources |-> {1}, story |-> 1, names |-> {1, 2}, finished |-> 1],
      [date |-> 2, found |-> 2, sources |-> {2}, story |-> 2, names |-> {1, 2, 3}, finished |-> 2],
      [date |-> 2, found |-> 2, sources |-> {1}, story |-> 1, names |-> {2}, finished |-> None]>>

Anything == [sources |-> {}, countries |-> {}, tagged |-> FALSE, names |-> {}, kinds |-> {},
             from |-> 0, to |-> LastDay + 1, stories |-> {}, event |-> None]

MCRequests ==
    [view : {"search"}, c : {Anything, [Anything EXCEPT !.event = 1]}, sort : {"newest", "oldest"}]
    \cup [view : {"search"}, c : {[Anything EXCEPT !.names = {2}]}, sort : {"relevance"}]
    \cup [view : {"search"}, c : {[Anything EXCEPT !.tagged = TRUE]}, sort : {"most_sources"}]
    \cup [view : {"export"}, c : {[Anything EXCEPT !.names = {1}]}, sort : {"oldest"}]
    \cup [view : {"facet"}, c : {Anything}, group : {"names"}, value : {2}, sort : {"newest"}]
    \cup [view : {"facet"}, c : {[Anything EXCEPT !.kinds = {1}]}, group : {"sources", "countries"},
          value : {1}, sort : {"oldest"}]
    \cup [view : {"timeline"}, c : {[Anything EXCEPT !.countries = {1}]}, interval : {None, 1},
          sort : {"newest"}]
    \cup [view : {"timeline"}, c : {Anything}, interval : {1}, sort : {"newest"}]
    \cup [view : {"edge"}, c : {Anything}, focus : {None}, expand : {3}, pair : {{1, 2}}]
    \cup [view : {"edge"}, c : {Anything}, focus : {1}, expand : {None}, pair : {{1, 2}}]
    \cup [view : {"watch"}, c : {Anything, [Anything EXCEPT !.sources = {1}]}, after : {0, 1}, upto : {3}]
    \cup [view : {"compare"}, kind : {"names", "sources", "countries"}, a : {1}, b : {2},
          part : {"a", "both", "b"}, of : {"articles"}]
    \cup [view : {"compare"}, kind : {"sources"}, a : {1}, b : {2}, part : {"a", "b"}, of : {"stories"}]
    \cup [view : {"event"}, event : {1}, of : {"articles", "stories"}]
    \cup [view : {"events"}, sort : {"latest", "biggest"}, from : {1}, to : {3}, atLeast : {1}]
    \cup [view : {"source"}, source : {1}, of : {"articles", "stories"}]
    \cup [view : {"name"}, name : {1}, of : {"articles", "stories"}]

-----------------------------------------------------------------------------
(* Messages are sent of what one article completed for one watch.           *)
Announcing ==
    \/ LET a == CHOOSE b \in WatchArticles : TRUE IN TimePasses \/ Completes(a) \/ Indexes(a)
    \/ LET c == CHOOSE d \in Criteria : TRUE IN Create(c)
    \/ \E through \in Moments : View(through)
    \/ \E token \in WatchTokens : ClaimWatch(token)
    \/ IntervalPasses
    \/ \E e \in Evaluators : Evaluate(e) \/ PublishWindow(e)
    \/ Delivering

(* The first address publishes; or nothing is published and the user takes  *)
(* the feed to the second one.                                              *)
Publishing == feed'.address = feed.address /\ \A u \in Addresses \ {FirstAddress} : edition'[u] = edition[u]
Moving     == /\ edition' = edition /\ feed'.enabled /\ ~feed'.retired
              /\ feed.address # FirstAddress => feed'.address = feed.address

(* The user's decisions, and workers on the runs they queue and do not stop;*)
(* a day passes between two of them.                                        *)
Linking ==
    \/ Decisions \/ Queueing \/ \E q \in Items : ItemChanges(q)
    \/ Len(runs) = 1 /\ throttle.spent = DailyBudget /\ DayPasses(FALSE)
    \/ \E i \in DOMAIN runs, t \in RunTokens : ClaimRun(t, i)
    \/ \E n \in notices : StartRun(n)
    \/ \E t \in RunTokens :
         \/ TakeBatch(t) \/ SearchKept(t) \/ TakeSlot(t) \/ Answer(t) \/ LeaveOut(t)
         \/ AskClasses(t)
         \/ Apply(t) \/ SavePlace(t) \/ EndRun(t)
         \/ \E r \in Roots : Suggest(t, r)

ServicesInit ==
    /\ part \in {"evaluation", "delivery", "feeds", "moving", "wikidata", "linking", "processes", "readings"}
    /\ WatchInit /\ FeedInit /\ WikidataInit /\ ProcessInit /\ ReadingInit
    /\ part # "processes" => process = "articles"
    /\ feed.fullText <=> part # "moving"

ServicesNext ==
    \/ /\ part = "evaluation" /\ (WatchedArchive \/ Requested \/ Evaluating)
       /\ UNCHANGED <<part, feedVars, wikidataVars, processVars, readingVars>>
    \/ /\ part = "delivery" /\ Announcing
       /\ UNCHANGED <<part, feedVars, wikidataVars, processVars, readingVars>>
    \/ /\ \/ part = "feeds" /\ FeedNext /\ Publishing
          \/ part = "moving" /\ FeedNext /\ Moving
       /\ UNCHANGED <<part, watchVars, wikidataVars, processVars, readingVars>>
    \/ /\ \/ part = "wikidata" /\ WikidataNext /\ Len(runs') <= 1 /\ site' = site
          \/ part = "linking" /\ Linking /\ \A i \in DOMAIN runs' : runs'[i].status # "stopped"
       /\ UNCHANGED <<part, watchVars, feedVars, processVars, readingVars>>
    \/ /\ part = "processes" /\ ProcessNext
       /\ UNCHANGED <<part, watchVars, feedVars, wikidataVars, readingVars>>
    \/ /\ part = "readings" /\ ReadingNext
       /\ UNCHANGED <<part, watchVars, feedVars, wikidataVars, processVars>>

ServicesSpec == ServicesInit /\ [][ServicesNext]_serviceVars

(* Each kind of token may be renamed; a behaviour uses one kind, so it is    *)
(* enough to swap the two of every kind, or none.                           *)
AllTokens == WatchTokens \cup FetchTokens \cup RunTokens
Tokens ==
    {p \in Permutations(AllTokens) :
        /\ \A kind \in {WatchTokens, FetchTokens, RunTokens} : \A t \in kind : p[t] \in kind
        /\ \A t, u \in AllTokens : p[t] = t => p[u] = u}

(* Type correctness of every service.                                       *)
ServicesTypeOK == WatchTypeOK /\ FeedTypeOK /\ WikidataTypeOK /\ ProcessesTypeOK /\ ReadingTypeOK
=============================================================================
