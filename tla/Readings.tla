------------------------------ MODULE Readings ------------------------------
(***************************************************************************)
(* What a user of the site reads of an archive that goes on changing:      *)
(* searches with their facets and timelines (search/), the entity graph    *)
(* and the evidence of an edge (graph/), comparisons (compare/), the       *)
(* results of a watch (monitors/), and the pages of events, sources and    *)
(* entities. Some are read from Elasticsearch, where an article shows as   *)
(* it was when it was last delivered, the others from the tables.          *)
(*                                                                         *)
(* A reading is a number the site shows, where it shows one, and the list  *)
(* behind it, fetched page by page: each request sees the archive as it is *)
(* by then.                                                                *)
(***************************************************************************)
EXTENDS Integers, Sequences, FiniteSetsExt, Leasing

CONSTANTS
    LastArticle,    \* the articles are 1..LastArticle, in the order of their ids,
    LastStory,      \* and so are the stories,
    LastSource,     \* the sources
    LastName,       \* the entities
    LastEvent,      \* and the events
    LastDay,        \* effective dates are 1..LastDay
    FirstDay,       \* where the window of a comparison begins
    CountryOf,      \* the country of each source
    KindOf,         \* the type of each entity
    ScoreOf,        \* how well each article's text answers what is searched for
    FirstFacts,     \* the articles; the last one is discovered during the reading
    FirstEvents,    \* the event each story is held by, or None
    Requests,       \* what may be read
    PageSize,       \* limit
    MostBuckets,    \* MAX_FACET_BUCKETS, MAX_BUCKETS
    MostNodes, MostNeighbours, MostEdges, LeastWeight,   \* the graph's
    MaxHappened     \* bounds what happens to the archive during the reading

ASSUME ReadingBounds ==
    /\ {LastArticle, LastStory, LastSource, LastName, LastEvent, LastDay} \subseteq Nat \ {0}
    /\ {PageSize, LeastWeight} \subseteq Nat \ {0}
    /\ {FirstDay, MostBuckets, MostNodes, MostNeighbours, MostEdges, MaxHappened} \subseteq Nat

VARIABLES
    facts,          \* what the tables hold of each article; None before its discovery
    documents,      \* what its document in the index holds
    catalogue,      \* the event of each story and what the events' rows say of them, the
                    \* tagged sources, the root of each name
    reading,        \* the reading under way
    happened        \* how often anything has changed

readingVars == <<facts, documents, catalogue, reading, happened>>

ArticleIds == 1..LastArticle
Stories    == 1..LastStory
Sources    == 1..LastSource
EntityIds  == 1..LastName
Events     == 1..LastEvent

Articles == [date : 1..LastDay, found : 1..LastDay, sources : SUBSET Sources, story : Stories \union {None},
             names : SUBSET EntityIds, finished : 1..LastDay + 1 \union {None}]

ASSUME ReadingTables ==
    /\ None \notin Articles
    /\ FirstFacts \in [ArticleIds -> Articles]
    /\ FirstEvents \in [Stories -> Events \union {None}]
    /\ ScoreOf \in [ArticleIds -> Nat]

(* What may be asked: the query of a search, a graph or a watch, and which  *)
(* facet of one, which order of its list, which part of a comparison.       *)
SearchCriteria ==
    [sources : SUBSET Sources, countries : SUBSET Nat, tagged : BOOLEAN, names : SUBSET EntityIds,
     kinds : SUBSET Nat, from : Nat, to : Nat, stories : SUBSET Stories, event : Events \union {None}]

Searches == {"search", "export", "facet", "timeline"}

ASSUME ReadingRequests ==
    /\ None \notin Requests
    /\ \A r \in Requests :
         /\ r.view \in Searches \union {"edge", "watch", "compare", "event", "source", "name", "events"}
         /\ r.view \in Searches => r.sort \in {"relevance", "newest", "oldest", "most_sources"}
         /\ r.view \in Searches \union {"edge", "watch"} => r.c \in SearchCriteria
         /\ r.view = "facet" => r.group \in {"sources", "countries", "names", "kinds", "stories"}
         /\ r.view = "compare" => r.part \in {"a", "both", "b"}

-----------------------------------------------------------------------------
(* The query a search asks Elasticsearch.                                   *)

RootOfName(n) == catalogue.root[n]

(* A name is asked for as its root and every variant of it.                 *)
MatchIds(names) ==
    names \union {n \in EntityIds : RootOfName(n) \in {RootOfName(m) : m \in names}}

(* The criteria with their tag and their event resolved, anew by each       *)
(* request. Without one, any source and any story will do.                  *)
BuildQuery(c) ==
    [c EXCEPT !.names = MatchIds(c.names),
              !.tagged = IF c.tagged THEN catalogue.tagged ELSE Sources,
              !.event = IF c.event = None THEN Stories \union {None}
                        ELSE {s \in Stories : catalogue.event[s] = c.event}]

(* Criteria on provenance have to hold of one source of the article, those  *)
(* on entities of one entity.                                               *)
SourceMatches(q, s) ==
    /\ q.sources # {} => s \in q.sources
    /\ q.countries # {} => CountryOf[s] \in q.countries
    /\ s \in q.tagged

NameMatches(q, n) ==
    /\ q.names # {} => n \in q.names
    /\ q.kinds # {} => KindOf[n] \in q.kinds

Satisfies(d, q) ==
    /\ \E s \in d.sources : SourceMatches(q, s)
    /\ q.names # {} \/ q.kinds # {} => \E n \in d.names : NameMatches(q, n)
    /\ d.date >= q.from /\ d.date < q.to
    /\ q.stories # {} => d.story \in q.stories
    /\ d.story \in q.event

Hits(index, q) == {a \in ArticleIds : index[a] # None /\ Satisfies(index[a], q)}

(* Those of the hits that carry one of the names.                           *)
Carrying(index, q, names) == {a \in Hits(index, q) : index[a].names \intersect names # {}}

-----------------------------------------------------------------------------
(* Facets: how many of the matching articles have a value, the values of    *)
(* the most articles first.                                                 *)

Values(group, d) ==
    CASE group = "sources"   -> d.sources
      [] group = "countries" -> {CountryOf[s] : s \in d.sources}
      [] group = "names"     -> d.names
      [] group = "kinds"     -> {KindOf[n] : n \in d.names}
      [] group = "stories"   -> {d.story} \ {None}

CountOf(index, q, group, v) ==
    Cardinality({a \in Hits(index, q) : v \in Values(group, index[a])})

(* The first values by count, the larger first, then by key.                *)
FirstOf(count, most) ==
    LET before(v) == {w \in DOMAIN count : count[w] > count[v] \/ (count[w] = count[v] /\ w < v)}
    IN {v \in DOMAIN count : Cardinality(before(v)) < most}

Buckets(index, q, group) ==
    FirstOf([v \in UNION {Values(group, index[a]) : a \in Hits(index, q)} |-> CountOf(index, q, group, v)],
            MostBuckets)

(* Choosing a facet adds its value to the criteria of its group.            *)
Narrowed(c, group, v) == [c EXCEPT ![group] = @ \union {v}]

(* The days a timeline has to cover, and the finest of its intervals, in    *)
(* days, that does it with few enough buckets (else the coarsest).          *)
Extent(index, c, q) ==
    LET dates == {index[a].date : a \in Hits(index, q)}
    IN [first |-> IF c.from > 0 THEN c.from ELSE Min(dates),
        last  |-> IF c.to <= LastDay THEN c.to - 1 ELSE Max(dates)]

BucketCount(interval, extent) ==
    (Max({extent.first, extent.last}) \div interval) - (extent.first \div interval) + 1

ChosenInterval(extent) ==
    LET fine == {i \in 1..LastDay : BucketCount(i, extent) <= MostBuckets}
    IN IF fine = {} THEN LastDay ELSE Min(fine)

-----------------------------------------------------------------------------
(* The graph: the busiest names of the matching articles, the focus and     *)
(* what is expanded among them, and the pairs that share enough articles.   *)

(* Focusing narrows the search to the articles that carry the focus.        *)
FocusQuery(r, index) ==
    LET q == BuildQuery(r.c)
    IN IF r.focus = None THEN Hits(index, q)
       ELSE Carrying(index, q, MatchIds({RootOfName(r.focus)}))

Shared(index, found, names) == Cardinality({a \in found : names \subseteq index[a].names})

TopEntities(r, index, found, most) ==
    FirstOf([n \in {n \in UNION {index[a].names : a \in found} : r.c.kinds # {} => KindOf[n] \in r.c.kinds}
               |-> Shared(index, found, {n})], most)

(* A focus too light to be among them takes the place of the lightest.      *)
Nodes(r, index) ==
    LET found == FocusQuery(r, index)
        top   == TopEntities(r, index, found, MostNodes)
    IN IF r.focus = None THEN top
       ELSE LET focus == RootOfName(r.focus)
            IN IF focus \in top \/ found = {} THEN top
               ELSE FirstOf([n \in top |-> Shared(index, found, {n})], MostNodes - 1) \union {focus}

Expansion(r, index) ==
    LET found == {a \in FocusQuery(r, index) : r.expand \in index[a].names}
    IN IF r.expand = None \/ found = {} THEN {}
       ELSE {r.expand} \union (TopEntities(r, index, found, MostNeighbours + 1) \ {r.expand})

(* Which pair is drawn rather than the other: a pinned one, then that of    *)
(* the larger share of the articles that carry either name.                 *)
Leads(r, index, found, p, o) ==
    LET pinned(x) == x \intersect {r.expand, IF r.focus = None THEN None ELSE RootOfName(r.focus)} # {}
        either(x) == Cardinality({a \in found : x \intersect index[a].names # {}})
        both(x)   == Shared(index, found, x)
    IN IF pinned(p) # pinned(o) THEN pinned(p)
       ELSE \/ both(p) * either(o) > both(o) * either(p)
            \/ both(p) * either(o) = both(o) * either(p) /\ both(p) > both(o)

Edges(r, index, drawn) ==
    LET found == FocusQuery(r, index)
        pairs == {p \in SUBSET drawn : /\ Cardinality(p) = 2
                                       /\ Shared(index, found, p) >= LeastWeight}
    IN {p \in pairs : Cardinality({o \in pairs : Leads(r, index, found, o, p)}) < MostEdges}

(* The evidence of an edge: the graph's own query and both names, each      *)
(* under every id of its root.                                              *)
Evidence(r, index) ==
    {a \in FocusQuery(r, index) :
        \A n \in r.pair : MatchIds({n}) \intersect index[a].names # {}}

-----------------------------------------------------------------------------
(* What the pages that read the tables list.                                *)

Archived == {a \in ArticleIds : facts[a] # None}

(* One subject's articles, however the two of a comparison are chosen, from *)
(* the first day of the window on.                                          *)
SubjectArticles(kind, ref) ==
    {a \in Archived : ref \in Values(kind, facts[a]) /\ facts[a].date >= FirstDay}

StoriesCarrying(articles) == {facts[a].story : a \in articles} \ {None}

(* What is compared: articles, or the stories they are in.                  *)
SideOf(r, ref) ==
    LET found == SubjectArticles(r.kind, ref)
    IN IF r.of = "articles" THEN found ELSE StoriesCarrying(found)

(* Entities are compared by root.                                           *)
ByRoot(r, ref) == IF r.kind = "names" THEN RootOfName(ref) ELSE ref

(* The sizes of A only, both and B only.                                    *)
Overlap(a, b, part) ==
    CASE part = "a"    -> Cardinality(a \union b) - Cardinality(b)
      [] part = "both" -> Cardinality(a) + Cardinality(b) - Cardinality(a \union b)
      [] part = "b"    -> Cardinality(a \union b) - Cardinality(a)

(* The rows behind one of them; part b is taken from B's side.              *)
PartFromA(a, b, part) == IF part = "both" THEN a \intersect b ELSE a \ b

PartOf(a, b, part) ==
    CASE part = "a"    -> a \ b
      [] part = "both" -> a \intersect b
      [] part = "b"    -> b \ a

(* The articles an event has through its stories.                           *)
ArticlesIn(tie, e) == {a \in Archived : facts[a].story # None /\ tie[facts[a].story] = e}
ArticlesOfEvent(e) == ArticlesIn(catalogue.event, e)

ArticlesOfSource(s) == {a \in Archived : s \in facts[a].sources}
ArticlesNaming(n)   == {a \in Archived : n \in facts[a].names}

(* The matches of a watch that were finished within its window.             *)
FinishedWithin(r) ==
    {a \in Hits(documents, BuildQuery(r.c)) :
        /\ documents[a].finished # None
        /\ documents[a].finished > r.after /\ documents[a].finished <= r.upto}

(* What an event's row says of it after a refresh.                          *)
SummaryOf(tie, e) ==
    LET articles == ArticlesIn(tie, e)
        dates    == {facts[a].date : a \in articles}
    IN IF articles = {} THEN None
       ELSE [count |-> Cardinality(articles), stories |-> Cardinality(StoriesCarrying(articles)),
             started |-> Min(dates), ended |-> Max(dates)]

-----------------------------------------------------------------------------
(* Lists, in pages.                                                         *)

(* The searches read one snapshot of the index, page after page.            *)
FromSnapshot(r) == r.view \in Searches

SearchedFor(r) == IF r.view = "facet" THEN Narrowed(r.c, r.group, r.value) ELSE r.c

(* A page of articles or of stories over the tables.                        *)
ShownAs(r, articles) == IF r.of = "articles" THEN articles ELSE StoriesCarrying(articles)

(* The events with enough stories that were under way between two days.     *)
ListedEvents(r) ==
    LET row == catalogue.summary
    IN {e \in Events : /\ row[e] # None
                       /\ row[e].ended >= r.from /\ row[e].started <= r.to
                       /\ row[e].stories >= r.atLeast}

Behind(r) ==
    CASE FromSnapshot(r)     -> Hits(reading.snapshot, BuildQuery(SearchedFor(r)))
      [] r.view = "edge"     -> Evidence(r, documents)
      [] r.view = "watch"    -> FinishedWithin(r)
      [] r.view = "compare"  -> PartOf(SideOf(r, ByRoot(r, r.a)), SideOf(r, ByRoot(r, r.b)), r.part)
      [] r.view = "event"    -> ShownAs(r, ArticlesOfEvent(r.event))
      [] r.view = "source"   -> ShownAs(r, ArticlesOfSource(r.source))
      [] r.view = "name"     -> ShownAs(r, ArticlesNaming(RootOfName(r.name)))
      [] r.view = "events"   -> ListedEvents(r)

(* By its key a row is sorted, the smaller first; the id comes last and     *)
(* breaks the ties. In one snapshot the score of an article stays.          *)
SearchKeyWithoutId(d, a, sort) == <<IF sort = "oldest" THEN d.date ELSE -d.date>>

SearchKey(d, a, sort) ==
    CASE sort = "relevance"    -> <<-ScoreOf[a], -d.date, a>>
      [] sort = "newest"       -> <<-d.date, a>>
      [] sort = "oldest"       -> <<d.date, a>>
      [] sort = "most_sources" -> <<-Cardinality(d.sources), -d.date, a>>

RecencyOf(s) == Max({facts[a].date : a \in {b \in Archived : facts[b].story = s}})

EventKey(e, sort) ==
    LET row == catalogue.summary[e]
    IN IF sort = "biggest" THEN <<-row.count, -row.ended, -e>> ELSE <<-row.ended, -e>>

SortKey(r, x) ==
    CASE FromSnapshot(r)   -> SearchKey(reading.snapshot[x], x, r.sort)
      [] r.view = "edge"   -> SearchKey(documents[x], x, "newest")
      [] r.view = "watch"  -> <<-documents[x].found, -x>>
      [] r.view = "events" -> EventKey(x, r.sort)
      [] OTHER             -> IF r.of = "articles" THEN <<-facts[x].date, -x>> ELSE <<-RecencyOf(x), -x>>

Before(k, l) == \E i \in DOMAIN k : k[i] < l[i] /\ \A j \in 1..i - 1 : k[j] = l[j]

(* What is left of the list after a cursor; the first page has none.        *)
NoCursor == <<>>
Following(r, after) == {x \in Behind(r) : after # NoCursor => Before(after, SortKey(r, x))}

Limit(r) == IF r.view = "export" THEN LastArticle ELSE PageSize

(* So many rows that none of the others comes before one of them.           *)
AreFirst(r, rows, left) ==
    /\ Cardinality(rows) = Min({Limit(r), Cardinality(left)})
    /\ \A x \in rows, y \in left \ rows : ~Before(SortKey(r, y), SortKey(r, x))

(* A page, and the cursor behind it when there may be more: one row more    *)
(* than the page holds is asked for, but a watch takes a full page for a    *)
(* sign of another.                                                         *)
PageOf(r, after) ==
    LET left == Following(r, after)
        rows == CHOOSE some \in SUBSET left : AreFirst(r, some, left)
        last == CHOOSE x \in rows : \A y \in rows : ~Before(SortKey(r, x), SortKey(r, y))
        more == IF r.view = "watch" THEN Cardinality(rows) = PageSize ELSE rows # left
    IN [rows |-> rows, next |-> IF more THEN SortKey(r, last) ELSE NoCursor]

-----------------------------------------------------------------------------
(* The numbers.                                                             *)

(* The bars of a timeline: articles by the interval their date is in. Their *)
(* sum is the number of pairs of a bar and an article of it.                *)
InBucket(index, q, interval, b) == {a \in Hits(index, q) : index[a].date \div interval = b}

TimelineTotal(index, q, interval) ==
    LET bars == {index[a].date \div interval : a \in Hits(index, q)}
    IN Cardinality(UNION {{b} \X InBucket(index, q, interval, b) : b \in bars})

Number(r) ==
    CASE r.view = "facet"    -> CountOf(documents, BuildQuery(r.c), r.group, r.value)
      [] r.view = "timeline" -> TimelineTotal(documents, BuildQuery(r.c), reading.prepared)
      [] r.view = "edge"     -> Shared(documents, FocusQuery(r, documents), r.pair)
      [] r.view = "watch"    -> Cardinality(FinishedWithin(r))
      [] r.view = "compare"  -> Overlap(SideOf(r, ByRoot(r, r.a)), SideOf(r, ByRoot(r, r.b)), r.part)
      [] r.view = "event"    -> Cardinality(ShownAs(r, ArticlesOfEvent(r.event)))
      [] r.view = "name"     -> Cardinality(ShownAs(r, ArticlesNaming(RootOfName(r.name))))

Numbered(r) == r.view \in {"facet", "timeline", "edge", "watch", "compare", "event", "name"}

(* A number that takes two requests: what the first one finds, the second   *)
(* one counts.                                                              *)
TwoRequests(r) == r.view \in {"timeline", "edge"}

(* Two names of one entity are not two subjects.                            *)
OneSubject(r) ==
    \/ r.view = "compare" /\ ByRoot(r, r.a) = ByRoot(r, r.b)
    \/ r.view = "edge" /\ Cardinality({RootOfName(n) : n \in r.pair}) = 1

(* A value among the first of its facet, a pair that is drawn.              *)
IsOffered(r) ==
    CASE r.view = "facet" -> r.value \in Buckets(documents, BuildQuery(r.c), r.group)
      [] r.view = "edge"  -> r.pair \in Edges(r, documents, reading.prepared)
      [] OTHER            -> TRUE

-----------------------------------------------------------------------------
(* What a reader does.                                                      *)

Visit(r) ==
    /\ reading.asked = None
    /\ reading' = [asked |-> r, state |-> IF Numbered(r) THEN "counting" ELSE "listing",
                   prepared |-> None, count |-> None, begun |-> happened, snapshot |-> None,
                   after |-> NoCursor, shown |-> <<>>, stayed |-> {}]
    /\ UNCHANGED <<facts, documents, catalogue, happened>>

Counting(r) == reading.asked = r /\ reading.state = "counting"
Shows(changes) ==
    /\ reading' = changes
    /\ UNCHANGED <<facts, documents, catalogue, happened>>

(* The timeline asks for the first and the last date and chooses its        *)
(* interval; one the user chose may be too fine for what there is.          *)
FindExtent(r) ==
    /\ Counting(r) /\ r.view = "timeline" /\ reading.prepared = None
    /\ LET extent == Extent(documents, r.c, BuildQuery(r.c))
       IN Shows(CASE Hits(documents, BuildQuery(r.c)) = {} ->
                       [reading EXCEPT !.state = "listing", !.count = 0]
                  [] OTHER ->
                       IF r.interval # None /\ BucketCount(r.interval, extent) > MostBuckets
                       THEN [reading EXCEPT !.state = "refused"]
                       ELSE [reading EXCEPT !.prepared =
                               IF r.interval = None THEN ChosenInterval(extent) ELSE r.interval])

(* The graph asks for the entities it will draw.                            *)
FindNodes(r) ==
    /\ Counting(r) /\ r.view = "edge" /\ reading.prepared = None
    /\ Shows([reading EXCEPT !.prepared = Nodes(r, documents) \union Expansion(r, documents)])

(* The number, if there is one to show.                                     *)
ShowNumber(r) ==
    /\ Counting(r) /\ (TwoRequests(r) => reading.prepared # None)
    /\ Shows(IF IsOffered(r) /\ ~OneSubject(r)
             THEN [reading EXCEPT !.state = "listing", !.count = Number(r)]
             ELSE [reading EXCEPT !.state = "refused"])

(* The first page of a search opens its snapshot, the last one closes it.   *)
OpenSnapshot(r) ==
    /\ reading.asked = r /\ reading.state = "listing" /\ FromSnapshot(r) /\ reading.snapshot = None
    /\ Shows([reading EXCEPT !.snapshot = documents])

(* The next page, from where the one before ended. (stayed is not of the    *)
(* program: what has been in the list, under one key, at every page so far.)*)
ReadPage(r) ==
    /\ reading.asked = r /\ reading.state = "listing"
    /\ FromSnapshot(r) => reading.snapshot # None
    /\ LET page    == PageOf(r, reading.after)
           current == {<<x, SortKey(r, x)>> : x \in Behind(r)}
           read    == [reading EXCEPT
                         !.shown = Append(@, page.rows),
                         !.stayed = IF reading.after = NoCursor THEN current ELSE @ \intersect current]
       IN Shows(CASE OneSubject(r)    -> [reading EXCEPT !.state = "refused"]
                  [] ~OneSubject(r) /\ page.next = NoCursor -> [read EXCEPT !.state = "done", !.snapshot = None]
                  [] OTHER            -> [read EXCEPT !.after = page.next])

(* A snapshot not read from for five minutes is gone, and with it the       *)
(* cursor: the search starts again.                                         *)
SnapshotGone(r) ==
    /\ reading.asked = r /\ reading.state = "listing" /\ reading.snapshot # None
    /\ reading.after # NoCursor
    /\ Shows([reading EXCEPT !.snapshot = None, !.after = NoCursor, !.shown = <<>>, !.stayed = {}])

Reads ==
    \E r \in Requests :
        \/ Visit(r)
        \/ FindExtent(r) \/ FindNodes(r) \/ ShowNumber(r)
        \/ OpenSnapshot(r) \/ ReadPage(r) \/ SnapshotGone(r)

-----------------------------------------------------------------------------
(* What happens to the archive meanwhile.                                   *)

Happens == happened < MaxHappened /\ happened' = happened + 1 /\ UNCHANGED reading

(* Files change only to what they were not.                                 *)
NewFacts(a, f) ==
    /\ Happens /\ f # facts[a]
    /\ facts' = [facts EXCEPT ![a] = f]
    /\ UNCHANGED <<documents, catalogue>>

(* Feeds: a new article, and one that another source carries as well.       *)
Discover == facts[LastArticle] = None /\ NewFacts(LastArticle, FirstFacts[LastArticle])
Carry(a, s) == NewFacts(a, [facts[a] EXCEPT !.sources = @ \union {s}])

(* Clustering moves an article to another story, a merge run the mentions   *)
(* of a variant to its root, and processing finishes.                       *)
Regroup(a, s)    == NewFacts(a, [facts[a] EXCEPT !.story = s])
MoveNames(a)     == NewFacts(a, [facts[a] EXCEPT !.names = {RootOfName(n) : n \in @}])
FinishArticle(a) == facts[a].finished = None /\ NewFacts(a, [facts[a] EXCEPT !.finished = LastDay + 1])

(* The index is brought up to date with one article.                        *)
Deliver(a) ==
    /\ Happens /\ documents[a] # facts[a]
    /\ documents' = [documents EXCEPT ![a] = facts[a]]
    /\ UNCHANGED <<facts, catalogue>>

NewCatalogue(c) ==
    /\ Happens /\ c # catalogue
    /\ catalogue' = c
    /\ UNCHANGED <<facts, documents>>

(* An event's row follows its stories when it is refreshed.                 *)
RefreshEvent(e) == NewCatalogue([catalogue EXCEPT !.summary[e] = SummaryOf(catalogue.event, e)])

TieStory(s, e) ==
    LET tie == [catalogue.event EXCEPT ![s] = e]
    IN NewCatalogue([catalogue EXCEPT !.event = tie,
                       !.summary = [o \in Events |-> IF o \in {e, catalogue.event[s]}
                                                     THEN SummaryOf(tie, o) ELSE @[o]]])

TagSource(s) ==
    NewCatalogue([catalogue EXCEPT !.tagged = IF s \in @ THEN @ \ {s} ELSE @ \union {s}])

(* A root becomes a variant of another one, and so do its variants.         *)
MergeNames(n, into) ==
    /\ n # into /\ RootOfName(n) = n /\ RootOfName(into) = into
    /\ NewCatalogue([catalogue EXCEPT !.root = [m \in EntityIds |-> IF @[m] = n THEN into ELSE @[m]]])

ArchiveGoesOn ==
    \/ Discover
    \/ \E a \in Archived :
         \/ \E s \in Sources : Carry(a, s)
         \/ \E s \in Stories : Regroup(a, s)
         \/ MoveNames(a) \/ FinishArticle(a) \/ Deliver(a)
    \/ \E e \in Events : RefreshEvent(e) \/ \E s \in Stories : TieStory(s, e)
    \/ \E s \in Sources : TagSource(s)
    \/ \E n, m \in EntityIds : MergeNames(n, m)

NoReading ==
    [asked |-> None, state |-> "listing", prepared |-> None, count |-> None, begun |-> 0,
     snapshot |-> None, after |-> NoCursor, shown |-> <<>>, stayed |-> {}]

ReadingInit ==
    /\ facts = [FirstFacts EXCEPT ![LastArticle] = None]
    /\ documents = facts
    /\ catalogue = [event |-> FirstEvents, summary |-> [e \in Events |-> SummaryOf(FirstEvents, e)],
                    tagged |-> {}, root |-> [n \in EntityIds |-> n]]
    /\ reading = NoReading
    /\ happened = 0

ReadingNext == Reads \/ ArchiveGoesOn

ReadingSpec == ReadingInit /\ [][ReadingNext]_readingVars

-----------------------------------------------------------------------------
(* Properties.                                                              *)

(* Type correctness of what is read and of what is read from.               *)
ReadingTypeOK ==
    /\ \A a \in ArticleIds : facts[a] \in Articles \union {None} /\ documents[a] \in Articles \union {None}
    /\ catalogue.event \in [Stories -> Events \union {None}]
    /\ catalogue.tagged \subseteq Sources
    /\ catalogue.root \in [EntityIds -> EntityIds]
    /\ reading.asked \in Requests \union {None}
    /\ reading.state \in {"counting", "listing", "done", "refused"}
    /\ happened \in 0..MaxHappened

(* Paging to the end of a list shows exactly once every row that was in it, *)
(* at one place, at every page: nothing is skipped or repeated because of   *)
(* what else came or went between the pages. (The cursors of search/,       *)
(* graph/, monitors/, compare/, events/, sources/ and entities/.)           *)
PagesCoverWhatStayed ==
    reading.state = "done" =>
        \A row \in reading.stayed :
            Cardinality({p \in DOMAIN reading.shown : row[1] \in reading.shown[p]}) = 1

(* Other criteria on the same nested records would be asked of the value's  *)
(* own record in the list and of any record in the count.                   *)
AloneOnItsRecords(r) ==
    r.view = "facet" =>
        /\ r.group \in {"sources", "countries"} => r.c.sources \union r.c.countries = {} /\ ~r.c.tagged
        /\ r.group \in {"names", "kinds"} => r.c.names \union r.c.kinds = {}
        /\ r.group = "stories" => r.c.stories = {}

(* No merge is on its way: what the index holds are roots.                  *)
OnlyRootsIndexed == \A a \in ArticleIds : documents[a] # None =>
    \A n \in documents[a].names : RootOfName(n) = n

(* The rows of the list as it was shown, page by page.                      *)
RowsShown == UNION {{p} \X reading.shown[p] : p \in DOMAIN reading.shown}

(* A number is that of the list behind it, down to the last page, when      *)
(* nothing has changed since it was asked for: the bars and buckets of a    *)
(* search, the weight of an edge, the changes of a watch, the parts of a    *)
(* comparison, the articles and stories of an event or an entity.           *)
CountsMatchTheirEvidence ==
    (/\ reading.state = "done" /\ reading.count # None /\ reading.begun = happened
     /\ AloneOnItsRecords(reading.asked) /\ OnlyRootsIndexed)
        => Cardinality(RowsShown) = reading.count
=============================================================================
