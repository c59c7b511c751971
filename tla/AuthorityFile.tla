--------------------------- MODULE AuthorityFile ---------------------------
(***************************************************************************)
(* The authority file (backend/app/entities/authority.py, relations.py,    *)
(* transfer.py, wikidata/links.py and names.py): which name is a variant   *)
(* of which root, what the user said about a root, and the runs that carry *)
(* a merge, a split or a new name through the articles, one batch at a     *)
(* time, while NER (nlp/execution.py) goes on writing article rows.        *)
(*                                                                         *)
(* A request is one transaction.  Its checks and its writes are one step,  *)
(* except a merge's: it reads its root without a lock, and another request *)
(* may commit before it does.  What becomes of an article that was asked   *)
(* to be indexed is SearchDelivery's subject; here `asked' is what its     *)
(* document said when it was last asked for.                               *)
(***************************************************************************)
EXTENDS Batches, Integers, Sequences

CONSTANTS
  LastName,      \* the names are 1..LastName, in the order of their ids
  Spelling,      \* their normalized text: names of one text differ in their type
  NewNames,      \* the names no article has used yet when the model starts
  LastArticle,   \* the articles are 1..LastArticle, in the order of their ids
  Readings,      \* what NER may find in an article: how often it uses each name
  FirstReading,  \* what it had found in each article when the model starts
  Qids,          \* the Wikidata items
  BatchSize,     \* RUN_BATCH
  Parallel,      \* may a request be made while another one is under way?
  Impatient,     \* may a name be split or merged while a run still moves it?
  MaxRequests,   \* bounds the requests of the user
  MaxReadings    \* bounds the readings of NER

ASSUME AuthorityFileConstants ==
  /\ LastName \in Nat \ {0} /\ LastArticle \in Nat /\ BatchSize \in Nat \ {0}
  /\ NewNames \subseteq 1..LastName
  /\ Readings \subseteq [1..LastName -> Nat]
  /\ FirstReading \in [1..LastArticle -> [1..LastName -> Nat]]
  /\ \A a \in 1..LastArticle, n \in NewNames : FirstReading[a][n] = 0
  /\ Parallel \in BOOLEAN /\ Impatient \in BOOLEAN
  /\ MaxRequests \in Nat /\ MaxReadings \in Nat

Names == 1..LastName
NoName == 0
Articles == 1..LastArticle
Texts == {Spelling[n] : n \in Names}
NoQid == 0

VARIABLES
  file,      \* the entities and what the user said about them
  rows,      \* article -> its ArticleEntity rows
  runs,      \* the EntityAuthorityRun rows, in the order of their creation
  due,       \* the runs the scheduler's cycle still has to advance
  merging,   \* the merges that have read their root and not committed
  asked,     \* article -> what its document said when it was last asked for
  reading,   \* article -> what NER found in it last
  silent,    \* a history variable: names tied to a root without a run, by an import or a claim
  requests,  \* how many requests the user has made
  readings   \* how often NER has read an article

vars == <<file, rows, runs, due, merging, asked, reading, silent, requests, readings>>

Kinds == {"part_of", "related"}   \* a relation that chains, and one that does not
Links == [subject : Names, kind : Kinds, object : Names]
Files == [authority : [Names -> Names \cup {NoName}],
          known : SUBSET Names, typed : SUBSET Names, hidden : SUBSET Names,
          renamed : SUBSET Names, established : SUBSET Names, ambiguous : SUBSET Names,
          distinct : SUBSET SUBSET Names, links : SUBSET Links,
          qid : [Names -> Qids \cup {NoQid}], claim : [Texts -> Names \cup {NoName}]]
\* of: the name the article used; tag: the occurrence's "entity_id".
Mentions == [of : Names, at : Nat, tag : Names \cup {NoName}]
Rows == [entity : Names, observed : Names \cup {NoName}, mentions : SUBSET Mentions, current : BOOLEAN]
Runs == [kind : {"merge", "split", "reindex"}, entity : Names, root : Names,
         phase : {"move", "reindex"}, after : 0..LastArticle,
         status : {"running", "finished"}]

TypeOK ==
  /\ file \in Files
  /\ \A a \in Articles : rows[a] \subseteq Rows
  /\ \A a \in Articles : \A row \in rows[a] : row.entity \in file.known
  /\ runs \in Seq(Runs)
  /\ due \subseteq DOMAIN runs
  /\ merging \subseteq [variant : Names, root : Names]
  /\ reading \in [Articles -> [Names -> Nat]]
  /\ silent \subseteq Names
  /\ requests \in 0..MaxRequests /\ readings \in 0..MaxReadings

-----------------------------------------------------------------------------
\* resolve_root, _root_of: one step up, for a variant points straight at a root.
RootOf(f, n) == IF f.authority[n] = NoName THEN n ELSE f.authority[n]

\* names_of: every name of the roots these names stand for.
NamesOf(f, S) ==
  LET roots == {RootOf(f, n) : n \in S}
  IN {n \in Names : n \in roots \/ f.authority[n] \in roots}

\* Mutant: the ids asked for and nothing else.
ExpandNothing(f, S) == S

\* expand_for_search.
Expand(f, S) == S \cup NamesOf(f, S)

\* in_use: an article names it, or another name points at it.
InUse(f, n) ==
  \/ \E a \in Articles : \E row \in rows[a] : n \in {row.entity, row.observed}
  \/ \E v \in Names : f.authority[v] = n

Linked(f, v, r) ==
  \E l \in f.links : {l.subject, l.object} = {v, r}

\* merge_problem, with the facts _problem collects for it.
MergeProblem(f, v, r) ==
  \/ v = r
  \/ f.authority[v] # NoName
  \/ {v, r} \in f.distinct
  \/ Linked(f, v, r)
  \/ f.qid[v] # NoQid /\ f.qid[r] # NoQid /\ f.qid[v] # f.qid[r]

\* A related pair is kept once, the smaller id first.
Oriented(l) ==
  IF l.kind = "related" /\ l.object < l.subject
  THEN [l EXCEPT !.subject = l.object, !.object = l.subject] ELSE l

\* _move_relations: the variant's links become the root's; one it has is dropped.
MovedLinks(f, v, r) ==
  LET end(n) == IF n = v THEN r ELSE n
  IN {Oriented([l EXCEPT !.subject = end(@), !.object = end(@)]) : l \in f.links}

\* _move_external_ids: the new root, which has no other item, takes the link.
MovedQids(f, v, r) ==
  IF f.qid[v] = NoQid THEN f.qid ELSE [f.qid EXCEPT ![v] = NoQid, ![r] = f.qid[v]]

\* Mutant: the variant's own variants stay with it.
JoinedAlone(f, v, r) ==
  [f EXCEPT !.links = MovedLinks(f, v, r), !.qid = MovedQids(f, v, r),
            !.claim = [t \in Texts |-> IF f.claim[t] = v THEN r ELSE f.claim[t]],
            !.typed = @ \ {v}, !.hidden = @ \ {v},
            !.authority = [@ EXCEPT ![v] = r]]

\* What merge and adopt write: links, item and claims move, the variant gives up
\* its type and its mark, and its own variants follow it.
Joined(f, v, r) ==
  [f EXCEPT !.links = MovedLinks(f, v, r), !.qid = MovedQids(f, v, r),
            !.claim = [t \in Texts |-> IF f.claim[t] = v THEN r ELSE f.claim[t]],
            !.typed = @ \ {v}, !.hidden = @ \ {v},
            !.authority = [n \in Names |-> IF n = v \/ f.authority[n] = v THEN r ELSE f.authority[n]]]

-----------------------------------------------------------------------------
\* The name with the most mentions among the tags; the root itself (NoName) on a
\* tie, then the smallest id.
Commonest(mentions) ==
  LET tags == {m.tag : m \in mentions}
      Count(t) == Cardinality({m \in mentions : m.tag = t})
  IN CHOOSE t \in tags : \A u \in tags :
       Count(t) > Count(u) \/ (Count(t) = Count(u) /\ t <= u)

\* combine_rows: each part is a row's mentions and the name the row was seen under.
CombinedMentions(e, parts) ==
  LET source(m, p) == IF m.tag = NoName THEN p.observed ELSE m.tag
      tagged(m, p) == [m EXCEPT !.tag = IF source(m, p) = e THEN NoName ELSE source(m, p)]
  IN UNION {{tagged(m, p) : m \in p.mentions} : p \in parts}

Combined(row, e, parts) ==
  LET mentions == CombinedMentions(e, parts)
  IN [row EXCEPT !.entity = e, !.mentions = mentions, !.observed = Commonest(mentions)]

Part(row, observed) == [observed |-> observed, mentions |-> row.mentions]

\* The row that stays: the root's own when there is one.
Kept(now, r) == CHOOSE row \in now : r \in {x.entity : x \in now} => row.entity = r

\* Mutant: the rows that go are not combined into the one that stays.
OneRowOfMany(now, r, parts) == IF now = {} THEN {} ELSE {Combined(Kept(now, r), r, {Part(Kept(now, r), NoName)})}

\* One current row of an article for the root.
OneRow(now, r, parts) == IF now = {} THEN {} ELSE {Combined(Kept(now, r), r, parts)}

\* _merge_article: past rows move too, each on its own.
MergedRows(article, v, r) ==
  LET moving == {row \in article : row.entity \in {v, r}}
      seen(row) == IF row.observed = NoName /\ row.entity = v THEN v ELSE row.observed
      now == {row \in moving : row.current}
      past == {Combined(row, r, {Part(row, seen(row))}) : row \in moving \ now}
  IN (article \ moving) \cup past \cup OneRow(now, r, {Part(row, seen(row)) : row \in now})

\* _split_rows: the root's rows that hold mentions of the variant.
SplitRows(article, v, r) ==
  {row \in article : row.entity = r /\ (row.observed = v \/ \E m \in row.mentions : m.tag = v)}

\* split_occurrences and _split_article: the variant's mentions go back to it.
GivenBack(row, v, r) ==
  LET untagged == \A m \in row.mentions : m.tag = NoName
      mentions == CombinedMentions(r, {Part(row, IF untagged THEN row.observed ELSE NoName)})
      taken == {m \in mentions : m.tag = v}
      kept == mentions \ taken
      own == {[m EXCEPT !.tag = NoName] : m \in taken}
      back == Combined(row, v, {[observed |-> NoName, mentions |-> own]})
  IN IF kept = {} THEN {back}
     ELSE {Combined(row, r, {[observed |-> NoName, mentions |-> kept]}), back}

SplitArticle(article, v, r) ==
  LET split == SplitRows(article, v, r)
  IN (article \ split) \cup UNION {GivenBack(row, v, r) : row \in split}

-----------------------------------------------------------------------------
\* load_document and _other_names: the document has an entry for each current row
\* whose entity is not hidden, with the entity's names, its type and its own name.
Document(f, article) ==
  {[id |-> e, names |-> {Spelling[n] : n \in {x \in f.known : x = e \/ f.authority[x] = e}},
    typed |-> e \in f.typed, renamed |-> e \in f.renamed] :
   e \in {row.entity : row \in {x \in article : x.current}} \ f.hidden}

\* request_indexing for these articles, in a transaction that leaves f and article rows rs.
Asked(articles, f, rs) ==
  [a \in Articles |-> IF a \in articles THEN Document(f, rs[a]) ELSE asked[a]]

\* _start_run.
NewRun(kind, e, r) ==
  [kind |-> kind, entity |-> e, root |-> r, after |-> 0, status |-> "running",
   phase |-> IF kind = "reindex" THEN "reindex" ELSE "move"]

Started(kind, e, r) == Append(runs, NewRun(kind, e, r))

Open(i) == runs[i].status = "running"

\* Runs that still move rows of one of these names.
Moving(S) ==
  \E i \in DOMAIN runs : Open(i) /\ runs[i].phase = "move" /\ {runs[i].entity, runs[i].root} \cap S # {}

Splitting(S) ==
  \E i \in DOMAIN runs : Open(i) /\ runs[i].kind = "split" /\ {runs[i].entity, runs[i].root} \cap S # {}

\* SELECT ... FOR UPDATE of these entities goes through.
Unlocked(S) == \A tx \in merging : tx.variant \notin S

\* A request of the user may be made.
MayAsk ==
  /\ requests < MaxRequests
  /\ Parallel \/ merging = {}

\* The user waits for the runs that move these names.
Settled(S) == Impatient \/ ~Splitting(S)

Asks == requests' = requests + 1

IsRoot(n) == n \in file.known /\ file.authority[n] = NoName

-----------------------------------------------------------------------------
\* merge, up to its checks: the variant's row is locked, the target's root is not.
BeginMerge(v, target) ==
  LET r == RootOf(file, target)
  IN /\ MayAsk /\ Asks
     /\ {v, target} \subseteq file.known
     /\ Unlocked({v})
     /\ ~MergeProblem(file, v, r)
     /\ Settled({v, r})
     /\ merging' = merging \cup {[variant |-> v, root |-> r]}
     /\ UNCHANGED <<file, rows, runs, due, asked, reading, silent, readings>>

\* merge, its writes: the foreign key waits for whoever has the root locked.
CommitMerge(tx) ==
  /\ Unlocked({tx.root})
  /\ merging' = merging \ {tx}
  /\ file' = Joined(file, tx.variant, tx.root)
  /\ runs' = Started("merge", tx.variant, tx.root)
  /\ UNCHANGED <<rows, due, asked, reading, silent, requests, readings>>

\* The transaction is rolled back: its process died, or two merges waited for each other's
\* names and Postgres ended one of them.
Rollback(tx) ==
  /\ merging' = merging \ {tx}
  /\ UNCHANGED <<file, rows, runs, due, asked, reading, silent, requests, readings>>

\* split.
Split(v) ==
  LET r == file.authority[v]
  IN /\ MayAsk /\ Asks
     /\ r # NoName
     /\ Unlocked({v})
     /\ Impatient \/ ~Moving({v, r})
     /\ file' = [file EXCEPT !.authority[v] = NoName]
     /\ runs' = Started("split", v, r)
     /\ UNCHANGED <<rows, due, merging, asked, reading, silent, readings>>

\* A root's own field changes, and its articles are reindexed by a run.
ChangesRoot(n, f) ==
  /\ MayAsk /\ Asks
  /\ IsRoot(n) /\ Unlocked({n})
  /\ file' = f
  /\ UNCHANGED <<rows, due, merging, asked, reading, silent, readings>>

Flipped(S, n) == IF n \in S THEN S \ {n} ELSE S \cup {n}

\* rename: the preferred name is set, or given up.
Rename(n) ==
  /\ ChangesRoot(n, [file EXCEPT !.renamed = Flipped(@, n)])
  /\ runs' = Started("reindex", n, n)

\* set_type.
SetType(n) ==
  /\ ChangesRoot(n, [file EXCEPT !.typed = Flipped(@, n)])
  /\ runs' = Started("reindex", n, n)

\* set_hidden.
SetHidden(n) ==
  /\ ChangesRoot(n, [file EXCEPT !.hidden = Flipped(@, n)])
  /\ runs' = Started("reindex", n, n)

\* set_status.
SetStatus(n) ==
  /\ ChangesRoot(n, [file EXCEPT !.established = Flipped(@, n)])
  /\ UNCHANGED runs

\* set_ambiguous: of a variant as well.
SetAmbiguous(n) ==
  /\ MayAsk /\ Asks
  /\ n \in file.known /\ Unlocked({n})
  /\ file' = [file EXCEPT !.ambiguous = Flipped(@, n)]
  /\ UNCHANGED <<rows, runs, due, merging, asked, reading, silent, readings>>

\* bulk, of two merges: the second is checked against what the first left.
BulkMerge(v, w, target) ==
  LET r == RootOf(file, target)
      first == Joined(file, v, r)
  IN /\ MayAsk /\ Asks
     /\ v < w /\ {v, w, target} \subseteq file.known /\ target \notin {v, w}
     /\ Unlocked({v, w, r}) /\ Settled({v, w, r})
     /\ ~MergeProblem(file, v, r) /\ ~MergeProblem(first, w, r)
     /\ file' = Joined(first, w, r)
     /\ runs' = runs \o <<NewRun("merge", v, r), NewRun("merge", w, r)>>
     /\ UNCHANGED <<rows, due, merging, asked, reading, silent, readings>>

-----------------------------------------------------------------------------
(* Requests that tie several names to a root r, one after another: `change' is *)
(* what the ones before have made of the file, the runs and the silent names.  *)
Change(f) == [file |-> f, runs |-> runs, silent |-> silent]

\* claim_name's loop: a name that may not merge is skipped.
Claimed(change, v, r) ==
  IF MergeProblem(change.file, v, r) THEN change
  ELSE [change EXCEPT !.file = Joined(@, v, r), !.runs = Append(@, NewRun("merge", v, r))]

\* _find_or_create.
Created(f, n) == [f EXCEPT !.known = @ \cup {n}]

\* _import_root's loop: a name nothing uses is adopted without a run, a name in use merged,
\* a conflict reported.
Imported(change, v, r) ==
  LET f == Created(change.file, v)
      free == f.authority[v] = NoName /\ ~InUse(f, v)
  IN IF MergeProblem(f, v, r) THEN [change EXCEPT !.file = f]
     ELSE [file |-> Joined(f, v, r),
           runs |-> IF free THEN change.runs ELSE Append(change.runs, NewRun("merge", v, r)),
           silent |-> IF free THEN change.silent \cup {v} ELSE change.silent]

\* add_names' loop: a name no entity has is created as a variant, an unused root adopted.
Named(change, v, r) ==
  LET f == change.file
      free == v \notin f.known \/ (f.authority[v] = NoName /\ v \notin f.ambiguous /\ ~InUse(f, v))
  IN IF free /\ ~MergeProblem(f, v, r)
     THEN [change EXCEPT !.file = Joined(Created(f, v), v, r)] ELSE change

\* One more name, in the way of a claim, an import or an item's names.
Tied(way, change, v, r) ==
  CASE way = "claim"  -> Claimed(change, v, r)
    [] way = "import" -> IF change.file.authority[v] = r THEN change ELSE Imported(change, v, r)
    [] way = "item"   -> Named(change, v, r)

\* The loop over all of them.
TiedInTurn(way, change, S, r) ==
  LET after[n \in 0..LastName] ==
        IF n = 0 THEN change
        ELSE IF n \in S THEN Tied(way, after[n - 1], n, r) ELSE after[n - 1]
  IN after[LastName]

Commits(change) ==
  /\ file' = change.file /\ runs' = change.runs /\ silent' = change.silent
  /\ UNCHANGED <<rows, due, merging, asked, reading, readings>>

\* claim_name, its refusals and its effect.
MayClaim(f, r, text) ==
  /\ r \notin f.ambiguous
  /\ \E n \in f.known : Spelling[n] = text /\ (n = r \/ f.authority[n] = r)
  /\ f.claim[text] \in {NoName, r}

Claim(change, r, text) ==
  LET f == change.file
      others == {n \in f.known \ {r} : Spelling[n] = text /\ f.authority[n] # r}
      merged == TiedInTurn("claim", change, others, r)
  IN [merged EXCEPT !.file.claim[text] = r]

\* claim_name.
ClaimName(r, text) ==
  /\ MayAsk /\ Asks
  /\ IsRoot(r) /\ MayClaim(file, r, text)
  /\ LET spelled == {n \in file.known : Spelling[n] = text}
     IN Unlocked(spelled \cup {r}) /\ Settled(spelled \cup {r})
  /\ Commits(Claim(Change(file), r, text))

\* release_name.
ReleaseName(r, text) ==
  /\ MayAsk /\ Asks
  /\ IsRoot(r) /\ Unlocked({r})
  /\ file.claim[text] = r
  /\ Commits(Change([file EXCEPT !.claim[text] = NoName]))

\* _import_root and _import_claims: a root, its preferred name, its variants and whether it
\* claims its own text, as a file gives them; what the database decided otherwise is
\* reported, not changed.
Import(r, renamed, S, claims) ==
  LET chosen == [Change(Created(file, r)) EXCEPT
                   !.file.renamed = IF renamed THEN @ \cup {r} ELSE @ \ {r},
                   !.runs = IF r \in file.known /\ (r \in file.renamed) # renamed
                            THEN Append(@, NewRun("reindex", r, r)) ELSE @]
      tied == TiedInTurn("import", chosen, S, r)
      text == Spelling[r]
      spelled == {n \in file.known : claims /\ Spelling[n] = text}
  IN /\ MayAsk /\ Asks
     /\ file.authority[r] = NoName /\ r \notin S
     /\ Unlocked(S \cup spelled \cup {r}) /\ Settled(S \cup spelled \cup {r})
     /\ Commits(IF claims /\ tied.file.claim[text] = NoName /\ MayClaim(tied.file, r, text)
                THEN Claim(tied, r, text) ELSE tied)

\* add_names and its run, when it adds one.
AddsNames(f, r, S) ==
  LET change == TiedInTurn("item", Change(f), S \ {r}, r)
  IN Commits(IF change.file = f THEN change
             ELSE [change EXCEPT !.runs = Append(@, NewRun("reindex", r, r))])

\* link, and add_item_names: the item's labels and the ticked aliases become variants.
LinkItem(n, q, S) ==
  LET r == RootOf(file, n)
      linked == [file EXCEPT !.qid[r] = q]
  IN /\ MayAsk /\ Asks
     /\ n \in file.known /\ Unlocked(S \cup {r}) /\ Settled(S \cup {r})
     /\ r \notin file.ambiguous
     /\ file.qid[r] \in {NoQid, q}
     /\ \A holder \in Names \ {r} : file.qid[holder] # q
     /\ AddsNames(linked, r, S)

\* unlink.
UnlinkItem(n) ==
  LET r == RootOf(file, n)
  IN /\ MayAsk /\ Asks
     /\ n \in file.known /\ Unlocked({r}) /\ file.qid[r] # NoQid
     /\ Commits(Change([file EXCEPT !.qid[r] = NoQid]))

\* add_distinct.
AddDistinct(a, b) ==
  LET pair == {RootOf(file, a), RootOf(file, b)}
  IN /\ MayAsk /\ Asks
     /\ {a, b} \subseteq file.known /\ Unlocked(pair)
     /\ Cardinality(pair) = 2
     /\ Commits(Change([file EXCEPT !.distinct = @ \cup {pair}]))

\* remove_distinct.
RemoveDistinct(a, b) ==
  LET pair == {RootOf(file, a), RootOf(file, b)}
  IN /\ MayAsk /\ Asks
     /\ pair \in file.distinct
     /\ Commits(Change([file EXCEPT !.distinct = @ \ {pair}]))

\* _reaches: the names that links of this kind lead to from start.
Reached(f, kind, start) ==
  LET next(S) == {l.object : l \in {x \in f.links : x.kind = kind /\ x.subject \in S}}
      after[k \in Names] == IF k = 1 THEN next({start}) ELSE after[k - 1] \cup next(after[k - 1])
  IN after[LastName]

\* add_relation, between the roots of two names.
AddRelation(a, kind, b) ==
  LET link == Oriented([subject |-> RootOf(file, a), kind |-> kind, object |-> RootOf(file, b)])
  IN /\ MayAsk /\ Asks
     /\ {a, b} \subseteq file.known
     /\ link.subject # link.object /\ Unlocked({link.subject, link.object})
     /\ kind = "part_of" => link.subject \notin Reached(file, kind, link.object)
     /\ link \notin file.links
     /\ Commits(Change([file EXCEPT !.links = @ \cup {link}]))

\* remove_relation.
RemoveRelation(link) ==
  /\ MayAsk /\ Asks
  /\ Commits(Change([file EXCEPT !.links = @ \ {link}]))

-----------------------------------------------------------------------------
\* Mutant: a name that was not there is not created.
NotRegistered(f, used) == f

\* The names an article uses become entities; _claimed_by ties a new one to the root that
\* takes every type of its text.
Registered(f, used) ==
  LET root(n) == f.claim[Spelling[n]]
  IN [f EXCEPT !.known = @ \cup used,
               !.authority = [n \in Names |-> IF n \in used \ f.known /\ @[n] = NoName THEN root(n) ELSE @[n]]]

\* _publish: one row for each root of the names found.
PublishedRows(f, found) ==
  LET used == {n \in Names : found[n] > 0}
      part(n) == [observed |-> IF f.authority[n] = NoName THEN NoName ELSE n,
                  mentions |-> {[of |-> n, at |-> k, tag |-> NoName] : k \in 1..found[n]}]
      blank == [entity |-> NoName, observed |-> NoName, mentions |-> {}, current |-> TRUE]
  IN {Combined(blank, r, {part(n) : n \in {x \in used : RootOf(f, x) = r}}) :
      r \in {RootOf(f, n) : n \in used}}

\* _publish, its entities: the article's rows before are not current any more.
Publish(a, found) ==
  LET used == {n \in Names : found[n] > 0}
      f == Registered(file, used)
      past == {[row EXCEPT !.current = FALSE] : row \in rows[a]}
  IN /\ readings < MaxReadings /\ readings' = readings + 1
     /\ Unlocked(used \cup {f.authority[n] : n \in used \ file.known})
     /\ file' = f
     /\ rows' = [rows EXCEPT ![a] = past \cup PublishedRows(f, found)]
     /\ reading' = [reading EXCEPT ![a] = found]
     /\ asked' = Asked({a}, f, rows')
     /\ silent' = silent \cup {n \in used : f.authority[n] # file.authority[n]}
     /\ UNCHANGED <<runs, due, merging, requests>>

-----------------------------------------------------------------------------
\* scan_authority_runs: the unfinished runs, in the order of their creation.
StartCycle ==
  /\ due = {}
  /\ due' = {i \in DOMAIN runs : Open(i)}
  /\ due' # {}
  /\ UNCHANGED <<file, rows, runs, merging, asked, reading, silent, requests, readings>>

\* Mutant: only the current rows are moved.
PendingNow(run) ==
  {a \in Articles : IF run.kind = "merge" THEN \E row \in rows[a] : row.current /\ row.entity = run.entity
                    ELSE SplitRows(rows[a], run.entity, run.root) # {}}

\* _move: the articles whose rows are still to be moved.
Pending(run) ==
  {a \in Articles : IF run.kind = "merge" THEN \E row \in rows[a] : row.entity = run.entity
                    ELSE SplitRows(rows[a], run.entity, run.root) # {}}

\* _reindex: the articles of the root, the ones the run has passed left out.
ToReindex(run) ==
  Beyond({a \in Articles : \E row \in rows[a] : row.current /\ row.entity = run.root}, run.after)

\* advance_run in the move phase; a split's articles are reindexed as they are given back.
Move(i, batch) ==
  LET run == runs[i]
  IN /\ run.phase = "move"
     /\ Pending(run) # {} /\ IsBatch(batch, Pending(run), 0, BatchSize)
     /\ rows' = [a \in Articles |->
                  IF a \notin batch THEN rows[a]
                  ELSE IF run.kind = "merge" THEN MergedRows(rows[a], run.entity, run.root)
                  ELSE SplitArticle(rows[a], run.entity, run.root)]
     /\ asked' = IF run.kind = "split" THEN Asked(batch, file, rows') ELSE asked
     /\ UNCHANGED runs

\* Mutant: the cursor is not kept.
ReindexAgain(i, batch) ==
  LET run == runs[i]
  IN /\ run.phase = "reindex" \/ Pending(run) = {}
     /\ IsBatch(batch, ToReindex(run), 0, BatchSize)
     /\ asked' = Asked(batch, file, rows)
     /\ runs' = [runs EXCEPT ![i].phase = "reindex",
                             ![i].status = IF batch = {} THEN "finished" ELSE @]
     /\ UNCHANGED rows

\* advance_run when nothing is left to move: the root's next articles are reindexed.
Reindex(i, batch) ==
  LET run == runs[i]
  IN /\ run.phase = "reindex" \/ Pending(run) = {}
     /\ IsBatch(batch, ToReindex(run), 0, BatchSize)
     /\ asked' = Asked(batch, file, rows)
     /\ \E last \in 0..LastArticle :
          /\ IsCursor(last, batch, run.after)
          /\ runs' = [runs EXCEPT ![i].phase = "reindex", ![i].after = last,
                                  ![i].status = IF batch = {} THEN "finished" ELSE @]
     /\ UNCHANGED rows

\* advance_run.
AdvanceRun ==
  /\ \E i \in due, batch \in SUBSET Articles :
       /\ \A j \in due : i <= j
       /\ due' = due \ {i}
       /\ Move(i, batch) \/ Reindex(i, batch)
  /\ UNCHANGED <<file, merging, reading, silent, requests, readings>>

-----------------------------------------------------------------------------
\* A file in which at most one name is a variant, and articles NER read under it.
Init ==
  /\ \E v, r \in Names \ NewNames :
       file = [authority |-> [n \in Names |-> IF n = v /\ v # r THEN r ELSE NoName],
               known |-> Names \ NewNames, typed |-> {}, hidden |-> {}, renamed |-> {},
               established |-> {}, ambiguous |-> {}, distinct |-> {}, links |-> {},
               qid |-> [n \in Names |-> NoQid], claim |-> [t \in Texts |-> NoName]]
  /\ reading = FirstReading
  /\ rows = [a \in Articles |-> PublishedRows(file, reading[a])]
  /\ asked = [a \in Articles |-> Document(file, rows[a])]
  /\ runs = <<>> /\ due = {} /\ merging = {} /\ silent = {}
  /\ requests = 0 /\ readings = 0

\* What the user says of one root, or of a name.
Mark(n) == Rename(n) \/ SetType(n) \/ SetHidden(n) \/ SetStatus(n) \/ SetAmbiguous(n)

Next ==
  \/ \E v, target \in Names : BeginMerge(v, target)
  \/ \E tx \in merging : CommitMerge(tx) \/ Rollback(tx)
  \/ \E n \in Names : Split(n) \/ Mark(n) \/ UnlinkItem(n)
  \/ \E v, w, target \in Names : BulkMerge(v, w, target)
  \/ \E r \in Names, text \in Texts : ClaimName(r, text) \/ ReleaseName(r, text)
  \/ \E r, v \in Names, renamed, claims \in BOOLEAN : Import(r, renamed, {v}, claims)
  \/ \E n, v \in Names, q \in Qids : LinkItem(n, q, {v})
  \/ \E a, b \in Names : AddDistinct(a, b) \/ RemoveDistinct(a, b)
  \/ \E a, b \in Names, kind \in Kinds : AddRelation(a, kind, b)
  \/ \E link \in file.links : RemoveRelation(link)
  \/ \E a \in Articles, found \in Readings : Publish(a, found)
  \/ StartCycle \/ AdvanceRun

\* The scheduler runs a cycle every few seconds, and a transaction ends.
Fairness ==
  /\ WF_vars(StartCycle) /\ WF_vars(AdvanceRun)
  /\ WF_vars(\E tx \in merging : CommitMerge(tx) \/ Rollback(tx))

Spec == Init /\ [][Next]_vars /\ Fairness

-----------------------------------------------------------------------------
\* Nothing under way would move a row or ask for a document.
Quiet == merging = {} /\ \A i \in DOMAIN runs : ~Open(i)

\* "A variant always points straight at a root, never at another variant" (authority.py's first
\* lines), a variant carries no choice of its own, and links, items and claims name roots:
\* whatever the order of merges, splits, imports, claims and what NER ties by itself.
VariantPointsAtRoot ==
  LET roots == {n \in Names : file.authority[n] = NoName}
  IN /\ \A n \in Names : file.authority[n] # NoName => file.authority[n] \in roots
     /\ file.typed \cup file.hidden \subseteq roots
     /\ \A l \in file.links : {l.subject, l.object} \subseteq roots
     /\ {n \in Names : file.qid[n] # NoQid} \subseteq roots
     /\ \A t \in Texts : file.claim[t] # NoName => file.claim[t] \in roots

\* combine_rows and split_occurrences: however often rows are merged and split, with NER writing
\* new ones meanwhile, each mention of the last reading is in exactly one current row, and an
\* article has one current row for an entity, which the database holds it to.
MentionsAreKept ==
  \A a \in Articles :
    LET now == {row \in rows[a] : row.current}
        said(row) == {[of |-> m.of, at |-> m.at] : m \in row.mentions}
    IN /\ UNION {said(row) : row \in now} =
            UNION {{[of |-> n, at |-> k] : k \in 1..reading[a][n]} : n \in Names}
       /\ \A one, other \in now : one # other => one.entity # other.entity /\ said(one) \cap said(other) = {}

\* A mention's name: its tag, or what its row was seen under when no mention is tagged.
NameOf(m, row) ==
  IF m.tag # NoName THEN m.tag
  ELSE IF row.observed # NoName /\ \A x \in row.mentions : x.tag = NoName THEN row.observed
  ELSE row.entity

\* Rows "keep the name the article used ... so a split can give the mentions back exactly"
\* (authority.py's first lines): no merge or split takes a mention for another name's.
MentionsKeepTheirName ==
  \A a \in Articles : \A row \in rows[a] : \A m \in row.mentions : NameOf(m, row) = m.of

\* Once the runs have ended, every row of an article, of past generations too, is the root's of
\* each name it keeps: what a split gives back is under the name again, and no row names a
\* variant.
QuietRowsAreTheRoots ==
  Quiet => \A a \in Articles : \A row \in rows[a] : \A m \in row.mentions :
    row.entity = RootOf(file, NameOf(m, row))

\* A search for the name's root, widened by expand_for_search, finds the article.
Finds(a, n) == Expand(file, {RootOf(file, n)}) \cap {d.id : d \in asked[a]} # {}

\* "a filter on the root alone would lose them in between" (resolver.py): an article a search
\* for one of its names finds is found through every step of merges, imports, claims and
\* reindexing, until the name's root is hidden, a split is under way or NER reads it again.
SearchKeepsFindingArticles ==
  [][\A a \in Articles, n \in Names :
       /\ Finds(a, n) /\ reading[a][n] > 0 /\ reading' = reading
       /\ RootOf(file', n) \notin file'.hidden
       /\ \A i \in DOMAIN runs' : runs'[i].status = "running" => runs'[i].kind # "split"
       => Finds(a, n)']_vars

\* Once the runs have ended, each article was last asked for with the names, the types and the
\* marks of its entities as they are now; a name tied without a run is left out.
QuietIndexShowsNames ==
  LET unsaid == {Spelling[n] : n \in silent}
      shown(documents) == {[d EXCEPT !.names = @ \ unsaid] : d \in documents}
  IN Quiet => \A a \in Articles : shown(asked[a]) = shown(Document(file, rows[a]))

\* Both: once the runs have ended, the rows and the documents agree with the authority file,
\* whatever merges, splits and readings came between their batches (advance_run).
QuietArchiveAgrees == QuietRowsAreTheRoots /\ QuietIndexShowsNames

\* advance_run "moves rows until none are left, then reindexes the root's articles": every run
\* the scheduler goes on advancing ends.
EveryRunFinishes == []<>(merging = {} /\ \A i \in DOMAIN runs : ~Open(i))
=============================================================================
