-------------------------- MODULE AuthorityFileProofs --------------------------
(***************************************************************************)
(* Proofs about AuthorityFile for any number of names, articles, requests  *)
(* and readings: what the requests make of the file, what the runs and NER *)
(* make of the articles' rows, and what the articles are indexed with.     *)
(***************************************************************************)
EXTENDS AuthorityFile, FiniteSetTheorems, WellFoundedInduction, TLAPS

\* A request is made when no other one is under way.
OneRequestAtATime == ~Parallel

RootIn(f, n) == n \in f.known /\ f.authority[n] = NoName

\* VariantPointsAtRoot of a file, and that what it names has been created.
Sound(f) ==
  /\ f \in Files
  /\ \A n \in Names : f.authority[n] # NoName => n \in f.known /\ RootIn(f, f.authority[n])
  /\ \A n \in f.typed \cup f.hidden : RootIn(f, n)
  /\ \A l \in f.links : RootIn(f, l.subject) /\ RootIn(f, l.object)
  /\ \A n \in Names : f.qid[n] # NoQid => RootIn(f, n)
  /\ \A t \in Texts : f.claim[t] # NoName => RootIn(f, f.claim[t])

Changes == [file : Files, runs : Seq(Runs), silent : SUBSET Names]

\* An unfinished split is about one of these names.
SplitNames(rs, S) ==
  \E i \in DOMAIN rs : rs[i].status = "running" /\ rs[i].kind = "split" /\ {rs[i].entity, rs[i].root} \cap S # {}

MayTie(rs, S) == Impatient \/ ~SplitNames(rs, S)

\* A merge under way is the only request, its names stay what it has read, and no split is
\* about them.
MergeIsSound ==
  \A tx \in merging :
    /\ merging = {tx} /\ tx.variant # tx.root
    /\ RootIn(file, tx.variant) /\ RootIn(file, tx.root)
    /\ MayTie(runs, {tx.variant, tx.root})

FileTypes ==
  /\ runs \in Seq(Runs)
  /\ merging \subseteq [variant : Names, root : Names]
  /\ reading \in [Articles -> [Names -> Nat]]
  /\ silent \subseteq Names
  /\ requests \in 0..MaxRequests /\ readings \in 0..MaxReadings

FileIsSound == Sound(file) /\ FileTypes /\ MergeIsSound

-----------------------------------------------------------------------------
(* Induction over the names of a loop. *)

LEMMA MinimalNumber ==
  ASSUME NEW R, \A k, m \in Nat : k < m => <<k, m>> \in R, IsWellFoundedOn(R, Nat),
         NEW T, T \subseteq Nat, T # {}
  PROVE  \E m \in T : \A k \in T : m <= k
<1>1. \E m \in T : \A k \in T : ~(<<k, m>> \in R)
  BY ONLY WFMin, IsWellFoundedOn(R, Nat), T \subseteq Nat, T # {}
<1>2. \E m \in T : \A k \in T : ~(k < m)  BY <1>1, Zenon
<1>. QED  BY ONLY <1>2, T \subseteq Nat

LEMMA LeastNumber ==
  ASSUME NEW T, T \subseteq Nat, T # {}
  PROVE  \E m \in T : \A k \in T : m <= k
<1>1. \E R : IsWellFoundedOn(R, Nat) /\ \A k, m \in Nat : k < m => <<k, m>> \in R
  BY NatLessThanWellFounded DEF OpToRel
<1>. QED  BY <1>1, MinimalNumber

LEMMA AllNumbers ==
  ASSUME NEW S, 0 \in S, \A n \in Nat : n \in S => n + 1 \in S
  PROVE  Nat \subseteq S
<1>1. SUFFICES ASSUME Nat \ S # {}
               PROVE  FALSE
  OBVIOUS
<1>2. PICK m \in Nat \ S : \A k \in Nat \ S : m <= k  BY <1>1, LeastNumber
<1>3. m - 1 \in Nat  BY <1>2
<1>4. m - 1 \in S  BY <1>2, <1>3
<1>. QED  BY <1>3, <1>4, <1>2

-----------------------------------------------------------------------------
(* What merge and adopt write. *)

\* f with other links, items, claims, types, marks and variants.
Rewritten(f, links, qid, claim, typed, hidden, authority) ==
  [f EXCEPT !.links = links, !.qid = qid, !.claim = claim, !.typed = typed,
            !.hidden = hidden, !.authority = authority]

Fields(f, links, qid, claim, typed, hidden, authority) ==
  /\ f \in Files
  /\ links \in SUBSET Links /\ qid \in [Names -> Qids \cup {NoQid}]
  /\ claim \in [Texts -> Names \cup {NoName}]
  /\ typed \in SUBSET Names /\ hidden \in SUBSET Names
  /\ authority \in [Names -> Names \cup {NoName}]

LEMMA FileUpdate ==
  ASSUME NEW f, NEW links, NEW qid, NEW claim, NEW typed, NEW hidden, NEW authority,
         Fields(f, links, qid, claim, typed, hidden, authority),
         NEW g, g = Rewritten(f, links, qid, claim, typed, hidden, authority)
  PROVE  /\ g \in Files
         /\ g.links = links /\ g.qid = qid /\ g.claim = claim /\ g.typed = typed
         /\ g.hidden = hidden /\ g.authority = authority /\ g.known = f.known
         /\ g.renamed = f.renamed
BY DEF Files, Fields, Rewritten

\* g is f after v and its variants have become r's.
TiedTo(g, f, v, r) ==
  /\ g.authority = [n \in Names |-> IF n = v \/ f.authority[n] = v THEN r ELSE f.authority[n]]
  /\ g.typed = f.typed \ {v} /\ g.hidden = f.hidden \ {v} /\ g.renamed = f.renamed

LEMMA JoinedIsSound ==
  ASSUME NEW f, Sound(f), NEW v, NEW r, RootIn(f, v), RootIn(f, r), v # r,
         NEW g, g = Joined(f, v, r)
  PROVE  /\ Sound(g) /\ g.known = f.known
         /\ \A n \in f.known : n # v /\ RootIn(f, n) => RootIn(g, n)
         /\ TiedTo(g, f, v, r)
<1>. DEFINE links == MovedLinks(f, v, r)
            qid == MovedQids(f, v, r)
            claim == [t \in Texts |-> IF f.claim[t] = v THEN r ELSE f.claim[t]]
            typed == f.typed \ {v}
            hidden == f.hidden \ {v}
            authority == [n \in Names |-> IF n = v \/ f.authority[n] = v THEN r ELSE f.authority[n]]
<1>1. /\ f \in Files /\ v \in Names /\ r \in Names /\ f.known \subseteq Names
      /\ f.authority \in [Names -> Names \cup {NoName}] /\ f.links \subseteq Links
      /\ f.qid \in [Names -> Qids \cup {NoQid}] /\ f.claim \in [Texts -> Names \cup {NoName}]
      /\ f.typed \subseteq Names /\ f.hidden \subseteq Names
  BY DEF Sound, RootIn, Files
<1>2. v # NoName /\ r # NoName  BY <1>1 DEF Names, NoName
<1>3. \A l \in links : /\ l \in Links
                       /\ RootIn(f, l.subject) /\ l.subject # v
                       /\ RootIn(f, l.object) /\ l.object # v
  <2>. DEFINE end(n) == IF n = v THEN r ELSE n
              moved(l) == [l EXCEPT !.subject = end(@), !.object = end(@)]
  <2>1. ASSUME NEW l \in f.links
        PROVE  /\ Oriented(moved(l)) \in Links
               /\ RootIn(f, Oriented(moved(l)).subject) /\ Oriented(moved(l)).subject # v
               /\ RootIn(f, Oriented(moved(l)).object) /\ Oriented(moved(l)).object # v
    <3>1. l \in Links /\ RootIn(f, l.subject) /\ RootIn(f, l.object)  BY <1>1 DEF Sound
    <3>2. PICK link : link = moved(l)  OBVIOUS
    <3>3. /\ link \in Links /\ link.subject = end(l.subject) /\ link.object = end(l.object)
      BY <1>1, <3>1, <3>2 DEF Links
    <3>4. /\ RootIn(f, link.subject) /\ link.subject # v
          /\ RootIn(f, link.object) /\ link.object # v
      BY <3>1, <3>3
    <3>. HIDE DEF moved
    <3>5. /\ Oriented(link) \in Links
          /\ RootIn(f, Oriented(link).subject) /\ Oriented(link).subject # v
          /\ RootIn(f, Oriented(link).object) /\ Oriented(link).object # v
      BY <3>3, <3>4 DEF Oriented, Links
    <3>. QED  BY <3>2, <3>5
  <2>2. links = {Oriented(moved(l)) : l \in f.links}  BY DEF MovedLinks
  <2>. HIDE DEF moved, links
  <2>. QED  BY <2>1, <2>2
<1>4. links \in SUBSET Links  BY <1>3
<1>5. qid \in [Names -> Qids \cup {NoQid}]  BY <1>1 DEF MovedQids
<1>6. claim \in [Texts -> Names \cup {NoName}]  BY <1>1
<1>7. authority \in [Names -> Names \cup {NoName}]  BY <1>1
<1>8. typed \in SUBSET Names /\ hidden \in SUBSET Names  BY <1>1
<1>9. g = Rewritten(f, links, qid, claim, typed, hidden, authority)
  BY DEF Joined, Rewritten
<1>. HIDE DEF links, qid, claim, typed, hidden, authority
<1>10. /\ g \in Files
       /\ g.links = links /\ g.qid = qid /\ g.claim = claim /\ g.typed = typed
       /\ g.hidden = hidden /\ g.authority = authority /\ g.known = f.known
       /\ g.renamed = f.renamed
  <2>1. Fields(f, links, qid, claim, typed, hidden, authority)
    BY <1>1, <1>4, <1>5, <1>6, <1>7, <1>8 DEF Fields
  <2>. QED  BY ONLY <2>1, <1>9, FileUpdate
<1>11. \A n \in f.known : n # v /\ RootIn(f, n) => RootIn(g, n)
  BY <1>1, <1>2, <1>10 DEF RootIn, authority
<1>12. RootIn(g, r)  BY <1>11 DEF RootIn
<1>13. \A n \in Names : g.authority[n] # NoName => n \in g.known /\ RootIn(g, g.authority[n])
  <2>1. SUFFICES ASSUME NEW n \in Names, authority[n] # NoName
                 PROVE  n \in f.known /\ RootIn(g, authority[n])
    BY <1>10
  <2>2. CASE n = v  BY <1>1, <1>12, <2>2 DEF RootIn, authority
  <2>3. CASE f.authority[n] = v  BY <1>1, <1>2, <1>12, <2>3 DEF Sound, authority
  <2>4. CASE n # v /\ f.authority[n] # v
    <3>1. authority[n] = f.authority[n]  BY <2>4 DEF authority
    <3>2. n \in f.known /\ RootIn(f, f.authority[n])  BY <2>1, <3>1 DEF Sound
    <3>. QED  BY <1>11, <2>4, <3>1, <3>2 DEF RootIn
  <2>. QED  BY <2>2, <2>3, <2>4
<1>14. \A n \in g.typed \cup g.hidden : RootIn(g, n)
  BY <1>10, <1>11 DEF Sound, RootIn, typed, hidden
<1>15. \A l \in g.links : RootIn(g, l.subject) /\ RootIn(g, l.object)
  BY <1>3, <1>10, <1>11 DEF RootIn
<1>16. \A n \in Names : g.qid[n] # NoQid => RootIn(g, n)
  <2>1. SUFFICES ASSUME NEW n \in Names, qid[n] # NoQid
                 PROVE  RootIn(g, n)
    BY <1>10
  <2>2. CASE f.qid[v] = NoQid
    <3>1. f.qid[n] # NoQid /\ n # v  BY <2>1, <2>2 DEF qid, MovedQids
    <3>. QED  BY <1>11, <3>1 DEF Sound, RootIn
  <2>3. CASE f.qid[v] # NoQid
    <3>1. n = r \/ (n # v /\ f.qid[n] # NoQid)  BY <1>1, <2>1, <2>3 DEF qid, MovedQids
    <3>. QED  BY <1>11, <1>12, <3>1 DEF Sound, RootIn
  <2>. QED  BY <2>2, <2>3
<1>17. \A t \in Texts : g.claim[t] # NoName => RootIn(g, g.claim[t])
  <2>1. SUFFICES ASSUME NEW t \in Texts, claim[t] # NoName
                 PROVE  RootIn(g, claim[t])
    BY <1>10
  <2>2. CASE f.claim[t] = v  BY <1>12, <2>2 DEF claim
  <2>3. CASE f.claim[t] # v
    <3>1. claim[t] = f.claim[t] /\ RootIn(f, f.claim[t])  BY <2>1, <2>3 DEF claim, Sound
    <3>. QED  BY <1>11, <2>3, <3>1 DEF RootIn
  <2>. QED  BY <2>2, <2>3
<1>18. Sound(g)  BY <1>10, <1>13, <1>14, <1>15, <1>16, <1>17 DEF Sound
<1>19. TiedTo(g, f, v, r)  BY <1>10 DEF TiedTo, typed, hidden, authority
<1>. QED  BY <1>10, <1>11, <1>18, <1>19

LEMMA CreatedIsSound ==
  ASSUME NEW f, Sound(f), NEW n \in Names,
         NEW g, g = Created(f, n)
  PROVE  /\ Sound(g) /\ g.known = f.known \cup {n} /\ g.authority = f.authority
         /\ \A m : RootIn(f, m) => RootIn(g, m)
<1>1. f \in Files  BY DEF Sound
<1>2. /\ g \in Files /\ g.known = f.known \cup {n} /\ g.authority = f.authority
      /\ g.typed = f.typed /\ g.hidden = f.hidden /\ g.links = f.links
      /\ g.qid = f.qid /\ g.claim = f.claim
  BY <1>1 DEF Created, Files
<1>3. \A m : RootIn(f, m) => RootIn(g, m)  BY <1>2 DEF RootIn
<1>4. Sound(g)  BY <1>2, <1>3 DEF Sound
<1>. QED  BY <1>2, <1>3, <1>4

LEMMA RootOfIsRoot ==
  ASSUME NEW f, Sound(f), NEW n \in f.known
  PROVE  RootOf(f, n) \in Names /\ RootIn(f, RootOf(f, n))
BY DEF Sound, RootOf, RootIn, Files

\* f with other fields that name no root: a rename, a status, a mark, a pair kept apart.
LEMMA SameRootsIsSound ==
  ASSUME NEW f, Sound(f), NEW g \in Files,
         g.known = f.known, g.authority = f.authority, g.links = f.links,
         g.qid = f.qid, g.claim = f.claim,
         \A n \in g.typed \cup g.hidden : RootIn(f, n)
  PROVE  Sound(g)
<1>1. \A n : RootIn(f, n) => RootIn(g, n)  BY DEF RootIn
<1>. QED  BY <1>1 DEF Sound

\* An item is linked to a root, or taken from it.
LEMMA ItemIsSound ==
  ASSUME NEW f, Sound(f), NEW r \in Names, RootIn(f, r), NEW q \in Qids \cup {NoQid},
         NEW g, g = [f EXCEPT !.qid[r] = q]
  PROVE  Sound(g) /\ RootIn(g, r)
<1>1. /\ g \in Files /\ g.known = f.known /\ g.authority = f.authority /\ g.typed = f.typed
      /\ g.hidden = f.hidden /\ g.links = f.links /\ g.claim = f.claim
      /\ g.qid = [f.qid EXCEPT ![r] = q] /\ f.qid \in [Names -> Qids \cup {NoQid}]
  BY DEF Sound, Files
<1>2. \A n : RootIn(f, n) => RootIn(g, n)  BY <1>1 DEF RootIn
<1>3. \A n \in Names : g.qid[n] # NoQid => RootIn(g, n)  BY <1>1, <1>2 DEF Sound
<1>. QED  BY <1>1, <1>2, <1>3 DEF Sound

LEMMA NewRunIsOne ==
  ASSUME NEW kind \in {"merge", "split", "reindex"}, NEW e \in Names, NEW r \in Names
  PROVE  NewRun(kind, e, r) \in Runs
<1>1. 0 \in 0..LastArticle  BY AuthorityFileConstants
<1>2. LET phase == IF kind = "reindex" THEN "reindex" ELSE "move" IN phase \in {"move", "reindex"}
  OBVIOUS
<1>. QED  BY <1>1, <1>2 DEF NewRun, Runs

LEMMA NoProblem ==
  ASSUME NEW f, NEW v, NEW r, ~MergeProblem(f, v, r)
  PROVE  v # r /\ f.authority[v] = NoName
BY DEF MergeProblem

-----------------------------------------------------------------------------
(* What requests do to the file, the runs and the silent names, in steps of four kinds. *)

SameMarks(f, g) == g.typed = f.typed /\ g.hidden = f.hidden /\ g.renamed = f.renamed

\* Names are created, and what the user says besides authorities and marks changes.
Aside(c, d) ==
  /\ d.file.authority = c.file.authority /\ c.file.known \subseteq d.file.known
  /\ SameMarks(c.file, d.file) /\ d.runs = c.runs /\ d.silent = c.silent

\* A root's mark changes, and its articles are to be reindexed; a new root has none.
Marking(c, d, n) ==
  /\ RootIn(d.file, n)
  /\ d.file.authority = c.file.authority /\ d.file.known = c.file.known \cup {n}
  /\ d.file.typed \ {n} = c.file.typed \ {n} /\ d.file.hidden \ {n} = c.file.hidden \ {n}
  /\ d.file.renamed \ {n} = c.file.renamed \ {n}
  /\ d.silent = c.silent
  /\ \/ d.runs = Append(c.runs, NewRun("reindex", n, n))
     \/ n \notin c.file.known /\ d.runs = c.runs

\* A root is merged into another.
Merging(c, d, v, r) ==
  /\ RootIn(c.file, v) /\ RootIn(c.file, r) /\ v # r /\ MayTie(c.runs, {v, r})
  /\ d.file = Joined(c.file, v, r) /\ d.runs = Append(c.runs, NewRun("merge", v, r))
  /\ d.silent = c.silent

\* A name that is new or not in use becomes a variant.
Adopting(c, d, v, r) ==
  /\ RootIn(c.file, r) /\ v # r /\ v \in Names /\ MayTie(c.runs, {v, r})
  /\ v \notin c.file.known \/ (RootIn(c.file, v) /\ ~InUse(c.file, v))
  /\ d.file = Joined(Created(c.file, v), v, r) /\ d.runs = c.runs

\* Good has every change of these kinds that starts from a member.
Closed(Good) ==
  /\ Good \subseteq {c \in Changes : Sound(c.file)}
  /\ \A c \in Good, d \in Changes : Sound(d.file) =>
       /\ Aside(c, d) => d \in Good
       /\ \A n \in Names : Marking(c, d, n) => d \in Good
       /\ \A v, r \in Names : Merging(c, d, v, r) => d \in Good
       /\ \A v, r \in Names : Adopting(c, d, v, r) /\ d.silent = c.silent \cup {v} => d \in Good

\* Between adding an item's names to r and starting the run that reindexes its articles.
ClosedBetween(Good, Almost, r) ==
  /\ Good \subseteq Almost
  /\ Almost \subseteq {c \in Changes : Sound(c.file)}
  /\ \A c \in Almost, d \in Changes : Sound(d.file) =>
       /\ \A v \in Names : Adopting(c, d, v, r) /\ d.silent = c.silent => d \in Almost
       /\ /\ RootIn(c.file, r) /\ d.file = c.file /\ d.silent = c.silent
          /\ d.runs = Append(c.runs, NewRun("reindex", r, r))
          => d \in Good

Here == Change(file)

LEMMA HereNext ==
  ASSUME NEW d \in Changes, file' = d.file, runs' = d.runs, silent' = d.silent
  PROVE  Here' = d
BY DEF Here, Change, Changes

LEMMA CommitsHere ==
  ASSUME NEW d \in Changes, Commits(d)
  PROVE  Here' = d
BY HereNext DEF Commits

\* Changes of a file typed field by field.
LEMMA ChangeOf ==
  ASSUME NEW f \in Files, NEW rs \in Seq(Runs), NEW names \in SUBSET Names,
         NEW d, d = [file |-> f, runs |-> rs, silent |-> names]
  PROVE  d \in Changes /\ d.file = f /\ d.runs = rs /\ d.silent = names
BY DEF Changes

LEMMA MayTieHere ==
  ASSUME NEW S, Settled(S), NEW T, T \subseteq S
  PROVE  MayTie(runs, T)
BY DEF Settled, MayTie, SplitNames, Splitting, Open

\* New merges and reindexes are no splits.
LEMMA SplitNamesStay ==
  ASSUME NEW rs \in Seq(Runs), NEW kind \in {"merge", "reindex"}, NEW e \in Names, NEW r \in Names,
         NEW S, MayTie(rs, S)
  PROVE  MayTie(Append(rs, NewRun(kind, e, r)), S)
<1>1. PICK run : run = NewRun(kind, e, r)  OBVIOUS
<1>2. run.kind = kind /\ run \in Runs  BY <1>1, NewRunIsOne DEF NewRun
<1>3. PICK next : next = Append(rs, run)  OBVIOUS
<1>4. /\ DOMAIN rs = 1..Len(rs) /\ DOMAIN next = 1..(Len(rs) + 1) /\ Len(rs) \in Nat
      /\ \A i \in 1..Len(rs) : next[i] = rs[i]
      /\ next[Len(rs) + 1] = run
  BY <1>2, <1>3
<1>5. SplitNames(next, S) => SplitNames(rs, S)
  <2>1. SUFFICES ASSUME NEW i \in DOMAIN next, next[i].status = "running", next[i].kind = "split",
                        {next[i].entity, next[i].root} \cap S # {}
                 PROVE  SplitNames(rs, S)
    BY DEF SplitNames
  <2>2. i # Len(rs) + 1  BY <1>2, <1>4, <2>1
  <2>3. i \in DOMAIN rs /\ next[i] = rs[i]  BY <1>4, <2>2
  <2>. QED  BY <2>1, <2>3 DEF SplitNames
<1>. QED  BY <1>1, <1>3, <1>5 DEF MayTie

-----------------------------------------------------------------------------
(* One name of a loop. *)

\* The changes of Vals in which names of S may be tied to r.
TyingIn(Vals, r, S) == {c \in Vals : RootIn(c.file, r) /\ MayTie(c.runs, S)}

LEMMA OneMore ==
  ASSUME NEW c \in Changes, NEW run \in Runs
  PROVE  \E next \in Seq(Runs) : next = Append(c.runs, run)
<1>1. c.runs \in Seq(Runs)  BY DEF Changes
<1>2. Append(c.runs, run) \in Seq(Runs)  BY <1>1
<1>. QED  BY <1>2

LEMMA MayTieLess ==
  ASSUME NEW rs, NEW S, MayTie(rs, S), NEW T, T \subseteq S
  PROVE  MayTie(rs, T)
BY DEF MayTie, SplitNames

LEMMA ClaimedStays ==
  ASSUME NEW Good, Closed(Good), NEW S \in SUBSET Names, NEW r \in S,
         NEW c \in TyingIn(Good, r, S), NEW v \in S, v \in c.file.known
  PROVE  Claimed(c, v, r) \in TyingIn(Good, r, S) /\ Claimed(c, v, r).file.known = c.file.known
<1>1. c \in Good /\ c \in Changes /\ Sound(c.file) /\ RootIn(c.file, r) /\ MayTie(c.runs, S)
  BY DEF TyingIn, Closed
<1>2. CASE MergeProblem(c.file, v, r)  BY <1>2 DEF Claimed
<1>3. CASE ~MergeProblem(c.file, v, r)
  <2>1. v # r /\ RootIn(c.file, v)  BY <1>1, <1>3, NoProblem DEF RootIn
  <2>2. PICK g : g = Joined(c.file, v, r)  OBVIOUS
  <2>3. Sound(g) /\ g.known = c.file.known /\ RootIn(g, r)
    BY <1>1, <2>1, <2>2, JoinedIsSound DEF RootIn
  <2>4. PICK run \in Runs : run = NewRun("merge", v, r)  BY NewRunIsOne
  <2>5. PICK next \in Seq(Runs) : next = Append(c.runs, run)  BY <1>1, OneMore
  <2>6. PICK d : d = [file |-> g, runs |-> next, silent |-> c.silent]  OBVIOUS
  <2>7. d \in Changes /\ d.file = g /\ d.runs = next /\ d.silent = c.silent
    BY <1>1, <2>3, <2>6, ChangeOf DEF Changes, Sound
  <2>8. Claimed(c, v, r) = d
    <3>1. Claimed(c, v, r) = [c EXCEPT !.file = g, !.runs = next]
      BY <1>3, <2>2, <2>4, <2>5 DEF Claimed
    <3>2. c = [file |-> c.file, runs |-> c.runs, silent |-> c.silent]  BY <1>1 DEF Changes
    <3>. QED  BY <2>6, <3>1, <3>2
  <2>9. MayTie(c.runs, {v, r})  BY <1>1, MayTieLess
  <2>10. Merging(c, d, v, r)  BY <1>1, <2>1, <2>2, <2>4, <2>5, <2>7, <2>9 DEF Merging
  <2>11. d \in Good  BY <1>1, <2>3, <2>7, <2>10 DEF Closed
  <2>12. MayTie(next, S)  BY <1>1, <2>4, <2>5, SplitNamesStay DEF Changes
  <2>. QED  BY <2>3, <2>7, <2>8, <2>11, <2>12 DEF TyingIn
<1>. QED  BY <1>2, <1>3

LEMMA ImportedStays ==
  ASSUME NEW Good, Closed(Good), NEW S \in SUBSET Names, NEW r \in S,
         NEW c \in TyingIn(Good, r, S), NEW v \in S
  PROVE  Imported(c, v, r) \in TyingIn(Good, r, S)
<1>1. c \in Good /\ c \in Changes /\ Sound(c.file) /\ RootIn(c.file, r) /\ MayTie(c.runs, S)
  BY DEF TyingIn, Closed
<1>2. PICK f : f = Created(c.file, v)  OBVIOUS
<1>3. Sound(f) /\ f \in Files /\ f.known = c.file.known \cup {v} /\ f.authority = c.file.authority /\ RootIn(f, r)
  BY <1>1, <1>2, CreatedIsSound DEF RootIn, Sound
<1>4. SameMarks(c.file, f)  BY <1>1, <1>2 DEF Created, SameMarks, Sound, Files
<1>5. MayTie(c.runs, {v, r})  BY <1>1, MayTieLess
<1>6. PICK b : b = [file |-> f, runs |-> c.runs, silent |-> c.silent]  OBVIOUS
<1>7. b \in Changes /\ b.file = f /\ b.runs = c.runs /\ b.silent = c.silent
  BY <1>1, <1>3, <1>6, ChangeOf DEF Changes
<1>8. Aside(c, b)  BY <1>3, <1>4, <1>7 DEF Aside
<1>9. b \in Good  BY <1>1, <1>3, <1>7, <1>8 DEF Closed
<1>10. CASE MergeProblem(f, v, r)
  <2>1. Imported(c, v, r) = b  BY <1>1, <1>2, <1>6, <1>10 DEF Imported, Changes
  <2>. QED  BY <1>1, <1>3, <1>7, <1>9, <2>1 DEF TyingIn
<1>11. CASE ~MergeProblem(f, v, r)
  <2>1. v # r /\ RootIn(f, v)  BY <1>3, <1>11, NoProblem DEF RootIn
  <2>2. PICK g : g = Joined(f, v, r)  OBVIOUS
  <2>3. Sound(g) /\ g \in Files /\ g.known = f.known /\ RootIn(g, r)
    BY <1>3, <2>1, <2>2, JoinedIsSound DEF RootIn, Sound
  <2>4. PICK free : free = (f.authority[v] = NoName /\ ~InUse(f, v))  OBVIOUS
  <2>5. CASE free
    <3>1. PICK d : d = [file |-> g, runs |-> c.runs, silent |-> c.silent \cup {v}]  OBVIOUS
    <3>2. d \in Changes /\ d.file = g /\ d.runs = c.runs /\ d.silent = c.silent \cup {v}
      BY <1>1, <2>3, <3>1, ChangeOf DEF Changes
    <3>3. Imported(c, v, r) = d  BY <1>2, <1>11, <2>2, <2>4, <2>5, <3>1 DEF Imported
    <3>4. g = Joined(Created(f, v), v, r)
      <4>1. Created(f, v) = f  BY <1>3 DEF Created, Files
      <4>. QED  BY <2>2, <4>1
    <3>5. Adopting(b, d, v, r)  BY <1>3, <1>5, <1>7, <2>1, <2>4, <2>5, <3>2, <3>4 DEF Adopting
    <3>6. d \in Good  BY <1>7, <1>9, <2>3, <3>2, <3>5 DEF Closed
    <3>. QED  BY <1>1, <1>3, <2>3, <3>2, <3>3, <3>6 DEF TyingIn
  <2>6. CASE ~free
    <3>1. PICK run \in Runs : run = NewRun("merge", v, r)  BY NewRunIsOne
    <3>2. PICK next \in Seq(Runs) : next = Append(c.runs, run)  BY <1>1, OneMore
    <3>3. PICK d : d = [file |-> g, runs |-> next, silent |-> c.silent]  OBVIOUS
    <3>4. d \in Changes /\ d.file = g /\ d.runs = next /\ d.silent = c.silent
      BY <1>1, <2>3, <3>3, ChangeOf DEF Changes
    <3>5. Imported(c, v, r) = d  BY <1>2, <1>11, <2>2, <2>4, <2>6, <3>1, <3>2, <3>3 DEF Imported
    <3>6. Merging(b, d, v, r)  BY <1>3, <1>5, <1>7, <2>1, <2>2, <3>1, <3>2, <3>4 DEF Merging
    <3>7. d \in Good  BY <1>9, <2>3, <3>4, <3>6 DEF Closed
    <3>8. MayTie(next, S)  BY <1>1, <3>1, <3>2, SplitNamesStay DEF Changes
    <3>. QED  BY <1>3, <2>3, <3>4, <3>5, <3>7, <3>8 DEF TyingIn
  <2>. QED  BY <2>5, <2>6
<1>. QED  BY <1>10, <1>11

LEMMA ImportedKnows ==
  ASSUME NEW c \in Changes, NEW v \in Names, NEW r, NEW K, c.file.known \subseteq K, v \in K
  PROVE  Imported(c, v, r).file.known \subseteq K
<1>1. PICK f : f = Created(c.file, v)  OBVIOUS
<1>2. f \in Files /\ f.known \subseteq K  BY <1>1 DEF Changes, Files, Created
<1>3. PICK g : g = Joined(f, v, r)  OBVIOUS
<1>4. g.known = f.known  BY <1>2, <1>3 DEF Joined, Files
<1>5. Imported(c, v, r).file = f \/ Imported(c, v, r).file = g
  BY <1>1, <1>3 DEF Imported, Changes
<1>. QED  BY <1>2, <1>4, <1>5

LEMMA NamedStays ==
  ASSUME NEW Good, NEW Almost, NEW S \in SUBSET Names, NEW r \in S,
         ClosedBetween(Good, Almost, r), NEW c \in TyingIn(Almost, r, S), NEW v \in S
  PROVE  /\ Named(c, v, r) \in TyingIn(Almost, r, S)
         /\ Named(c, v, r).runs = c.runs /\ Named(c, v, r).silent = c.silent
<1>1. c \in Almost /\ c \in Changes /\ Sound(c.file) /\ RootIn(c.file, r) /\ MayTie(c.runs, S)
  BY DEF TyingIn, ClosedBetween
<1>2. CASE Named(c, v, r) = c  BY <1>2
<1>3. CASE Named(c, v, r) # c
  <2>1. /\ ~MergeProblem(c.file, v, r)
        /\ v \notin c.file.known \/ (c.file.authority[v] = NoName /\ ~InUse(c.file, v))
    BY <1>3 DEF Named
  <2>2. PICK f : f = Created(c.file, v)  OBVIOUS
  <2>3. Sound(f) /\ f.known = c.file.known \cup {v} /\ RootIn(f, r) /\ f.authority = c.file.authority
    BY <1>1, <2>2, CreatedIsSound DEF RootIn
  <2>4. v # r /\ RootIn(f, v)  BY <2>1, <2>3, NoProblem DEF RootIn
  <2>5. PICK g : g = Joined(f, v, r)  OBVIOUS
  <2>6. Sound(g) /\ g \in Files /\ RootIn(g, r)  BY <2>3, <2>4, <2>5, JoinedIsSound DEF RootIn, Sound
  <2>7. PICK d : d = [file |-> g, runs |-> c.runs, silent |-> c.silent]  OBVIOUS
  <2>8. d \in Changes /\ d.file = g /\ d.runs = c.runs /\ d.silent = c.silent
    BY <1>1, <2>6, <2>7, ChangeOf DEF Changes
  <2>9. Named(c, v, r) = d  BY <1>1, <1>3, <2>2, <2>5, <2>7 DEF Named, Changes
  <2>10. MayTie(c.runs, {v, r})  BY <1>1, MayTieLess
  <2>11. Adopting(c, d, v, r)
    BY <1>1, <2>1, <2>2, <2>4, <2>5, <2>8, <2>10 DEF Adopting, RootIn
  <2>12. d \in Almost  BY <1>1, <2>6, <2>8, <2>11 DEF ClosedBetween
  <2>. QED  BY <1>1, <2>6, <2>8, <2>9, <2>12 DEF TyingIn
<1>. QED  BY <1>2, <1>3

-----------------------------------------------------------------------------
(* The loops. *)

\* after is the loop's result after each of the first k names.
Loops(after, Vals, way, change, S, r, k) ==
  /\ after \in [0..k -> Vals]
  /\ \A n \in 0..k : after[n] = IF n = 0 THEN change
                                ELSE IF n \in S THEN Tied(way, after[n - 1], n, r) ELSE after[n - 1]

LEMMA LoopEnds ==
  ASSUME NEW way, NEW S, NEW r, NEW Vals, NEW change \in Vals,
         \A c \in Vals, n \in S : Tied(way, c, n, r) \in Vals
  PROVE  \E after : Loops(after, Vals, way, change, S, r, LastName)
<1>. DEFINE Done == {k \in Nat : k <= LastName => \E after : Loops(after, Vals, way, change, S, r, k)}
            Step(c, n) == IF n \in S THEN Tied(way, c, n, r) ELSE c
<1>1. \A c \in Vals, n \in Nat : Step(c, n) \in Vals
  OBVIOUS
<1>2. 0 \in Done
  <2>1. Loops([n \in 0..0 |-> change], Vals, way, change, S, r, 0)  BY DEF Loops
  <2>. QED  BY <2>1
<1>3. ASSUME NEW k \in Nat, k \in Done
      PROVE  k + 1 \in Done
  <2>1. SUFFICES ASSUME k + 1 <= LastName
                 PROVE  \E after : Loops(after, Vals, way, change, S, r, k + 1)
    OBVIOUS
  <2>2. LastName \in Nat  BY AuthorityFileConstants
  <2>3. PICK before : Loops(before, Vals, way, change, S, r, k)  BY <1>3, <2>1, <2>2
  <2>4. before \in [0..k -> Vals] /\ before[k] \in Vals  BY <2>3 DEF Loops
  <2>5. PICK last : last = Step(before[k], k + 1)  OBVIOUS
  <2>6. last \in Vals  BY <1>1, <2>4, <2>5
  <2>7. PICK after : after = [n \in 0..(k + 1) |-> IF n = k + 1 THEN last ELSE before[n]]  OBVIOUS
  <2>8. after \in [0..(k + 1) -> Vals]  BY <2>4, <2>6, <2>7
  <2>9. ASSUME NEW n \in 0..(k + 1)
        PROVE  after[n] = IF n = 0 THEN change ELSE Step(after[n - 1], n)
    <3>1. \A m \in 0..k : before[m] = IF m = 0 THEN change ELSE Step(before[m - 1], m)
      BY <2>3 DEF Loops
    <3>. HIDE DEF Step
    <3>2. CASE n = k + 1  BY <2>5, <2>7, <3>2
    <3>3. CASE n # k + 1  BY <2>7, <3>1, <3>3
    <3>. QED  BY <3>2, <3>3
  <2>10. Loops(after, Vals, way, change, S, r, k + 1)  BY <2>8, <2>9 DEF Loops
  <2>. QED  BY <2>10
<1>. HIDE DEF Done
<1>4. Nat \subseteq Done  BY <1>2, <1>3, AllNumbers
<1>. QED  BY <1>4, AuthorityFileConstants DEF Done

\* A loop over names stays among the changes that each of its steps stays among.
LEMMA LoopStays ==
  ASSUME NEW way, NEW S, NEW r, NEW Vals, NEW change \in Vals,
         \A c \in Vals, n \in S : Tied(way, c, n, r) \in Vals
  PROVE  TiedInTurn(way, change, S, r) \in Vals
<1>. DEFINE Step(c, n) == IF n \in S THEN Tied(way, c, n, r) ELSE c
            loop == CHOOSE after : after = [n \in 0..LastName |->
                      IF n = 0 THEN change ELSE IF n \in S THEN Tied(way, after[n - 1], n, r) ELSE after[n - 1]]
<1>1. PICK after : Loops(after, Vals, way, change, S, r, LastName)  BY LoopEnds
<1>2. after = [n \in 0..LastName |->
                 IF n = 0 THEN change ELSE IF n \in S THEN Tied(way, after[n - 1], n, r) ELSE after[n - 1]]
  BY <1>1 DEF Loops
<1>3. loop = [n \in 0..LastName |->
                IF n = 0 THEN change ELSE IF n \in S THEN Tied(way, loop[n - 1], n, r) ELSE loop[n - 1]]
  BY <1>2
<1>4. TiedInTurn(way, change, S, r) = loop[LastName]  BY DEF TiedInTurn
<1>. HIDE DEF loop
<1>5. LastName \in Nat  BY AuthorityFileConstants
<1>6. \A n \in 0..LastName : loop[n] = IF n = 0 THEN change ELSE Step(loop[n - 1], n)
  BY <1>3
<1>7. \A c \in Vals, n \in Nat : Step(c, n) \in Vals  OBVIOUS
<1>. DEFINE Done == {k \in Nat : k <= LastName => loop[k] \in Vals}
<1>8. 0 \in Done  BY <1>5, <1>6
<1>9. ASSUME NEW k \in Nat, k \in Done
      PROVE  k + 1 \in Done
  <2>1. SUFFICES ASSUME k + 1 <= LastName
                 PROVE  loop[k + 1] \in Vals
    OBVIOUS
  <2>2. loop[k] \in Vals  BY <1>5, <1>9, <2>1
  <2>. HIDE DEF Step
  <2>3. loop[k + 1] = Step(loop[k], k + 1)  BY <1>5, <1>6, <2>1
  <2>. QED  BY <1>7, <2>2, <2>3
<1>. HIDE DEF Done
<1>10. Nat \subseteq Done  BY <1>8, <1>9, AllNumbers
<1>. QED  BY <1>4, <1>5, <1>10 DEF Done

LEMMA ClaimLoopStays ==
  ASSUME NEW Good, Closed(Good), NEW S \in SUBSET Names, NEW r \in S,
         NEW c \in TyingIn(Good, r, S), NEW T, T \subseteq S, T \subseteq c.file.known
  PROVE  TiedInTurn("claim", c, T, r) \in TyingIn(Good, r, S)
<1>. DEFINE Vals == {d \in TyingIn(Good, r, S) : T \subseteq d.file.known}
<1>1. c \in Vals  OBVIOUS
<1>2. ASSUME NEW d \in Vals, NEW n \in T
      PROVE  Tied("claim", d, n, r) \in Vals
  <2>1. d \in TyingIn(Good, r, S) /\ n \in S /\ n \in d.file.known /\ T \subseteq d.file.known
    BY <1>2
  <2>2. /\ Claimed(d, n, r) \in TyingIn(Good, r, S)
        /\ Claimed(d, n, r).file.known = d.file.known
    BY ONLY <2>1, ClaimedStays, Closed(Good), S \in SUBSET Names, r \in S
  <2>3. Tied("claim", d, n, r) = Claimed(d, n, r)  BY DEF Tied
  <2>. QED  BY <2>1, <2>2, <2>3
<1>. HIDE DEF Vals
<1>3. TiedInTurn("claim", c, T, r) \in Vals  BY <1>1, <1>2, LoopStays
<1>. QED  BY <1>3 DEF Vals

LEMMA ImportLoopStays ==
  ASSUME NEW Good, Closed(Good), NEW S \in SUBSET Names, NEW r \in S,
         NEW c \in TyingIn(Good, r, S), NEW T, T \subseteq S
  PROVE  /\ TiedInTurn("import", c, T, r) \in TyingIn(Good, r, S)
         /\ TiedInTurn("import", c, T, r).file.known \subseteq c.file.known \cup T
<1>. DEFINE Vals == {d \in TyingIn(Good, r, S) : d.file.known \subseteq c.file.known \cup T}
<1>1. c \in Vals  OBVIOUS
<1>2. ASSUME NEW d \in Vals, NEW n \in T
      PROVE  Tied("import", d, n, r) \in Vals
  <2>1. d \in TyingIn(Good, r, S) /\ n \in S /\ d.file.known \subseteq c.file.known \cup T
    BY <1>2
  <2>2. Imported(d, n, r) \in TyingIn(Good, r, S)  BY <2>1, ImportedStays
  <2>3. Imported(d, n, r).file.known \subseteq c.file.known \cup T
    <3>1. d \in Changes  BY <2>1 DEF TyingIn, Closed
    <3>2. PICK K : K = c.file.known \cup T  OBVIOUS
    <3>3. d.file.known \subseteq K /\ n \in K /\ n \in Names  BY <1>2, <2>1, <3>2
    <3>4. Imported(d, n, r).file.known \subseteq K  BY ONLY <3>1, <3>3, ImportedKnows
    <3>. QED  BY <3>2, <3>4
  <2>4. Tied("import", d, n, r) = IF d.file.authority[n] = r THEN d ELSE Imported(d, n, r)
    BY DEF Tied
  <2>. QED  BY <1>2, <2>1, <2>2, <2>3, <2>4
<1>. HIDE DEF Vals
<1>3. TiedInTurn("import", c, T, r) \in Vals  BY <1>1, <1>2, LoopStays
<1>. QED  BY <1>3 DEF Vals

LEMMA ItemLoopStays ==
  ASSUME NEW Good, NEW Almost, NEW S \in SUBSET Names, NEW r \in S,
         ClosedBetween(Good, Almost, r), NEW c \in TyingIn(Almost, r, S), NEW T, T \subseteq S
  PROVE  /\ TiedInTurn("item", c, T, r) \in TyingIn(Almost, r, S)
         /\ TiedInTurn("item", c, T, r).runs = c.runs
         /\ TiedInTurn("item", c, T, r).silent = c.silent
<1>. DEFINE Vals == {d \in TyingIn(Almost, r, S) : d.runs = c.runs /\ d.silent = c.silent}
<1>1. c \in Vals  OBVIOUS
<1>2. ASSUME NEW d \in Vals, NEW n \in T
      PROVE  Tied("item", d, n, r) \in Vals
  <2>1. d \in TyingIn(Almost, r, S) /\ n \in S /\ d.runs = c.runs /\ d.silent = c.silent
    BY <1>2
  <2>2. /\ Named(d, n, r) \in TyingIn(Almost, r, S)
        /\ Named(d, n, r).runs = d.runs /\ Named(d, n, r).silent = d.silent
    BY ONLY <2>1, NamedStays, ClosedBetween(Good, Almost, r), S \in SUBSET Names, r \in S
  <2>3. Tied("item", d, n, r) = Named(d, n, r)  BY DEF Tied
  <2>. QED  BY <2>1, <2>2, <2>3
<1>. HIDE DEF Vals
<1>3. TiedInTurn("item", c, T, r) \in Vals  BY <1>1, <1>2, LoopStays
<1>. QED  BY <1>3 DEF Vals

\* claim_name: the names of the text are merged, and the claim is the root's.
LEMMA ClaimStays ==
  ASSUME NEW Good, Closed(Good), NEW r \in Names, NEW text \in Texts, NEW S \in SUBSET Names, r \in S,
         NEW c \in TyingIn(Good, r, S), \A n \in c.file.known : Spelling[n] = text => n \in S
  PROVE  Claim(c, r, text) \in Good
<1>. DEFINE others == {n \in c.file.known \ {r} : Spelling[n] = text /\ c.file.authority[n] # r}
<1>1. others \subseteq S /\ others \subseteq c.file.known  OBVIOUS
<1>2. Claim(c, r, text) = [TiedInTurn("claim", c, others, r) EXCEPT !.file.claim[text] = r]
  BY DEF Claim
<1>. HIDE DEF others
<1>3. PICK m \in TyingIn(Good, r, S) : m = TiedInTurn("claim", c, others, r)  BY <1>1, ClaimLoopStays
<1>4. m \in Good /\ m \in Changes /\ Sound(m.file) /\ RootIn(m.file, r)  BY DEF TyingIn, Closed
<1>5. PICK f : f = m.file  OBVIOUS
<1>6. f \in Files /\ Sound(f) /\ RootIn(f, r)  BY <1>4, <1>5 DEF Sound
<1>7. PICK g : g = [f EXCEPT !.claim[text] = r]  OBVIOUS
<1>8. /\ g \in Files /\ g.known = f.known /\ g.authority = f.authority /\ SameMarks(f, g)
      /\ g.links = f.links /\ g.qid = f.qid
      /\ g.claim = [f.claim EXCEPT ![text] = r] /\ f.claim \in [Texts -> Names \cup {NoName}]
  BY <1>6, <1>7 DEF Files, SameMarks
<1>9. \A n : RootIn(f, n) => RootIn(g, n)  BY <1>8 DEF RootIn
<1>10. \A t \in Texts : g.claim[t] # NoName => RootIn(g, g.claim[t])
  BY <1>6, <1>8, <1>9 DEF Sound
<1>11. Sound(g)  BY <1>6, <1>8, <1>9, <1>10 DEF Sound, SameMarks
<1>12. PICK d : d = [m EXCEPT !.file = g]  OBVIOUS
<1>13. d \in Changes /\ d.file = g /\ d.runs = m.runs /\ d.silent = m.silent
  BY <1>4, <1>8, <1>12 DEF Changes
<1>14. Aside(m, d)  BY <1>5, <1>8, <1>13 DEF Aside
<1>15. d \in Good  BY <1>4, <1>11, <1>13, <1>14 DEF Closed
<1>16. Claim(c, r, text) = d  BY <1>2, <1>3, <1>4, <1>5, <1>7, <1>12 DEF Changes
<1>. QED  BY <1>15, <1>16

-----------------------------------------------------------------------------
(* Each request. *)

LEMMA HereIsGood ==
  ASSUME NEW Good, Closed(Good), Here \in Good
  PROVE  /\ Here \in Changes /\ Here.file = file /\ Here.runs = runs /\ Here.silent = silent
         /\ Sound(file) /\ file \in Files /\ runs \in Seq(Runs) /\ silent \in SUBSET Names
<1>1. Here \in Changes /\ Sound(Here.file)  BY DEF Closed
<1>2. Here.file = file /\ Here.runs = runs /\ Here.silent = silent  BY DEF Here, Change
<1>. QED  BY <1>1, <1>2 DEF Changes

\* The change that a request has written is a member, when the file and the runs are one's.
LEMMA NextIsGood ==
  ASSUME NEW Good, NEW d \in Changes, d \in Good, file' = d.file, runs' = d.runs, silent' = d.silent
  PROVE  Here' \in Good
BY HereNext

LEMMA AsideStays ==
  ASSUME NEW Good, Closed(Good), Here \in Good,
         NEW g, Sound(g), g.authority = file.authority, file.known \subseteq g.known, SameMarks(file, g),
         file' = g, runs' = runs, silent' = silent
  PROVE  Here' \in Good
<1>1. PICK c \in Good : c = Here  OBVIOUS
<1>2. c \in Changes /\ c.file = file /\ c.runs = runs /\ c.silent = silent  BY <1>1, HereIsGood
<1>3. PICK d : d = [file |-> g, runs |-> c.runs, silent |-> c.silent]  OBVIOUS
<1>4. d \in Changes /\ d.file = g /\ d.runs = c.runs /\ d.silent = c.silent
  BY <1>2, <1>3, ChangeOf DEF Changes, Sound
<1>5. Aside(c, d)  BY <1>2, <1>4 DEF Aside
<1>6. d \in Good  BY <1>4, <1>5 DEF Closed
<1>. QED  BY <1>2, <1>4, <1>6, NextIsGood

LEMMA MarkingStays ==
  ASSUME NEW Good, Closed(Good), Here \in Good, NEW n \in Names,
         NEW g, Sound(g), RootIn(g, n), g.authority = file.authority, g.known = file.known \cup {n},
         g.typed \ {n} = file.typed \ {n}, g.hidden \ {n} = file.hidden \ {n},
         g.renamed \ {n} = file.renamed \ {n},
         file' = g, runs' = Append(runs, NewRun("reindex", n, n)), silent' = silent
  PROVE  Here' \in Good
<1>1. PICK c \in Good : c = Here  OBVIOUS
<1>2. c \in Changes /\ c.file = file /\ c.runs = runs /\ c.silent = silent  BY <1>1, HereIsGood
<1>3. PICK run \in Runs : run = NewRun("reindex", n, n)  BY NewRunIsOne
<1>4. PICK next \in Seq(Runs) : next = Append(c.runs, run)  BY <1>2, OneMore
<1>5. PICK d : d = [file |-> g, runs |-> next, silent |-> c.silent]  OBVIOUS
<1>6. d \in Changes /\ d.file = g /\ d.runs = next /\ d.silent = c.silent
  BY <1>2, <1>5, ChangeOf DEF Changes, Sound
<1>7. Marking(c, d, n)  BY <1>2, <1>3, <1>4, <1>6 DEF Marking
<1>8. d \in Good  BY <1>6, <1>7 DEF Closed
<1>. QED  BY <1>2, <1>3, <1>4, <1>6, <1>8, NextIsGood

LEMMA MarkStays ==
  ASSUME NEW Good, Closed(Good), Here \in Good, NEW n \in Names, Mark(n)
  PROVE  Here' \in Good
<1>1. PICK f \in Files : f = file  BY HereIsGood
<1>2. Sound(f)  BY <1>1, HereIsGood
<1>3. \A S \in SUBSET Names : Flipped(S, n) \in SUBSET Names /\ Flipped(S, n) \ {n} = S \ {n}
  BY DEF Flipped
<1>4. ASSUME Rename(n) \/ SetType(n) \/ SetHidden(n)
      PROVE  /\ RootIn(f, n) /\ f.known = f.known \cup {n}
             /\ runs' = Append(runs, NewRun("reindex", n, n)) /\ silent' = silent
  <2>1. n \in f.known /\ f.authority[n] = NoName
    BY <1>1, <1>4 DEF Rename, SetType, SetHidden, ChangesRoot, IsRoot
  <2>. QED  BY <1>4, <2>1 DEF Rename, SetType, SetHidden, ChangesRoot, Started, RootIn
<1>5. CASE Rename(n)
  <2>1. PICK g : g = [f EXCEPT !.renamed = Flipped(@, n)]  OBVIOUS
  <2>2. /\ g \in Files /\ g.known = f.known /\ g.authority = f.authority /\ g.links = f.links
        /\ g.qid = f.qid /\ g.claim = f.claim /\ g.typed = f.typed /\ g.hidden = f.hidden
        /\ g.renamed \ {n} = f.renamed \ {n}
    BY <1>1, <1>3, <2>1 DEF Files
  <2>3. Sound(g) /\ RootIn(g, n)  BY <1>2, <1>4, <1>5, <2>2, SameRootsIsSound DEF Sound, RootIn
  <2>4. file' = g  BY <1>1, <1>5, <2>1 DEF Rename, ChangesRoot
  <2>. QED  BY <1>1, <1>4, <1>5, <2>2, <2>3, <2>4, MarkingStays
<1>6. CASE SetType(n)
  <2>1. PICK g : g = [f EXCEPT !.typed = Flipped(@, n)]  OBVIOUS
  <2>2. /\ g \in Files /\ g.known = f.known /\ g.authority = f.authority /\ g.links = f.links
        /\ g.qid = f.qid /\ g.claim = f.claim /\ g.renamed = f.renamed /\ g.hidden = f.hidden
        /\ g.typed \ {n} = f.typed \ {n}
    BY <1>1, <1>3, <2>1 DEF Files
  <2>3. \A m \in g.typed \cup g.hidden : RootIn(f, m)  BY <1>2, <1>4, <1>6, <2>2 DEF Sound
  <2>4. Sound(g)  BY ONLY <1>2, <2>2, <2>3, SameRootsIsSound
  <2>5. RootIn(g, n)  BY <1>4, <1>6, <2>2 DEF RootIn
  <2>6. file' = g  BY <1>1, <1>6, <2>1 DEF SetType, ChangesRoot
  <2>. QED  BY <1>1, <1>4, <1>6, <2>2, <2>4, <2>5, <2>6, MarkingStays
<1>7. CASE SetHidden(n)
  <2>1. PICK g : g = [f EXCEPT !.hidden = Flipped(@, n)]  OBVIOUS
  <2>2. /\ g \in Files /\ g.known = f.known /\ g.authority = f.authority /\ g.links = f.links
        /\ g.qid = f.qid /\ g.claim = f.claim /\ g.renamed = f.renamed /\ g.typed = f.typed
        /\ g.hidden \ {n} = f.hidden \ {n}
    BY <1>1, <1>3, <2>1 DEF Files
  <2>3. \A m \in g.typed \cup g.hidden : RootIn(f, m)  BY <1>2, <1>4, <1>7, <2>2 DEF Sound
  <2>4. Sound(g)  BY ONLY <1>2, <2>2, <2>3, SameRootsIsSound
  <2>5. RootIn(g, n)  BY <1>4, <1>7, <2>2 DEF RootIn
  <2>6. file' = g  BY <1>1, <1>7, <2>1 DEF SetHidden, ChangesRoot
  <2>. QED  BY <1>1, <1>4, <1>7, <2>2, <2>4, <2>5, <2>6, MarkingStays
<1>8. ASSUME NEW g \in Files, g.known = f.known, g.authority = f.authority, g.links = f.links,
             g.qid = f.qid, g.claim = f.claim, SameMarks(f, g), file' = g, runs' = runs, silent' = silent
      PROVE  Here' \in Good
  <2>1. Sound(g)  BY <1>2, <1>8, SameRootsIsSound DEF SameMarks, Sound
  <2>. QED  BY <1>1, <1>8, <2>1, AsideStays
<1>9. CASE SetStatus(n)
  <2>1. PICK g : g = [f EXCEPT !.established = Flipped(@, n)]  OBVIOUS
  <2>2. /\ g \in Files /\ g.known = f.known /\ g.authority = f.authority /\ g.links = f.links
        /\ g.qid = f.qid /\ g.claim = f.claim /\ SameMarks(f, g)
    BY <1>1, <1>3, <2>1 DEF Files, SameMarks
  <2>. QED  BY <1>1, <1>8, <1>9, <2>1, <2>2 DEF SetStatus, ChangesRoot
<1>10. CASE SetAmbiguous(n)
  <2>1. PICK g : g = [f EXCEPT !.ambiguous = Flipped(@, n)]  OBVIOUS
  <2>2. /\ g \in Files /\ g.known = f.known /\ g.authority = f.authority /\ g.links = f.links
        /\ g.qid = f.qid /\ g.claim = f.claim /\ SameMarks(f, g)
    BY <1>1, <1>3, <2>1 DEF Files, SameMarks
  <2>. QED  BY <1>1, <1>8, <1>10, <2>1, <2>2 DEF SetAmbiguous
<1>. QED  BY <1>5, <1>6, <1>7, <1>9, <1>10 DEF Mark

LEMMA MergingStays ==
  ASSUME NEW Good, Closed(Good), NEW c \in Good, NEW v \in Names, NEW r \in Names,
         RootIn(c.file, v), RootIn(c.file, r), v # r, NEW S, v \in S, r \in S, MayTie(c.runs, S)
  PROVE  \E d \in Good : /\ d \in Changes /\ d.file = Joined(c.file, v, r)
                         /\ d.runs = Append(c.runs, NewRun("merge", v, r)) /\ d.silent = c.silent
<1>1. c \in Changes /\ Sound(c.file)  BY DEF Closed
<1>2. PICK g : g = Joined(c.file, v, r)  OBVIOUS
<1>3. Sound(g)  BY <1>1, <1>2, JoinedIsSound
<1>4. PICK run \in Runs : run = NewRun("merge", v, r)  BY NewRunIsOne
<1>5. PICK next \in Seq(Runs) : next = Append(c.runs, run)  BY <1>1, OneMore
<1>6. PICK d : d = [file |-> g, runs |-> next, silent |-> c.silent]  OBVIOUS
<1>7. d \in Changes /\ d.file = g /\ d.runs = next /\ d.silent = c.silent
  BY <1>1, <1>3, <1>6, ChangeOf DEF Changes, Sound
<1>8. Merging(c, d, v, r)
  <2>1. MayTie(c.runs, {v, r})  BY MayTieLess
  <2>. QED  BY <1>2, <1>4, <1>5, <1>7, <2>1 DEF Merging
<1>9. d \in Good  BY <1>3, <1>7, <1>8 DEF Closed
<1>. QED  BY <1>2, <1>4, <1>5, <1>7, <1>9

LEMMA CommitMergeStays ==
  ASSUME NEW Good, Closed(Good), Here \in Good, FileIsSound, NEW tx \in merging,
         MayTie(runs, {tx.variant, tx.root}), CommitMerge(tx)
  PROVE  Here' \in Good
<1>1. PICK v \in Names, r \in Names : v = tx.variant /\ r = tx.root
  BY DEF FileIsSound, FileTypes
<1>2. v # r /\ RootIn(file, v) /\ RootIn(file, r)  BY <1>1 DEF FileIsSound, MergeIsSound
<1>3. PICK c \in Good : c = Here  OBVIOUS
<1>4. c.file = file /\ c.runs = runs /\ c.silent = silent  BY <1>3, HereIsGood
<1>5. PICK S : S = {v, r} /\ v \in S /\ r \in S /\ MayTie(c.runs, S)  BY <1>1, <1>4
<1>6. PICK d \in Good : /\ d \in Changes /\ d.file = Joined(c.file, v, r)
                        /\ d.runs = Append(c.runs, NewRun("merge", v, r)) /\ d.silent = c.silent
  BY <1>2, <1>4, <1>5, MergingStays
<1>7. file' = d.file /\ runs' = d.runs /\ silent' = d.silent
  BY <1>1, <1>4, <1>6 DEF CommitMerge, Started
<1>. QED  BY <1>6, <1>7, NextIsGood

LEMMA BulkMergeStays ==
  ASSUME NEW Good, Closed(Good), Here \in Good,
         NEW v \in Names, NEW w \in Names, NEW target \in Names, BulkMerge(v, w, target)
  PROVE  Here' \in Good
<1>1. PICK c \in Good : c = Here  OBVIOUS
<1>2. c.file = file /\ c.runs = runs /\ c.silent = silent /\ Sound(c.file) /\ c.runs \in Seq(Runs)
  BY <1>1, HereIsGood
<1>3. PICK r : r = RootOf(c.file, target)  OBVIOUS
<1>4. /\ v \in c.file.known /\ w \in c.file.known /\ target \in c.file.known
      /\ Settled({v, w, r}) /\ ~MergeProblem(c.file, v, r)
      /\ ~MergeProblem(Joined(c.file, v, r), w, r)
      /\ file' = Joined(Joined(c.file, v, r), w, r) /\ silent' = c.silent
      /\ runs' = c.runs \o <<NewRun("merge", v, r), NewRun("merge", w, r)>>
  BY <1>2, <1>3 DEF BulkMerge
<1>5. r \in Names /\ RootIn(c.file, r)  BY <1>2, <1>3, <1>4, RootOfIsRoot
<1>6. v # r /\ RootIn(c.file, v)  BY <1>4, NoProblem DEF RootIn
<1>7. PICK S : S = {v, w, r} /\ v \in S /\ w \in S /\ r \in S /\ MayTie(c.runs, S)
  BY <1>2, <1>4, MayTieHere
<1>8. PICK first \in Good : /\ first \in Changes /\ first.file = Joined(c.file, v, r)
                            /\ first.runs = Append(c.runs, NewRun("merge", v, r))
                            /\ first.silent = c.silent
  BY <1>5, <1>6, <1>7, MergingStays
<1>9. Sound(first.file) /\ first.file.known = c.file.known /\ RootIn(first.file, r)
  BY <1>2, <1>5, <1>6, <1>8, JoinedIsSound DEF RootIn
<1>10. w # r /\ RootIn(first.file, w)  BY <1>4, <1>8, <1>9, NoProblem DEF RootIn
<1>11. MayTie(first.runs, S)  BY <1>2, <1>5, <1>7, <1>8, SplitNamesStay
<1>12. PICK d \in Good : /\ d \in Changes /\ d.file = Joined(first.file, w, r)
                         /\ d.runs = Append(first.runs, NewRun("merge", w, r)) /\ d.silent = first.silent
  BY <1>5, <1>7, <1>9, <1>10, <1>11, MergingStays
<1>13. PICK one \in Runs, two \in Runs : one = NewRun("merge", v, r) /\ two = NewRun("merge", w, r)
  BY <1>5, NewRunIsOne
<1>14. d.runs = c.runs \o <<one, two>>
  <2>1. d.runs = Append(Append(c.runs, one), two)  BY <1>8, <1>12, <1>13
  <2>. QED  BY <1>2, <2>1
<1>15. file' = d.file /\ runs' = d.runs /\ silent' = d.silent
  BY <1>4, <1>8, <1>12, <1>13, <1>14
<1>. QED  BY <1>12, <1>15, NextIsGood

LEMMA ClaimNameStays ==
  ASSUME NEW Good, Closed(Good), Here \in Good, NEW r \in Names, NEW text \in Texts, ClaimName(r, text)
  PROVE  Here' \in Good
<1>1. PICK c \in Good : c = Here  OBVIOUS
<1>2. c.file = file /\ c.runs = runs /\ c.file \in Files  BY <1>1, HereIsGood
<1>3. PICK S : S = {n \in c.file.known : Spelling[n] = text} \cup {r}  OBVIOUS
<1>4. S \in SUBSET Names /\ r \in S /\ \A n \in c.file.known : Spelling[n] = text => n \in S
  BY <1>2, <1>3 DEF Files
<1>5. RootIn(c.file, r) /\ Settled(S) /\ Commits(Claim(c, r, text))
  BY <1>1, <1>2, <1>3 DEF ClaimName, IsRoot, RootIn, Here
<1>6. MayTie(c.runs, S)  BY <1>2, <1>5, MayTieHere
<1>7. c \in TyingIn(Good, r, S)  BY <1>5, <1>6 DEF TyingIn
<1>8. PICK d \in Good : d = Claim(c, r, text)  BY <1>4, <1>7, ClaimStays
<1>9. d \in Changes  BY <1>8 DEF Closed
<1>. QED  BY <1>5, <1>8, <1>9, CommitsHere

\* A change that only touches what is aside.
LEMMA CommitsAside ==
  ASSUME NEW Good, Closed(Good), Here \in Good,
         NEW g, Sound(g), g.authority = file.authority, g.known = file.known, SameMarks(file, g),
         Commits(Change(g))
  PROVE  Here' \in Good
<1>1. file' = g /\ runs' = runs /\ silent' = silent  BY DEF Commits, Change
<1>. QED  BY <1>1, AsideStays

LEMMA ReleaseNameStays ==
  ASSUME NEW Good, Closed(Good), Here \in Good, NEW r \in Names, NEW text \in Texts, ReleaseName(r, text)
  PROVE  Here' \in Good
<1>1. PICK f \in Files : f = file  BY HereIsGood
<1>2. Sound(f)  BY <1>1, HereIsGood
<1>3. PICK g : g = [f EXCEPT !.claim[text] = NoName]  OBVIOUS
<1>4. /\ g \in Files /\ g.known = f.known /\ g.authority = f.authority /\ SameMarks(f, g)
      /\ g.links = f.links /\ g.qid = f.qid
      /\ g.claim = [f.claim EXCEPT ![text] = NoName] /\ f.claim \in [Texts -> Names \cup {NoName}]
  BY <1>1, <1>3 DEF Files, SameMarks
<1>5. \A n : RootIn(f, n) => RootIn(g, n)  BY <1>4 DEF RootIn
<1>6. \A t \in Texts : g.claim[t] # NoName => RootIn(g, g.claim[t])  BY <1>2, <1>4, <1>5 DEF Sound
<1>7. Sound(g)  BY <1>2, <1>4, <1>5, <1>6 DEF Sound, SameMarks
<1>8. Commits(Change(g))  BY <1>1, <1>3 DEF ReleaseName
<1>. QED  BY <1>1, <1>4, <1>7, <1>8, CommitsAside

LEMMA UnlinkItemStays ==
  ASSUME NEW Good, Closed(Good), Here \in Good, NEW n \in Names, UnlinkItem(n)
  PROVE  Here' \in Good
<1>1. PICK f \in Files : f = file  BY HereIsGood
<1>2. Sound(f)  BY <1>1, HereIsGood
<1>3. PICK r : r = RootOf(f, n)  OBVIOUS
<1>4. r \in Names /\ RootIn(f, r)  BY <1>1, <1>2, <1>3, RootOfIsRoot DEF UnlinkItem
<1>5. PICK g : g = [f EXCEPT !.qid[r] = NoQid]  OBVIOUS
<1>6. Sound(g) /\ g.known = f.known /\ g.authority = f.authority /\ SameMarks(f, g)
  BY <1>1, <1>2, <1>4, <1>5, ItemIsSound DEF Files, SameMarks
<1>7. Commits(Change(g))  BY <1>1, <1>3, <1>5 DEF UnlinkItem
<1>. QED  BY <1>1, <1>6, <1>7, CommitsAside

LEMMA DistinctStays ==
  ASSUME NEW Good, Closed(Good), Here \in Good, NEW a \in Names, NEW b \in Names,
         AddDistinct(a, b) \/ RemoveDistinct(a, b)
  PROVE  Here' \in Good
<1>1. PICK f \in Files : f = file  BY HereIsGood
<1>2. Sound(f)  BY <1>1, HereIsGood
<1>3. ASSUME NEW pairs \in SUBSET SUBSET Names, NEW g, g = [f EXCEPT !.distinct = pairs],
             Commits(Change(g))
      PROVE  Here' \in Good
  <2>1. /\ g \in Files /\ g.known = f.known /\ g.authority = f.authority /\ g.links = f.links
        /\ g.qid = f.qid /\ g.claim = f.claim /\ SameMarks(f, g)
    BY <1>1, <1>3 DEF Files, SameMarks
  <2>2. Sound(g)  BY <1>2, <2>1, SameRootsIsSound DEF Sound, SameMarks
  <2>. QED  BY <1>1, <1>3, <2>1, <2>2, CommitsAside
<1>4. f.distinct \in SUBSET SUBSET Names  BY <1>1 DEF Files
<1>5. PICK pair : pair = {RootOf(f, a), RootOf(f, b)}  OBVIOUS
<1>6. CASE AddDistinct(a, b)
  <2>1. a \in f.known /\ b \in f.known  BY <1>1, <1>6 DEF AddDistinct
  <2>2. pair \in SUBSET Names  BY <1>2, <1>5, <2>1, RootOfIsRoot
  <2>3. PICK pairs \in SUBSET SUBSET Names : pairs = f.distinct \cup {pair}  BY <1>4, <2>2
  <2>4. Commits(Change([f EXCEPT !.distinct = pairs]))
    BY <1>1, <1>5, <1>6, <2>3 DEF AddDistinct
  <2>. QED  BY <1>3, <2>4
<1>7. CASE RemoveDistinct(a, b)
  <2>1. PICK pairs \in SUBSET SUBSET Names : pairs = f.distinct \ {pair}  BY <1>4
  <2>2. Commits(Change([f EXCEPT !.distinct = pairs]))
    BY <1>1, <1>5, <1>7, <2>1 DEF RemoveDistinct
  <2>. QED  BY <1>3, <2>2
<1>. QED  BY <1>6, <1>7

\* Links between roots.
LEMMA LinksStay ==
  ASSUME NEW Good, Closed(Good), Here \in Good,
         NEW f, f = file, NEW links, \A l \in links : l \in Links /\ RootIn(f, l.subject) /\ RootIn(f, l.object),
         Commits(Change([f EXCEPT !.links = links]))
  PROVE  Here' \in Good
<1>1. Sound(f) /\ f \in Files  BY HereIsGood
<1>2. links \in SUBSET Links  OBVIOUS
<1>3. PICK g : g = [f EXCEPT !.links = links]  OBVIOUS
<1>4. /\ g \in Files /\ g.known = f.known /\ g.authority = f.authority /\ g.links = links
      /\ g.qid = f.qid /\ g.claim = f.claim /\ SameMarks(f, g)
  BY <1>1, <1>2, <1>3 DEF Files, SameMarks
<1>5. \A n : RootIn(f, n) => RootIn(g, n)  BY <1>4 DEF RootIn
<1>6. Sound(g)  BY <1>1, <1>4, <1>5 DEF Sound, SameMarks
<1>. QED  BY <1>3, <1>4, <1>6, CommitsAside

LEMMA AddRelationStays ==
  ASSUME NEW Good, Closed(Good), Here \in Good, NEW a \in Names, NEW b \in Names, NEW kind \in Kinds,
         AddRelation(a, kind, b)
  PROVE  Here' \in Good
<1>1. PICK f : f = file  OBVIOUS
<1>2. PICK s, o : s = RootOf(f, a) /\ o = RootOf(f, b)  OBVIOUS
<1>3. PICK between : between = [subject |-> s, kind |-> kind, object |-> o]  OBVIOUS
<1>4. PICK link : link = Oriented(between)  OBVIOUS
<1>5. a \in f.known /\ b \in f.known /\ Commits(Change([f EXCEPT !.links = @ \cup {link}]))
  BY <1>1, <1>2, <1>3, <1>4 DEF AddRelation
<1>6. Sound(f)  BY <1>1, HereIsGood
<1>7. s \in Names /\ o \in Names /\ RootIn(f, s) /\ RootIn(f, o)  BY <1>2, <1>5, <1>6, RootOfIsRoot
<1>8. between \in Links /\ between.subject = s /\ between.object = o  BY <1>3, <1>7 DEF Links
<1>9. link \in Links /\ RootIn(f, link.subject) /\ RootIn(f, link.object)
  BY <1>4, <1>7, <1>8 DEF Oriented, Links
<1>10. PICK links : links = f.links \cup {link}  OBVIOUS
<1>11. \A l \in links : l \in Links /\ RootIn(f, l.subject) /\ RootIn(f, l.object)
  BY <1>6, <1>9, <1>10 DEF Sound, Files
<1>12. Commits(Change([f EXCEPT !.links = links]))  BY <1>5, <1>10
<1>. QED  BY <1>1, <1>11, <1>12, LinksStay

LEMMA RemoveRelationStays ==
  ASSUME NEW Good, Closed(Good), Here \in Good, NEW link \in file.links, RemoveRelation(link)
  PROVE  Here' \in Good
<1>1. PICK f : f = file  OBVIOUS
<1>2. PICK links : links = f.links \ {link}  OBVIOUS
<1>3. \A l \in links : l \in Links /\ RootIn(f, l.subject) /\ RootIn(f, l.object)
  BY <1>1, <1>2, HereIsGood DEF Sound, Files
<1>4. Commits(Change([f EXCEPT !.links = links]))  BY <1>1, <1>2 DEF RemoveRelation
<1>. QED  BY <1>1, <1>3, <1>4, LinksStay

LEMMA ImportStays ==
  ASSUME NEW Good, Closed(Good), Here \in Good,
         NEW r \in Names, NEW v \in Names, NEW renamed \in BOOLEAN, NEW claims \in BOOLEAN,
         Import(r, renamed, {v}, claims)
  PROVE  Here' \in Good
<1>1. PICK c \in Good : c = Here  OBVIOUS
<1>2. /\ c \in Changes /\ c.file = file /\ c.runs = runs /\ c.silent = silent
      /\ Sound(c.file) /\ c.file \in Files /\ c.runs \in Seq(Runs)
  BY <1>1, HereIsGood
<1>3. PICK text \in Texts : text = Spelling[r]  BY DEF Texts
<1>4. PICK spelled : spelled = {n \in c.file.known : claims /\ Spelling[n] = text}  OBVIOUS
<1>5. PICK S : S = {v} \cup spelled \cup {r}  OBVIOUS
<1>6. S \in SUBSET Names /\ r \in S /\ v \in S  BY <1>2, <1>4, <1>5 DEF Files
<1>7. c.file.authority[r] = NoName /\ Settled(S)
  BY <1>2, <1>3, <1>4, <1>5 DEF Import
<1>8. MayTie(c.runs, S)  BY <1>2, <1>7, MayTieHere
<1>9. PICK f : f = Created(c.file, r)  OBVIOUS
<1>10. Sound(f) /\ f \in Files /\ RootIn(f, r) /\ f.known = c.file.known \cup {r}
       /\ f.authority = c.file.authority /\ SameMarks(c.file, f)
  <2>1. Sound(f) /\ f.known = c.file.known \cup {r} /\ f.authority = c.file.authority
    BY <1>2, <1>9, CreatedIsSound
  <2>2. SameMarks(c.file, f)  BY <1>2, <1>9 DEF Created, SameMarks, Files
  <2>. QED  BY <1>7, <2>1, <2>2 DEF RootIn, Sound
<1>11. PICK preferred : preferred = IF renamed THEN f.renamed \cup {r} ELSE f.renamed \ {r}  OBVIOUS
<1>12. PICK g : g = [f EXCEPT !.renamed = preferred]  OBVIOUS
<1>13. /\ g \in Files /\ g.known = f.known /\ g.authority = f.authority /\ g.links = f.links
       /\ g.qid = f.qid /\ g.claim = f.claim /\ g.typed = f.typed /\ g.hidden = f.hidden
       /\ g.renamed = preferred
  BY <1>10, <1>11, <1>12 DEF Files
<1>14. Sound(g) /\ RootIn(g, r)  BY <1>10, <1>13, SameRootsIsSound DEF Sound, RootIn
<1>15. PICK marks : marks = (r \in c.file.known /\ (r \in c.file.renamed) # renamed)  OBVIOUS
<1>16. PICK run \in Runs : run = NewRun("reindex", r, r)  BY NewRunIsOne
<1>17. PICK more \in Seq(Runs) : more = Append(c.runs, run)  BY <1>2, OneMore
<1>18. PICK next : next = IF marks THEN more ELSE c.runs  OBVIOUS
<1>19. PICK base : base = [file |-> f, runs |-> c.runs, silent |-> c.silent]  OBVIOUS
<1>base. base \in Changes /\ base.file = f /\ base.runs = c.runs /\ base.silent = c.silent
  BY <1>2, <1>10, <1>19, ChangeOf DEF Changes
<1>chosen. PICK chosen : chosen = [base EXCEPT !.file = g, !.runs = next]  OBVIOUS
<1>20. chosen \in Changes /\ chosen.file = g /\ chosen.runs = next /\ chosen.silent = c.silent
  BY <1>2, <1>13, <1>17, <1>18, <1>base, <1>chosen DEF Changes
<1>21. chosen \in Good
  <2>1. CASE marks \/ r \notin c.file.known
    <3>1. Marking(c, chosen, r)
      BY <1>10, <1>11, <1>13, <1>14, <1>15, <1>16, <1>17, <1>18, <1>20, <2>1 DEF Marking, SameMarks
    <3>. QED  BY <1>14, <1>20, <3>1 DEF Closed
  <2>2. CASE ~marks /\ r \in c.file.known
    <3>1. preferred = c.file.renamed  BY <1>10, <1>11, <1>15, <2>2 DEF SameMarks
    <3>2. Aside(c, chosen)
      BY <1>10, <1>13, <1>18, <1>20, <2>2, <3>1 DEF Aside, SameMarks
    <3>. QED  BY <1>14, <1>20, <3>2 DEF Closed
  <2>. QED  BY <2>1, <2>2
<1>22. MayTie(next, S)
  <2>1. MayTie(more, S)  BY <1>2, <1>8, <1>16, <1>17, SplitNamesStay
  <2>. QED  BY <1>8, <1>18, <2>1
<1>23. chosen \in TyingIn(Good, r, S)  BY <1>14, <1>20, <1>21, <1>22 DEF TyingIn
<1>24. PICK T : T = {v}  OBVIOUS
<1>25. T \subseteq S  BY <1>6, <1>24
<1>26. PICK tied : tied = TiedInTurn("import", chosen, T, r)  OBVIOUS
<1>27. tied \in TyingIn(Good, r, S) /\ tied.file.known \subseteq chosen.file.known \cup T
  BY <1>6, <1>23, <1>25, <1>26, ImportLoopStays
<1>28. PICK change : change = IF claims /\ tied.file.claim[text] = NoName /\ MayClaim(tied.file, r, text)
                              THEN Claim(tied, r, text) ELSE tied
  OBVIOUS
<1>29. change \in Good
  <2>1. CASE claims
    <3>1. \A n \in tied.file.known : Spelling[n] = text => n \in S
      BY <1>4, <1>5, <1>10, <1>13, <1>20, <1>24, <1>27, <2>1
    <3>2. Claim(tied, r, text) \in Good  BY <1>6, <1>27, <3>1, ClaimStays
    <3>. QED  BY <1>27, <1>28, <3>2 DEF TyingIn
  <2>2. CASE ~claims  BY <1>27, <1>28, <2>2 DEF TyingIn
  <2>. QED  BY <2>1, <2>2
<1>30. Commits(change)
  <2>1. chosen = [Change(Created(file, r)) EXCEPT
                   !.file.renamed = IF renamed THEN @ \cup {r} ELSE @ \ {r},
                   !.runs = IF r \in file.known /\ (r \in file.renamed) # renamed
                            THEN Append(@, NewRun("reindex", r, r)) ELSE @]
    <3>1. base = Change(f)
      <4>1. Change(f) = [file |-> f, runs |-> runs, silent |-> silent]  BY DEF Change
      <4>. QED  BY <1>2, <1>19, <4>1
    <3>2. [base EXCEPT !.file.renamed = IF renamed THEN @ \cup {r} ELSE @ \ {r},
                       !.runs = IF marks THEN Append(@, run) ELSE @]
          = [base EXCEPT !.file = g, !.runs = next]
      BY <1>11, <1>12, <1>17, <1>18, <1>base
    <3>. QED  BY <1>2, <1>9, <1>15, <1>16, <1>chosen, <3>1, <3>2
  <2>. QED  BY <1>3, <1>24, <1>26, <1>28, <2>1 DEF Import
<1>31. change \in Changes  BY <1>29 DEF Closed
<1>. QED  BY <1>29, <1>30, <1>31, CommitsHere

LEMMA LinkItemStays ==
  ASSUME NEW Good, Closed(Good), Here \in Good, \A r \in Names : \E Almost : ClosedBetween(Good, Almost, r),
         NEW n \in Names, NEW v \in Names, NEW q \in Qids, LinkItem(n, q, {v})
  PROVE  Here' \in Good
<1>1. PICK c \in Good : c = Here  OBVIOUS
<1>2. /\ c \in Changes /\ c.file = file /\ c.runs = runs /\ c.silent = silent
      /\ Sound(c.file) /\ c.file \in Files /\ c.runs \in Seq(Runs)
  BY <1>1, HereIsGood
<1>3. PICK r : r = RootOf(c.file, n)  OBVIOUS
<1>4. PICK g : g = [c.file EXCEPT !.qid[r] = q]  OBVIOUS
<1>5. n \in c.file.known /\ Settled({v} \cup {r}) /\ AddsNames(g, r, {v})
  BY <1>2, <1>3, <1>4 DEF LinkItem
<1>6. r \in Names /\ RootIn(c.file, r)  BY <1>2, <1>3, <1>5, RootOfIsRoot
<1>7. PICK S : S = {v} \cup {r}  OBVIOUS
<1>8. S \in SUBSET Names /\ r \in S /\ MayTie(c.runs, S)  BY <1>2, <1>5, <1>6, <1>7, MayTieHere
<1>9. Sound(g) /\ RootIn(g, r) /\ g \in Files
      /\ g.known = c.file.known /\ g.authority = c.file.authority /\ SameMarks(c.file, g)
  <2>1. Sound(g) /\ RootIn(g, r)  BY <1>2, <1>4, <1>6, ItemIsSound
  <2>2. g.known = c.file.known /\ g.authority = c.file.authority /\ SameMarks(c.file, g)
    BY <1>2, <1>4 DEF Files, SameMarks
  <2>. QED  BY <2>1, <2>2 DEF Sound
<1>10. PICK b : b = Change(g)  OBVIOUS
<1>11. b = [file |-> g, runs |-> c.runs, silent |-> c.silent]  BY <1>2, <1>10 DEF Change
<1>12. b \in Changes /\ b.file = g /\ b.runs = c.runs /\ b.silent = c.silent
  BY <1>2, <1>9, <1>11, ChangeOf DEF Changes
<1>13. Aside(c, b)  BY <1>9, <1>12 DEF Aside
<1>14. b \in Good  BY <1>9, <1>12, <1>13 DEF Closed
<1>15. PICK Almost : ClosedBetween(Good, Almost, r)  BY <1>6
<1>16. b \in TyingIn(Almost, r, S)  BY <1>8, <1>9, <1>12, <1>14, <1>15 DEF TyingIn, ClosedBetween
<1>17. PICK T : T = {v} \ {r}  OBVIOUS
<1>18. T \subseteq S  BY <1>7, <1>17
<1>19. PICK tied : tied = TiedInTurn("item", b, T, r)  OBVIOUS
<1>20. tied \in Almost /\ RootIn(tied.file, r) /\ tied.runs = b.runs /\ tied.silent = b.silent
  BY <1>8, <1>15, <1>16, <1>18, <1>19, ItemLoopStays DEF TyingIn
<1>21. tied \in Changes /\ Sound(tied.file)  BY <1>15, <1>20 DEF ClosedBetween
<1>22. CASE tied.file = g
  <2>1. tied = b  BY <1>12, <1>20, <1>21, <1>22 DEF Changes
  <2>2. Commits(tied)  BY <1>5, <1>10, <1>17, <1>19, <1>22 DEF AddsNames
  <2>. QED  BY <1>14, <1>21, <2>1, <2>2, CommitsHere
<1>23. CASE tied.file # g
  <2>1. PICK run \in Runs : run = NewRun("reindex", r, r)  BY <1>6, NewRunIsOne
  <2>2. PICK next \in Seq(Runs) : next = Append(tied.runs, run)  BY <1>21, OneMore
  <2>3. PICK d : d = [file |-> tied.file, runs |-> next, silent |-> tied.silent]  OBVIOUS
  <2>4. d \in Changes /\ d.file = tied.file /\ d.runs = next /\ d.silent = tied.silent
    BY <1>21, <2>3, ChangeOf DEF Changes
  <2>5. d \in Good  BY <1>15, <1>20, <1>21, <2>1, <2>2, <2>4 DEF ClosedBetween
  <2>6. d = [tied EXCEPT !.runs = Append(@, NewRun("reindex", r, r))]
    <3>1. [tied EXCEPT !.runs = next] = d  BY <1>21, <2>3 DEF Changes
    <3>. QED  BY <2>1, <2>2, <3>1
  <2>7. Commits(d)  BY <1>5, <1>10, <1>17, <1>19, <1>23, <2>6 DEF AddsNames
  <2>. QED  BY <2>4, <2>5, <2>7, CommitsHere
<1>. QED  BY <1>22, <1>23

\* A request that writes: every one but a split, and a merge's first step.
Request ==
  \/ \E tx \in merging : CommitMerge(tx)
  \/ \E n \in Names : Mark(n) \/ UnlinkItem(n)
  \/ \E v, w, target \in Names : BulkMerge(v, w, target)
  \/ \E r \in Names, text \in Texts : ClaimName(r, text) \/ ReleaseName(r, text)
  \/ \E r, v \in Names, renamed, claims \in BOOLEAN : Import(r, renamed, {v}, claims)
  \/ \E n, v \in Names, q \in Qids : LinkItem(n, q, {v})
  \/ \E a, b \in Names : AddDistinct(a, b) \/ RemoveDistinct(a, b)
  \/ \E a, b \in Names, kind \in Kinds : AddRelation(a, kind, b)
  \/ \E link \in file.links : RemoveRelation(link)

LEMMA RequestStays ==
  ASSUME NEW Good, Closed(Good), Here \in Good, \A r \in Names : \E Almost : ClosedBetween(Good, Almost, r),
         FileIsSound, Request
  PROVE  Here' \in Good
<1>1. ASSUME NEW tx \in merging, CommitMerge(tx)
      PROVE  Here' \in Good
  <2>1. MayTie(runs, {tx.variant, tx.root})  BY DEF FileIsSound, MergeIsSound
  <2>. QED  BY <1>1, <2>1, CommitMergeStays
<1>2. ASSUME NEW n \in Names, Mark(n) \/ UnlinkItem(n)
      PROVE  Here' \in Good
  BY <1>2, MarkStays, UnlinkItemStays
<1>3. ASSUME NEW v \in Names, NEW w \in Names, NEW target \in Names, BulkMerge(v, w, target)
      PROVE  Here' \in Good
  BY <1>3, BulkMergeStays
<1>4. ASSUME NEW r \in Names, NEW text \in Texts, ClaimName(r, text) \/ ReleaseName(r, text)
      PROVE  Here' \in Good
  BY <1>4, ClaimNameStays, ReleaseNameStays
<1>5. ASSUME NEW r \in Names, NEW v \in Names, NEW renamed \in BOOLEAN, NEW claims \in BOOLEAN,
             Import(r, renamed, {v}, claims)
      PROVE  Here' \in Good
  BY <1>5, ImportStays
<1>6. ASSUME NEW n \in Names, NEW v \in Names, NEW q \in Qids, LinkItem(n, q, {v})
      PROVE  Here' \in Good
  BY <1>6, LinkItemStays
<1>7. ASSUME NEW a \in Names, NEW b \in Names, AddDistinct(a, b) \/ RemoveDistinct(a, b)
      PROVE  Here' \in Good
  BY <1>7, DistinctStays
<1>8. ASSUME NEW a \in Names, NEW b \in Names, NEW kind \in Kinds, AddRelation(a, kind, b)
      PROVE  Here' \in Good
  BY <1>8, AddRelationStays
<1>9. ASSUME NEW link \in file.links, RemoveRelation(link)
      PROVE  Here' \in Good
  BY <1>9, RemoveRelationStays
<1>. QED  BY <1>1, <1>2, <1>3, <1>4, <1>5, <1>6, <1>7, <1>8, <1>9 DEF Request

\* What a request leaves alone.
LEMMA RequestFrame ==
  ASSUME Request
  PROVE  /\ UNCHANGED <<rows, due, asked, reading, readings>>
         /\ \/ merging' = merging /\ MayAsk /\ Asks
            \/ requests' = requests /\ \E tx \in merging : merging' = merging \ {tx}
<1>1. ASSUME NEW n \in Names, Mark(n)
      PROVE  UNCHANGED <<rows, due, asked, reading, readings, merging>> /\ MayAsk /\ Asks
  BY <1>1 DEF Mark, Rename, SetType, SetHidden, SetStatus, SetAmbiguous, ChangesRoot
<1>2. ASSUME NEW tx \in merging, CommitMerge(tx)
      PROVE  UNCHANGED <<rows, due, asked, reading, readings, requests>> /\ merging' = merging \ {tx}
  BY <1>2 DEF CommitMerge
<1>3. ASSUME NEW v \in Names, NEW w \in Names, NEW target \in Names, BulkMerge(v, w, target)
      PROVE  UNCHANGED <<rows, due, asked, reading, readings, merging>> /\ MayAsk /\ Asks
  BY <1>3 DEF BulkMerge
<1>4. ASSUME NEW change, Commits(change)
      PROVE  UNCHANGED <<rows, due, asked, reading, readings, merging>>
  BY <1>4 DEF Commits
<1>5. ASSUME NEW n \in Names, NEW v \in Names, NEW q \in Qids, LinkItem(n, q, {v})
      PROVE  UNCHANGED <<rows, due, asked, reading, readings, merging>> /\ MayAsk /\ Asks
  BY <1>5, <1>4 DEF LinkItem, AddsNames
<1>6. ASSUME NEW r \in Names, NEW text \in Texts, ClaimName(r, text) \/ ReleaseName(r, text)
      PROVE  UNCHANGED <<rows, due, asked, reading, readings, merging>> /\ MayAsk /\ Asks
  BY <1>6, <1>4 DEF ClaimName, ReleaseName
<1>7. ASSUME NEW r \in Names, NEW v \in Names, NEW renamed \in BOOLEAN, NEW claims \in BOOLEAN,
             Import(r, renamed, {v}, claims)
      PROVE  UNCHANGED <<rows, due, asked, reading, readings, merging>> /\ MayAsk /\ Asks
  BY <1>7, <1>4 DEF Import
<1>8. ASSUME NEW n \in Names, UnlinkItem(n)
      PROVE  UNCHANGED <<rows, due, asked, reading, readings, merging>> /\ MayAsk /\ Asks
  BY <1>8, <1>4 DEF UnlinkItem
<1>9. ASSUME NEW a \in Names, NEW b \in Names, AddDistinct(a, b) \/ RemoveDistinct(a, b)
      PROVE  UNCHANGED <<rows, due, asked, reading, readings, merging>> /\ MayAsk /\ Asks
  BY <1>9, <1>4 DEF AddDistinct, RemoveDistinct
<1>10. ASSUME NEW a \in Names, NEW b \in Names, NEW kind \in Kinds, AddRelation(a, kind, b)
       PROVE  UNCHANGED <<rows, due, asked, reading, readings, merging>> /\ MayAsk /\ Asks
  BY <1>10, <1>4 DEF AddRelation
<1>11. ASSUME NEW link \in file.links, RemoveRelation(link)
       PROVE  UNCHANGED <<rows, due, asked, reading, readings, merging>> /\ MayAsk /\ Asks
  BY <1>11, <1>4 DEF RemoveRelation
<1>. QED  BY <1>1, <1>2, <1>3, <1>5, <1>6, <1>7, <1>8, <1>9, <1>10, <1>11 DEF Request

\* The other steps.
LEMMA OneStep ==
  ASSUME Next
  PROVE  \/ Request
         \/ \E v, target \in Names : BeginMerge(v, target)
         \/ \E tx \in merging : Rollback(tx)
         \/ \E n \in Names : Split(n)
         \/ \E a \in Articles, found \in Readings : Publish(a, found)
         \/ StartCycle \/ AdvanceRun
BY Zenon DEF Next, Request

-----------------------------------------------------------------------------
(* The file is sound. *)

LEMMA RequestIsSound ==
  ASSUME OneRequestAtATime, FileTypes, MayAsk, Asks,
         merging' = merging, reading' = reading, readings' = readings,
         Sound(file'), runs' \in Seq(Runs), silent' \subseteq Names
  PROVE  FileIsSound'
<1>1. merging = {}  BY DEF OneRequestAtATime, MayAsk
<1>2. requests' \in 0..MaxRequests  BY AuthorityFileConstants DEF FileTypes, MayAsk, Asks
<1>3. FileTypes'  BY <1>2 DEF FileTypes
<1>4. MergeIsSound'  BY <1>1 DEF MergeIsSound
<1>. QED  BY <1>3, <1>4 DEF FileIsSound

LEMMA BeginMergeIsSound ==
  ASSUME OneRequestAtATime, FileIsSound, NEW v \in Names, NEW target \in Names, BeginMerge(v, target)
  PROVE  FileIsSound'
<1>1. PICK r : r = RootOf(file, target)  OBVIOUS
<1>2. /\ MayAsk /\ Asks /\ {v, target} \subseteq file.known /\ ~MergeProblem(file, v, r)
      /\ Settled({v, r})
      /\ merging' = merging \cup {[variant |-> v, root |-> r]}
      /\ UNCHANGED <<file, runs, silent, reading, readings>>
  BY <1>1 DEF BeginMerge
<1>3. RootIn(file, r) /\ r \in Names  BY <1>1, <1>2, RootOfIsRoot DEF FileIsSound
<1>4. v # r /\ RootIn(file, v)  BY <1>2, NoProblem DEF RootIn
<1>5. PICK tx : tx = [variant |-> v, root |-> r]  OBVIOUS
<1>6. tx.variant = v /\ tx.root = r /\ tx \in [variant : Names, root : Names]  BY <1>3, <1>5
<1>7. merging' = {tx}  BY <1>2, <1>5 DEF OneRequestAtATime, MayAsk
<1>8. requests' \in 0..MaxRequests  BY <1>2, AuthorityFileConstants DEF FileIsSound, FileTypes, MayAsk, Asks
<1>9. FileTypes'  BY <1>2, <1>6, <1>7, <1>8 DEF FileIsSound, FileTypes
<1>10. MayTie(runs, {tx.variant, tx.root})  BY <1>2, <1>6, MayTieHere
<1>11. MergeIsSound'  BY <1>2, <1>3, <1>4, <1>6, <1>7, <1>10 DEF MergeIsSound, RootIn
<1>12. Sound(file')  BY <1>2 DEF FileIsSound
<1>. QED  BY <1>9, <1>11, <1>12 DEF FileIsSound

LEMMA RollbackIsSound ==
  ASSUME FileIsSound, NEW tx \in merging, Rollback(tx)
  PROVE  FileIsSound'
<1>1. merging' = {}  BY DEF Rollback, FileIsSound, MergeIsSound
<1>2. FileTypes' /\ MergeIsSound'  BY <1>1 DEF Rollback, FileIsSound, FileTypes, MergeIsSound
<1>3. Sound(file')  BY DEF Rollback, FileIsSound
<1>. QED  BY <1>2, <1>3 DEF FileIsSound

LEMMA SplitIsSound ==
  ASSUME OneRequestAtATime, FileIsSound, NEW v \in Names, Split(v)
  PROVE  FileIsSound'
<1>1. PICK f : f = file  OBVIOUS
<1>2. PICK r : r = f.authority[v]  OBVIOUS
<1>3. /\ MayAsk /\ Asks /\ r # NoName
      /\ file' = [f EXCEPT !.authority[v] = NoName]
      /\ runs' = Append(runs, NewRun("split", v, r))
      /\ UNCHANGED <<merging, reading, silent, readings>>
  BY <1>1, <1>2 DEF Split, Started
<1>4. Sound(f) /\ f \in Files  BY <1>1 DEF FileIsSound, Sound
<1>5. PICK g : g = [f EXCEPT !.authority[v] = NoName]  OBVIOUS
<1>6. /\ g \in Files /\ g.known = f.known /\ g.typed = f.typed /\ g.hidden = f.hidden
      /\ g.links = f.links /\ g.qid = f.qid /\ g.claim = f.claim
      /\ g.authority = [f.authority EXCEPT ![v] = NoName]
      /\ f.authority \in [Names -> Names \cup {NoName}] /\ f.known \subseteq Names
  BY <1>4, <1>5 DEF Files
<1>7. \A n : RootIn(f, n) => RootIn(g, n)  BY <1>6 DEF RootIn
<1>8. \A n \in Names : g.authority[n] # NoName => n \in g.known /\ RootIn(g, g.authority[n])
  BY <1>4, <1>6, <1>7 DEF Sound
<1>9. Sound(g)  BY <1>4, <1>6, <1>7, <1>8 DEF Sound
<1>10. r \in Names  BY <1>2, <1>3, <1>6
<1>11. NewRun("split", v, r) \in Runs  BY <1>10, NewRunIsOne
<1>12. Sound(file') /\ runs' \in Seq(Runs) /\ silent' \subseteq Names
  BY <1>3, <1>5, <1>9, <1>11 DEF FileIsSound, FileTypes
<1>. QED  BY <1>3, <1>12, RequestIsSound DEF FileIsSound

LEMMA RequestLeavesSound ==
  ASSUME OneRequestAtATime, FileIsSound, Request
  PROVE  FileIsSound'
<1>1. PICK Good : Good = {c \in Changes : Sound(c.file)}  OBVIOUS
<1>2. Closed(Good) /\ \A r \in Names : ClosedBetween(Good, Good, r)  BY <1>1 DEF Closed, ClosedBetween
<1>3. Here \in Good
  BY <1>1 DEF FileIsSound, FileTypes, Here, Change, Changes, Sound
<1>4. Here' \in Good  BY <1>2, <1>3, RequestStays
<1>5. Sound(file') /\ runs' \in Seq(Runs) /\ silent' \subseteq Names
  <2>1. Here' = [file |-> file', runs |-> runs', silent |-> silent']  BY DEF Here, Change
  <2>. QED  BY <1>1, <1>4, <2>1 DEF Changes
<1>6. CASE merging' = merging /\ MayAsk /\ Asks
  BY <1>5, <1>6, RequestFrame, RequestIsSound DEF FileIsSound
<1>7. CASE requests' = requests /\ \E tx \in merging : merging' = merging \ {tx}
  <2>1. merging' = {}  BY <1>7 DEF FileIsSound, MergeIsSound
  <2>2. FileTypes'  BY <1>5, <1>7, <2>1, RequestFrame DEF FileIsSound, FileTypes
  <2>. QED  BY <1>5, <2>1, <2>2 DEF FileIsSound, MergeIsSound
<1>. QED  BY <1>6, <1>7, RequestFrame

\* A new name NER finds is tied to the root that claims its text; a known one stays as it is.
LEMMA RegisteredIsSound ==
  ASSUME NEW f, Sound(f), NEW used \in SUBSET Names, NEW g, g = Registered(f, used)
  PROVE  Sound(g) /\ g.known = f.known \cup used /\ \A n : RootIn(f, n) => RootIn(g, n)
<1>. DEFINE authority == [n \in Names |->
              IF n \in used \ f.known /\ f.authority[n] = NoName THEN f.claim[Spelling[n]] ELSE f.authority[n]]
<1>1. /\ f \in Files /\ f.claim \in [Texts -> Names \cup {NoName}] /\ f.known \in SUBSET Names
      /\ f.authority \in [Names -> Names \cup {NoName}]
  BY DEF Sound, Files
<1>2. \A n \in Names : Spelling[n] \in Texts  BY DEF Texts
<1>3. authority \in [Names -> Names \cup {NoName}]  BY <1>1, <1>2
<1>4. PICK known \in SUBSET Names : known = f.known \cup used /\ g = [f EXCEPT !.known = known, !.authority = authority]
  BY <1>1 DEF Registered
<1>. HIDE DEF authority
<1>5. /\ g \in Files /\ g.known = known /\ g.authority = authority /\ g.typed = f.typed
      /\ g.hidden = f.hidden /\ g.links = f.links /\ g.qid = f.qid /\ g.claim = f.claim
  BY <1>1, <1>3, <1>4 DEF Files
<1>6. ASSUME NEW n, RootIn(f, n)
      PROVE  RootIn(g, n)
  BY <1>1, <1>4, <1>5, <1>6 DEF RootIn, authority
<1>7. ASSUME NEW n \in Names, authority[n] # NoName
      PROVE  n \in g.known /\ RootIn(g, authority[n])
  <2>1. CASE n \in used \ f.known /\ f.authority[n] = NoName
    <3>1. authority[n] = f.claim[Spelling[n]]  BY <2>1 DEF authority
    <3>2. RootIn(f, authority[n])  BY <1>2, <1>7, <3>1 DEF Sound
    <3>. QED  BY <1>4, <1>5, <1>6, <2>1, <3>2
  <2>2. CASE ~(n \in used \ f.known /\ f.authority[n] = NoName)
    <3>1. authority[n] = f.authority[n]  BY <2>2 DEF authority
    <3>2. n \in f.known /\ RootIn(f, authority[n])  BY <1>7, <3>1 DEF Sound
    <3>. QED  BY <1>4, <1>5, <1>6, <3>2
  <2>. QED  BY <2>1, <2>2
<1>8. Sound(g)  BY <1>5, <1>6, <1>7 DEF Sound
<1>. QED  BY <1>4, <1>5, <1>6, <1>8

LEMMA PublishIsSound ==
  ASSUME FileIsSound, NEW a \in Articles, NEW found \in Readings, Publish(a, found)
  PROVE  FileIsSound'
<1>1. PICK f : f = file  OBVIOUS
<1>2. PICK used : used = {n \in Names : found[n] > 0}  OBVIOUS
<1>3. Sound(f) /\ used \in SUBSET Names  BY <1>1, <1>2 DEF FileIsSound
<1>4. PICK g : g = Registered(f, used)  OBVIOUS
<1>5. Sound(g) /\ \A n : RootIn(f, n) => RootIn(g, n)  BY <1>3, <1>4, RegisteredIsSound
<1>6. /\ readings < MaxReadings /\ readings' = readings + 1 /\ file' = g
      /\ reading' = [reading EXCEPT ![a] = found]
      /\ silent' = silent \cup {n \in used : g.authority[n] # f.authority[n]}
      /\ UNCHANGED <<runs, merging, requests>>
  BY <1>1, <1>2, <1>4 DEF Publish
<1>7. found \in [Names -> Nat]  BY AuthorityFileConstants DEF Names
<1>8. readings' \in 0..MaxReadings  BY <1>6, AuthorityFileConstants DEF FileIsSound, FileTypes
<1>9. FileTypes'  BY <1>3, <1>6, <1>7, <1>8 DEF FileIsSound, FileTypes
<1>10. MergeIsSound'  BY <1>1, <1>5, <1>6 DEF FileIsSound, MergeIsSound
<1>. QED  BY <1>5, <1>6, <1>9, <1>10 DEF FileIsSound

\* ss is rs after its run i has asked for a batch of its root's articles.
Reindexed(rs, ss, i) ==
  /\ ss \in Seq(Runs) /\ DOMAIN ss = DOMAIN rs
  /\ \A j \in DOMAIN rs : j # i => ss[j] = rs[j]
  /\ i \in DOMAIN rs =>
       /\ ss[i].kind = rs[i].kind /\ ss[i].entity = rs[i].entity /\ ss[i].root = rs[i].root
       /\ ss[i].phase = "reindex" /\ (ss[i].status = "running" => rs[i].status = "running")

LEMMA ReindexedRuns ==
  ASSUME runs \in Seq(Runs), NEW i, NEW batch, Reindex(i, batch)
  PROVE  Reindexed(runs, runs', i)
<1>1. PICK last \in 0..LastArticle :
        runs' = [runs EXCEPT ![i].phase = "reindex", ![i].after = last,
                             ![i].status = IF batch = {} THEN "finished" ELSE @]
  BY DEF Reindex
<1>2. PICK status : status = IF batch = {} THEN "finished" ELSE runs[i].status  OBVIOUS
<1>3. PICK next : next = [runs[i] EXCEPT !.phase = "reindex", !.after = last, !.status = status]
  OBVIOUS
<1>4. runs' = [runs EXCEPT ![i] = next]  BY <1>1, <1>2, <1>3
<1>5. CASE i \in DOMAIN runs
  <2>1. PICK run \in Runs : run = runs[i]  BY <1>5
  <2>2. status \in {"running", "finished"} /\ (status = "running" => run.status = "running")
    BY <1>2, <2>1 DEF Runs
  <2>3. /\ next \in Runs /\ next.kind = run.kind /\ next.entity = run.entity /\ next.root = run.root
        /\ next.phase = "reindex" /\ next.status = status
    BY <1>3, <2>1, <2>2 DEF Runs
  <2>4. runs' \in Seq(Runs) /\ DOMAIN runs' = DOMAIN runs /\ runs'[i] = next
        /\ \A j \in DOMAIN runs : j # i => runs'[j] = runs[j]
    BY <1>4, <1>5, <2>3
  <2>. QED  BY <2>1, <2>2, <2>3, <2>4 DEF Reindexed
<1>6. CASE i \notin DOMAIN runs
  <2>1. runs' = runs  BY <1>4, <1>6
  <2>. QED  BY <1>6, <2>1 DEF Reindexed
<1>. QED  BY <1>5, <1>6

LEMMA AdvancedRuns ==
  ASSUME runs \in Seq(Runs), AdvanceRun
  PROVE  \E i \in due : runs' = runs \/ Reindexed(runs, runs', i)
<1>1. PICK i \in due, batch \in SUBSET Articles : Move(i, batch) \/ Reindex(i, batch)
  BY DEF AdvanceRun
<1>. QED  BY <1>1, ReindexedRuns DEF Move

LEMMA AdvanceRunIsSound ==
  ASSUME FileIsSound, AdvanceRun
  PROVE  FileIsSound'
<1>1. UNCHANGED <<file, merging, reading, silent, requests, readings>>  BY DEF AdvanceRun
<1>2. runs \in Seq(Runs)  BY DEF FileIsSound, FileTypes
<1>3. PICK i \in due : runs' = runs \/ Reindexed(runs, runs', i)  BY <1>2, AdvancedRuns
<1>4. runs' \in Seq(Runs)  BY <1>2, <1>3 DEF Reindexed
<1>5. ASSUME NEW S, MayTie(runs, S)
      PROVE  MayTie(runs', S)
  <2>1. CASE runs' = runs  BY <1>5, <2>1
  <2>2. CASE Reindexed(runs, runs', i)
    <3>1. \A j \in DOMAIN runs' :
            /\ j \in DOMAIN runs /\ runs'[j].kind = runs[j].kind
            /\ runs'[j].entity = runs[j].entity /\ runs'[j].root = runs[j].root
            /\ runs'[j].status = "running" => runs[j].status = "running"
      BY <2>2 DEF Reindexed
    <3>. QED  BY <1>5, <3>1 DEF MayTie, SplitNames
  <2>. QED  BY <1>3, <2>1, <2>2
<1>6. FileTypes'  BY <1>1, <1>4 DEF FileIsSound, FileTypes
<1>7. MergeIsSound'
  <2>1. ASSUME NEW tx \in merging
        PROVE  /\ merging = {tx} /\ tx.variant # tx.root
               /\ RootIn(file, tx.variant) /\ RootIn(file, tx.root)
               /\ MayTie(runs', {tx.variant, tx.root})
    BY <1>5 DEF FileIsSound, MergeIsSound
  <2>. QED  BY <1>1, <2>1 DEF MergeIsSound
<1>8. Sound(file')  BY <1>1 DEF FileIsSound
<1>. QED  BY <1>6, <1>7, <1>8 DEF FileIsSound

LEMMA InitIsSound == Init => FileIsSound
<1>. SUFFICES ASSUME Init
              PROVE  FileIsSound
  OBVIOUS
<1>1. PICK v \in Names \ NewNames, r \in Names \ NewNames :
        file = [authority |-> [n \in Names |-> IF n = v /\ v # r THEN r ELSE NoName],
                known |-> Names \ NewNames, typed |-> {}, hidden |-> {}, renamed |-> {},
                established |-> {}, ambiguous |-> {}, distinct |-> {}, links |-> {},
                qid |-> [n \in Names |-> NoQid], claim |-> [t \in Texts |-> NoName]]
  BY DEF Init
<1>2. PICK authority : authority = [n \in Names |-> IF n = v /\ v # r THEN r ELSE NoName]  OBVIOUS
<1>3. /\ authority \in [Names -> Names \cup {NoName}]
      /\ \A n \in Names : authority[n] # NoName => n = v /\ authority[n] = r /\ authority[r] = NoName
  BY <1>2
<1>4. PICK f : f = [authority |-> authority,
                    known |-> Names \ NewNames, typed |-> {}, hidden |-> {}, renamed |-> {},
                    established |-> {}, ambiguous |-> {}, distinct |-> {}, links |-> {},
                    qid |-> [n \in Names |-> NoQid], claim |-> [t \in Texts |-> NoName]]
  OBVIOUS
<1>5. /\ f.authority = authority /\ f.known = Names \ NewNames /\ f.typed = {} /\ f.hidden = {}
      /\ f.links = {} /\ f.qid = [n \in Names |-> NoQid] /\ f.claim = [t \in Texts |-> NoName]
      /\ f \in Files
  BY <1>3, <1>4 DEF Files
<1>6. Sound(f)  BY <1>3, <1>5 DEF Sound, RootIn
<1>7. file = f  BY <1>1, <1>2, <1>4
<1>8. reading \in [Articles -> [Names -> Nat]]
  BY AuthorityFileConstants DEF Init, Articles, Names
<1>9. FileTypes  BY <1>8, AuthorityFileConstants DEF Init, FileTypes
<1>10. MergeIsSound  BY DEF Init, MergeIsSound
<1>. QED  BY <1>6, <1>7, <1>9, <1>10 DEF FileIsSound

LEMMA NextIsSound ==
  ASSUME OneRequestAtATime, FileIsSound, [Next]_vars
  PROVE  FileIsSound'
<1>1. CASE UNCHANGED vars
  <2>1. Sound(file') /\ FileTypes' /\ MergeIsSound'
    BY <1>1 DEF vars, FileIsSound, FileTypes, MergeIsSound
  <2>. QED  BY <2>1 DEF FileIsSound
<1>2. ASSUME NEW v \in Names, NEW target \in Names, BeginMerge(v, target)
      PROVE  FileIsSound'
  BY <1>2, BeginMergeIsSound
<1>3. ASSUME NEW tx \in merging, Rollback(tx)
      PROVE  FileIsSound'
  BY <1>3, RollbackIsSound
<1>4. ASSUME NEW n \in Names, Split(n)
      PROVE  FileIsSound'
  BY <1>4, SplitIsSound
<1>5. ASSUME NEW a \in Articles, NEW found \in Readings, Publish(a, found)
      PROVE  FileIsSound'
  BY <1>5, PublishIsSound
<1>6. CASE StartCycle
  <2>1. Sound(file') /\ FileTypes' /\ MergeIsSound'
    BY <1>6 DEF StartCycle, FileIsSound, FileTypes, MergeIsSound
  <2>. QED  BY <2>1 DEF FileIsSound
<1>7. CASE AdvanceRun  BY <1>7, AdvanceRunIsSound
<1>8. CASE Request  BY <1>8, RequestLeavesSound
<1>. QED  BY <1>1, <1>2, <1>3, <1>4, <1>5, <1>6, <1>7, <1>8, OneStep

LEMMA FileStaysSound == ASSUME OneRequestAtATime
                        PROVE  Spec => []FileIsSound
<1>1. Init => FileIsSound  BY InitIsSound
<1>2. FileIsSound /\ [Next]_vars => FileIsSound'  BY NextIsSound
<1>. QED  BY <1>1, <1>2, PTL DEF Spec

\* While requests come one at a time, a variant always points straight at a root, and types,
\* marks, links, items and claims stay with roots: however many names merge_problem lets a merge,
\* a claim's loop, an import or an item's aliases tie, and whatever NER registers between.
THEOREM VariantPointsAtRootHolds == ASSUME OneRequestAtATime
                                    PROVE  Spec => []VariantPointsAtRoot
<1>1. FileIsSound => VariantPointsAtRoot
  BY DEF FileIsSound, Sound, RootIn, Files, VariantPointsAtRoot
<1>. QED  BY <1>1, FileStaysSound, PTL

-----------------------------------------------------------------------------
(* The rows of an article. *)

\* A row holds mentions; the name it was seen under is a mention's, and none is tagged with the
\* row's own entity.
RowIsWell(row) ==
  /\ row \in Rows /\ IsFiniteSet(row.mentions) /\ row.mentions # {}
  /\ row.observed # NoName => \E m \in row.mentions : m.tag = row.observed
  /\ \A m \in row.mentions : m.tag # row.entity

ArticleIsWell(article) == IsFiniteSet(article) /\ \A row \in article : RowIsWell(row)

\* What combine_rows takes.
IsPart(p) ==
  /\ p.observed \in Names \cup {NoName}
  /\ IsFiniteSet(p.mentions) /\ p.mentions # {} /\ p.mentions \subseteq Mentions

ArePartsOf(parts) == IsFiniteSet(parts) /\ parts # {} /\ \A p \in parts : IsPart(p)

\* A mention's tag in a row of e, and the mention with it.
TagIn(m, p, e) ==
  LET source == IF m.tag = NoName THEN p.observed ELSE m.tag
  IN IF source = e THEN NoName ELSE source

Retagged(m, p, e) == [m EXCEPT !.tag = TagIn(m, p, e)]

\* A row before and after it is combined; _publish starts from one without an entity.
RowShapes ==
  [entity : Names \cup {NoName}, observed : Names \cup {NoName}, mentions : SUBSET Mentions,
   current : BOOLEAN]

LEMMA ImageIsFinite ==
  ASSUME NEW f, IsFiniteSet(DOMAIN f), NEW T, T = {f[x] : x \in DOMAIN f}, f = [x \in DOMAIN f |-> f[x]]
  PROVE  IsFiniteSet(T)
<1>1. f \in Surjection(DOMAIN f, T)  BY DEF Surjection
<1>. QED  BY <1>1, FS_Surjection

LEMMA CommonestIsTag ==
  ASSUME NEW mentions \in SUBSET Mentions, IsFiniteSet(mentions), mentions # {}
  PROVE  \E m \in mentions : Commonest(mentions) = m.tag
<1>. DEFINE tags == {m.tag : m \in mentions}
            Count(t) == Cardinality({m \in mentions : m.tag = t})
            Best(t) == \A u \in tags : Count(t) > Count(u) \/ (Count(t) = Count(u) /\ t <= u)
<1>1. PICK N \in Nat : N = Cardinality(mentions)  BY FS_CardinalityType
<1>2. \A t \in tags : Count(t) \in Nat /\ Count(t) <= N
  <2>1. ASSUME NEW t
        PROVE  Count(t) \in Nat /\ Count(t) <= N
    <3>1. {m \in mentions : m.tag = t} \in SUBSET mentions  OBVIOUS
    <3>. QED  BY <1>1, <3>1, FS_Subset, FS_CardinalityType
  <2>. QED  BY <2>1
<1>3. tags # {} /\ tags \subseteq Nat
  <2>1. Names \cup {NoName} \subseteq Nat  BY AuthorityFileConstants DEF Names, NoName
  <2>2. \A m \in mentions : m.tag \in Names \cup {NoName}  BY DEF Mentions
  <2>. QED  BY <2>1, <2>2
<1>. HIDE DEF Count
<1>5. \E t \in tags : Best(t)
  <2>. HIDE DEF tags
  <2>. DEFINE gaps == {N - Count(t) : t \in tags}
  <2>. \A t \in tags : N - Count(t) \in Nat  BY <1>1, <1>2
  <2>1. gaps \subseteq Nat /\ gaps # {}  BY <1>3
  <2>2. PICK gap \in gaps : \A other \in gaps : gap <= other  BY <2>1, LeastNumber
  <2>. DEFINE most == {t \in tags : N - Count(t) = gap}
  <2>3. most \subseteq Nat /\ most # {}  BY <1>3, <2>2
  <2>4. PICK t \in most : \A u \in most : t <= u  BY <2>3, LeastNumber
  <2>5. ASSUME NEW u \in tags
        PROVE  Count(t) > Count(u) \/ (Count(t) = Count(u) /\ t <= u)
    <3>1. N - Count(t) <= N - Count(u)  BY <2>2, <2>4
    <3>2. Count(t) \in Nat /\ Count(u) \in Nat  BY <1>2, <2>4
    <3>3. Count(t) = Count(u) => u \in most  BY <2>4
    <3>. QED  BY <1>1, <2>4, <3>1, <3>2, <3>3
  <2>. QED  BY <2>4, <2>5
<1>. USE DEF Count
<1>6. Commonest(mentions) \in tags  BY <1>5 DEF Commonest
<1>. QED  BY <1>6

LEMMA RetaggedIsMention ==
  ASSUME NEW p, p.observed \in Names \cup {NoName}, NEW m \in Mentions, NEW e
  PROVE  /\ Retagged(m, p, e) \in Mentions
         /\ Retagged(m, p, e).of = m.of /\ Retagged(m, p, e).at = m.at
         /\ Retagged(m, p, e).tag = TagIn(m, p, e)
<1>1. PICK tag \in Names \cup {NoName} : tag = TagIn(m, p, e)  BY DEF TagIn, Mentions
<1>. QED  BY <1>1 DEF Retagged, Mentions

LEMMA CombinedMentionsAre ==
  ASSUME NEW e, NEW parts
  PROVE  CombinedMentions(e, parts) = UNION {{Retagged(m, p, e) : m \in p.mentions} : p \in parts}
BY DEF CombinedMentions, Retagged, TagIn

LEMMA CombinedMentionsAreFinite ==
  ASSUME NEW e, NEW parts, ArePartsOf(parts)
  PROVE  /\ IsFiniteSet(CombinedMentions(e, parts))
         /\ CombinedMentions(e, parts) # {} /\ CombinedMentions(e, parts) \subseteq Mentions
<1>. DEFINE retagged(p) == {Retagged(m, p, e) : m \in p.mentions}
<1>1. PICK each : each = [p \in parts |-> retagged(p)]  OBVIOUS
<1>2. PICK all : all = {each[p] : p \in parts}  OBVIOUS
<1>3. IsFiniteSet(all)  BY <1>1, <1>2, ImageIsFinite DEF ArePartsOf
<1>4. ASSUME NEW p \in parts
      PROVE  IsFiniteSet(retagged(p)) /\ retagged(p) # {} /\ retagged(p) \subseteq Mentions
  <2>1. IsPart(p)  BY DEF ArePartsOf
  <2>2. PICK one : one = [m \in p.mentions |-> Retagged(m, p, e)]  OBVIOUS
  <2>3. IsFiniteSet(retagged(p))  BY <2>1, <2>2, ImageIsFinite DEF IsPart
  <2>. QED  BY <2>1, <2>3, RetaggedIsMention DEF IsPart
<1>5. CombinedMentions(e, parts) = UNION all  BY <1>1, <1>2, CombinedMentionsAre
<1>. HIDE DEF retagged
<1>6. \A T \in all : IsFiniteSet(T) /\ T # {} /\ T \subseteq Mentions  BY <1>1, <1>2, <1>4
<1>7. all # {}  BY <1>2 DEF ArePartsOf
<1>8. IsFiniteSet(UNION all)  BY <1>3, <1>6, FS_UNION
<1>. QED  BY <1>5, <1>6, <1>7, <1>8

\* A combined row is one, of the entity; its mentions are the parts', tagged anew.
LEMMA CombinedIsWell ==
  ASSUME NEW row \in RowShapes, NEW e \in Names, NEW parts, ArePartsOf(parts),
         NEW out, out = Combined(row, e, parts)
  PROVE  /\ RowIsWell(out) /\ out.entity = e /\ out.current = row.current
         /\ out.mentions = CombinedMentions(e, parts)
<1>1. PICK mentions : mentions = CombinedMentions(e, parts)  OBVIOUS
<1>2. IsFiniteSet(mentions) /\ mentions # {} /\ mentions \in SUBSET Mentions
  BY <1>1, CombinedMentionsAreFinite
<1>3. PICK observed : observed = Commonest(mentions)  OBVIOUS
<1>4. \E m \in mentions : observed = m.tag  BY <1>2, <1>3, CommonestIsTag
<1>5. observed \in Names \cup {NoName}  BY <1>2, <1>4 DEF Mentions
<1>6. out = [row EXCEPT !.entity = e, !.mentions = mentions, !.observed = observed]
  BY <1>1, <1>3 DEF Combined
<1>7. /\ out \in RowShapes /\ out.entity = e /\ out.mentions = mentions
      /\ out.observed = observed /\ out.current = row.current
  BY <1>2, <1>5, <1>6 DEF RowShapes
<1>8. out \in Rows  BY <1>7 DEF RowShapes, Rows
<1>9. ASSUME NEW x \in mentions
      PROVE  x.tag # e
  <2>1. PICK p \in parts : \E m \in p.mentions : x = Retagged(m, p, e)
    BY <1>1, CombinedMentionsAre
  <2>2. PICK m \in p.mentions : x = Retagged(m, p, e)  BY <2>1
  <2>3. x.tag = TagIn(m, p, e)  BY <2>2, RetaggedIsMention DEF ArePartsOf, IsPart
  <2>4. NoName \notin Names  BY DEF NoName, Names
  <2>. QED  BY <2>3, <2>4 DEF TagIn
<1>. QED  BY <1>1, <1>2, <1>4, <1>7, <1>8, <1>9 DEF RowIsWell

\* Which mentions a row or a part holds, whatever their tags; and each of them once.
Said(row) == {[of |-> m.of, at |-> m.at] : m \in row.mentions}

SaidOnce(row) == \A m, o \in row.mentions : m.of = o.of /\ m.at = o.at => m = o

\* No two of these hold the same mention.
SaidApart(S) ==
  /\ \A row \in S : SaidOnce(row)
  /\ \A one, other \in S : one # other => Said(one) \cap Said(other) = {}

\* Combining keeps every mention, once if the parts held each of them once.
LEMMA CombinedSays ==
  ASSUME NEW row \in RowShapes, NEW e \in Names, NEW parts, ArePartsOf(parts),
         NEW out, out = Combined(row, e, parts)
  PROVE  /\ Said(out) = UNION {Said(p) : p \in parts}
         /\ SaidApart(parts) => SaidOnce(out)
<1>1. out.mentions = UNION {{Retagged(m, p, e) : m \in p.mentions} : p \in parts}
  BY CombinedIsWell, CombinedMentionsAre
<1>2. ASSUME NEW p \in parts, NEW m \in p.mentions
      PROVE  Retagged(m, p, e).of = m.of /\ Retagged(m, p, e).at = m.at
  BY RetaggedIsMention DEF ArePartsOf, IsPart
<1>3. Said(out) = UNION {Said(p) : p \in parts}
  <2>1. ASSUME NEW x \in out.mentions
        PROVE  [of |-> x.of, at |-> x.at] \in UNION {Said(p) : p \in parts}
    <3>1. PICK p \in parts : \E m \in p.mentions : x = Retagged(m, p, e)  BY <1>1
    <3>. QED  BY <1>2, <3>1 DEF Said
  <2>2. ASSUME NEW p \in parts, NEW m \in p.mentions
        PROVE  [of |-> m.of, at |-> m.at] \in Said(out)
    <3>1. Retagged(m, p, e) \in out.mentions  BY <1>1
    <3>. QED  BY <1>2, <3>1 DEF Said
  <2>3. Said(out) \subseteq UNION {Said(p) : p \in parts}  BY <2>1 DEF Said
  <2>4. \A p \in parts : Said(p) \subseteq Said(out)
    <3>1. ASSUME NEW p \in parts, NEW s \in Said(p)
          PROVE  s \in Said(out)
      <4>1. PICK m \in p.mentions : s = [of |-> m.of, at |-> m.at]  BY DEF Said
      <4>. QED  BY <2>2, <4>1
    <3>. QED  BY <3>1
  <2>. QED  BY <2>3, <2>4
<1>4. ASSUME SaidApart(parts), NEW x \in out.mentions, NEW y \in out.mentions,
             x.of = y.of, x.at = y.at
      PROVE  x = y
  <2>7. PICK p \in parts : \E m \in p.mentions : x = Retagged(m, p, e)  BY <1>1
  <2>1. PICK m \in p.mentions : x = Retagged(m, p, e)  BY <2>7
  <2>8. PICK q \in parts : \E o \in q.mentions : y = Retagged(o, q, e)  BY <1>1
  <2>2. PICK o \in q.mentions : y = Retagged(o, q, e)  BY <2>8
  <2>3. m.of = o.of /\ m.at = o.at  BY <1>2, <1>4, <2>1, <2>2
  <2>4. [of |-> m.of, at |-> m.at] \in Said(p) \cap Said(q)  BY <2>3 DEF Said
  <2>5. p = q  BY <1>4, <2>4 DEF SaidApart
  <2>6. m = o  BY <1>4, <2>3, <2>5 DEF SaidApart, SaidOnce
  <2>. QED  BY <2>1, <2>2, <2>5, <2>6
<1>. QED  BY <1>3, <1>4 DEF SaidOnce

LEMMA PartIsPart ==
  ASSUME NEW row, RowIsWell(row), NEW observed \in Names \cup {NoName}, NEW p, p = Part(row, observed)
  PROVE  /\ IsPart(p) /\ p.mentions = row.mentions /\ p.observed = observed
         /\ Said(p) = Said(row) /\ (SaidOnce(row) => SaidOnce(p))
<1>1. p.mentions = row.mentions /\ p.observed = observed  BY DEF Part
<1>. QED  BY <1>1 DEF RowIsWell, Rows, IsPart, Said, SaidOnce

LEMMA RowIsShaped ==
  ASSUME NEW row, RowIsWell(row)
  PROVE  /\ row \in RowShapes /\ row.entity \in Names /\ row.observed \in Names \cup {NoName}
         /\ row.current \in BOOLEAN
BY DEF RowIsWell, Rows, RowShapes

\* A row combined with itself alone.
LEMMA AlonePart ==
  ASSUME NEW p, IsPart(p), NEW parts, parts = {p}
  PROVE  ArePartsOf(parts) /\ (SaidOnce(p) => SaidApart(parts)) /\ UNION {Said(q) : q \in parts} = Said(p)
<1>1. ArePartsOf(parts)  BY FS_Singleton DEF ArePartsOf
<1>. QED  BY <1>1 DEF SaidApart

-----------------------------------------------------------------------------
(* Merging an article's rows. *)

SeenAs(row, v) == IF row.observed = NoName /\ row.entity = v THEN v ELSE row.observed

\* A mention of a merged row is tagged with the variant, or as one of its row was.
TagComesFrom(t, row, v) == t = NoName \/ t = v \/ \E o \in row.mentions : t = o.tag

LEMMA TagInComesFrom ==
  ASSUME NEW row, RowIsWell(row), NEW v, NEW m \in row.mentions, NEW e,
         NEW p, p = Part(row, SeenAs(row, v))
  PROVE  TagComesFrom(TagIn(m, p, e), row, v)
<1>1. p.observed = SeenAs(row, v)  BY DEF Part
<1>2. SeenAs(row, v) = v \/ SeenAs(row, v) = row.observed  BY DEF SeenAs
<1>3. row.observed = NoName \/ \E o \in row.mentions : row.observed = o.tag  BY DEF RowIsWell
<1>. QED  BY <1>1, <1>2, <1>3 DEF TagIn, TagComesFrom

\* The row that the current ones become: it says what they said.
LEMMA OneRowOfThem ==
  ASSUME NEW now, IsFiniteSet(now), now # {}, \A row \in now : RowIsWell(row) /\ row.current,
         NEW v \in Names, NEW r \in Names,
         NEW parts, parts = {Part(row, SeenAs(row, v)) : row \in now},
         NEW out, out = Combined(Kept(now, r), r, parts)
  PROVE  /\ OneRow(now, r, parts) = {out}
         /\ RowIsWell(out) /\ out.entity = r /\ out.current
         /\ Said(out) = UNION {Said(row) : row \in now}
         /\ SaidApart(now) => SaidOnce(out)
         /\ \A m \in out.mentions : \E row \in now : TagComesFrom(m.tag, row, v)
<1>1. PICK part : part = [row \in now |-> Part(row, SeenAs(row, v))]  OBVIOUS
<1>2. \A row \in now : /\ IsPart(part[row]) /\ part[row].mentions = row.mentions
                       /\ Said(part[row]) = Said(row) /\ (SaidOnce(row) => SaidOnce(part[row]))
  <2>1. ASSUME NEW row \in now
        PROVE  SeenAs(row, v) \in Names \cup {NoName}
    BY RowIsShaped DEF SeenAs
  <2>. QED  BY <1>1, <2>1, PartIsPart
<1>3. parts = {part[row] : row \in now}  BY <1>1
<1>4. ArePartsOf(parts)
  <2>1. IsFiniteSet(parts)  BY <1>1, <1>3, ImageIsFinite
  <2>. QED  BY <1>2, <1>3, <2>1 DEF ArePartsOf
<1>5. PICK kept \in now : kept = Kept(now, r)
  <2>1. \E row \in now : r \in {x.entity : x \in now} => row.entity = r  OBVIOUS
  <2>. QED  BY <2>1 DEF Kept
<1>6. kept \in RowShapes  BY <1>5, RowIsShaped
<1>7. RowIsWell(out) /\ out.entity = r /\ out.current = kept.current /\ out.mentions = CombinedMentions(r, parts)
  BY <1>4, <1>5, <1>6, CombinedIsWell
<1>8. Said(out) = UNION {Said(p) : p \in parts} /\ (SaidApart(parts) => SaidOnce(out))
  BY <1>4, <1>5, <1>6, CombinedSays
<1>9. UNION {Said(p) : p \in parts} = UNION {Said(row) : row \in now}
  <2>1. {Said(p) : p \in parts} = {Said(part[row]) : row \in now}  BY <1>3
  <2>2. {Said(part[row]) : row \in now} = {Said(row) : row \in now}  BY <1>2
  <2>. QED  BY <2>1, <2>2
<1>10. SaidApart(now) => SaidApart(parts)
  <2>. HAVE SaidApart(now)
  <2>1. \A p \in parts : SaidOnce(p)  BY <1>2, <1>3 DEF SaidApart
  <2>2. ASSUME NEW p \in parts, NEW q \in parts, p # q
        PROVE  Said(p) \cap Said(q) = {}
    <3>1. PICK a \in now, b \in now : p = part[a] /\ q = part[b]  BY <1>3
    <3>. QED  BY <1>2, <2>2, <3>1 DEF SaidApart
  <2>. QED  BY <2>1, <2>2 DEF SaidApart
<1>11. ASSUME NEW m \in out.mentions
       PROVE  \E row \in now : TagComesFrom(m.tag, row, v)
  <2>1. PICK p \in parts : \E o \in p.mentions : m = Retagged(o, p, r)
    BY <1>7, CombinedMentionsAre
  <2>2. PICK o \in p.mentions : m = Retagged(o, p, r)  BY <2>1
  <2>3. PICK row \in now : p = part[row]  BY <1>3
  <2>4. m.tag = TagIn(o, p, r)  BY <1>2, <2>2, <2>3, RetaggedIsMention DEF IsPart
  <2>5. o \in row.mentions /\ p = Part(row, SeenAs(row, v))  BY <1>1, <1>2, <2>3
  <2>6. TagComesFrom(TagIn(o, p, r), row, v)  BY <2>5, TagInComesFrom
  <2>. QED  BY <2>4, <2>6
<1>12. OneRow(now, r, parts) = {out}  BY DEF OneRow
<1>13. kept.current  BY <1>5
<1>. QED  BY <1>7, <1>8, <1>9, <1>10, <1>11, <1>12, <1>13

IsOf(row, v, r) == row.entity = v \/ row.entity = r

Current(article) == {row \in article : row.current}

\* What _merge_article makes of an article's rows: v's rows are r's, one of them current.
MergedFrom(out, article, v, r) ==
  LET now == {row \in Current(article) : IsOf(row, v, r)}
  IN /\ ArticleIsWell(out)
     /\ \A x \in out : x.entity = r \/ (x.entity # v /\ x \in article)
     /\ \A x \in article : ~IsOf(x, v, r) => x \in out
     /\ \A x \in article : IsOf(x, v, r) => \E y \in out : y.entity = r
     /\ \A x \in out : x.entity = r => \A m \in x.mentions :
          \E row \in article : IsOf(row, v, r) /\ TagComesFrom(m.tag, row, v)
     /\ \A x, y \in out : x.current /\ y.current /\ x.entity = r /\ y.entity = r => x = y
     /\ \A x \in out : x.current /\ x.entity = r =>
          /\ Said(x) = UNION {Said(row) : row \in now}
          /\ SaidApart(now) => SaidOnce(x)
     /\ now # {} => \E x \in out : x.current /\ x.entity = r

LEMMA MergedRowsAre ==
  ASSUME NEW article, ArticleIsWell(article), NEW v \in Names, NEW r \in Names,
         NEW out, out = MergedRows(article, v, r)
  PROVE  MergedFrom(out, article, v, r)
<1>1. PICK moving : moving = {row \in article : IsOf(row, v, r)}  OBVIOUS
<1>2. PICK now : now = {row \in moving : row.current}  OBVIOUS
<1>3. PICK alone : alone = [row \in moving \ now |-> {Part(row, SeenAs(row, v))}]  OBVIOUS
<1>4. PICK past : past = {Combined(row, r, alone[row]) : row \in moving \ now}  OBVIOUS
<1>5. PICK parts : parts = {Part(row, SeenAs(row, v)) : row \in now}  OBVIOUS
<1>6. PICK one : one = Combined(Kept(now, r), r, parts)  OBVIOUS
<1>7. out = (article \ moving) \cup past \cup OneRow(now, r, parts)
  <2>1. moving = {row \in article : row.entity \in {v, r}}  BY <1>1 DEF IsOf
  <2>2. past = {Combined(row, r, {Part(row, SeenAs(row, v))}) : row \in moving \ now}
    BY <1>3, <1>4
  <2>. QED  BY <1>2, <1>5, <2>1, <2>2 DEF MergedRows, SeenAs
<1>8. \A row \in moving : RowIsWell(row) /\ IsOf(row, v, r) /\ row \in article  BY <1>1 DEF ArticleIsWell
<1>9. IsFiniteSet(moving) /\ IsFiniteSet(now) /\ IsFiniteSet(moving \ now) /\ IsFiniteSet(article \ moving)
  BY <1>1, <1>2, FS_Subset DEF ArticleIsWell
<1>10. ASSUME NEW row \in moving \ now, NEW x, x = Combined(row, r, alone[row])
       PROVE  /\ RowIsWell(x) /\ x.entity = r /\ ~x.current
              /\ \A m \in x.mentions : TagComesFrom(m.tag, row, v)
  <2>1. RowIsWell(row) /\ ~row.current  BY <1>2, <1>8
  <2>2. row \in RowShapes /\ SeenAs(row, v) \in Names \cup {NoName}  BY <2>1, RowIsShaped DEF SeenAs
  <2>3. PICK p : p = Part(row, SeenAs(row, v))  OBVIOUS
  <2>4. IsPart(p) /\ p.mentions = row.mentions  BY <2>1, <2>2, <2>3, PartIsPart
  <2>5. alone[row] = {p} /\ ArePartsOf(alone[row])  BY <1>3, <2>3, <2>4, AlonePart
  <2>6. /\ RowIsWell(x) /\ x.entity = r /\ x.current = row.current
        /\ x.mentions = CombinedMentions(r, alone[row])
    BY <1>10, <2>2, <2>5, CombinedIsWell
  <2>7. ASSUME NEW m \in x.mentions
        PROVE  TagComesFrom(m.tag, row, v)
    <3>1. PICK o \in p.mentions : m = Retagged(o, p, r)  BY <2>5, <2>6, CombinedMentionsAre
    <3>2. m.tag = TagIn(o, p, r)  BY <2>4, <3>1, RetaggedIsMention DEF IsPart
    <3>3. TagComesFrom(TagIn(o, p, r), row, v)  BY <2>1, <2>3, <2>4, TagInComesFrom
    <3>. QED  BY <3>2, <3>3
  <2>. QED  BY <2>1, <2>6, <2>7
<1>11. ASSUME NEW x \in past
       PROVE  /\ RowIsWell(x) /\ x.entity = r /\ ~x.current
              /\ \A m \in x.mentions : \E row \in article : IsOf(row, v, r) /\ TagComesFrom(m.tag, row, v)
  <2>1. PICK row \in moving \ now : x = Combined(row, r, alone[row])  BY <1>4
  <2>. QED  BY <1>8, <1>10, <2>1
<1>12. ASSUME now # {}
       PROVE  /\ OneRow(now, r, parts) = {one}
              /\ RowIsWell(one) /\ one.entity = r /\ one.current
              /\ Said(one) = UNION {Said(row) : row \in now}
              /\ SaidApart(now) => SaidOnce(one)
              /\ \A m \in one.mentions : \E row \in now : TagComesFrom(m.tag, row, v)
  <2>1. \A row \in now : RowIsWell(row) /\ row.current  BY <1>2, <1>8
  <2>. QED  BY <1>5, <1>6, <1>9, <1>12, <2>1, OneRowOfThem
<1>13. now = {} => OneRow(now, r, parts) = {}  BY DEF OneRow
<1>14. ASSUME NEW x \in OneRow(now, r, parts)
       PROVE  now # {} /\ x = one
  BY <1>12, <1>13
<1>15. ArticleIsWell(out)
  <2>1. PICK each : each = [row \in moving \ now |-> Combined(row, r, alone[row])]  OBVIOUS
  <2>2. IsFiniteSet(past)  BY <1>4, <1>9, <2>1, ImageIsFinite
  <2>3. IsFiniteSet(OneRow(now, r, parts))  BY <1>12, <1>13, FS_EmptySet, FS_Singleton
  <2>4. IsFiniteSet(out)  BY <1>7, <1>9, <2>2, <2>3, FS_Union
  <2>5. \A x \in out : RowIsWell(x)  BY <1>7, <1>11, <1>12, <1>14 DEF ArticleIsWell
  <2>. QED  BY <2>4, <2>5 DEF ArticleIsWell
<1>16. now = {row \in Current(article) : IsOf(row, v, r)}  BY <1>1, <1>2 DEF Current
<1>17. \A x \in out : x.entity = r => x \in past \/ (now # {} /\ x = one)
  BY <1>1, <1>7, <1>14 DEF IsOf
<1>18. \A x \in article \ moving : ~IsOf(x, v, r)  BY <1>1
<1>19. \A x \in out : x.entity = r \/ (x.entity # v /\ x \in article)
  BY <1>7, <1>11, <1>12, <1>14, <1>18 DEF IsOf
<1>20. \A x \in article : ~IsOf(x, v, r) => x \in out  BY <1>1, <1>7
<1>21. ASSUME NEW x \in article, IsOf(x, v, r)
       PROVE  \E y \in out : y.entity = r
  <2>1. CASE x \in now  BY <1>7, <1>12, <2>1
  <2>2. CASE x \notin now
    <3>1. x \in moving \ now  BY <1>1, <1>21, <2>2
    <3>2. Combined(x, r, alone[x]) \in past  BY <1>4, <3>1
    <3>. QED  BY <1>7, <1>11, <3>2
  <2>. QED  BY <2>1, <2>2
<1>22. ASSUME NEW x \in out, x.entity = r, NEW m \in x.mentions
       PROVE  \E row \in article : IsOf(row, v, r) /\ TagComesFrom(m.tag, row, v)
  <2>1. CASE x \in past  BY <1>11, <2>1
  <2>2. CASE now # {} /\ x = one
    <3>1. PICK row \in now : TagComesFrom(m.tag, row, v)  BY <1>12, <2>2
    <3>. QED  BY <1>2, <1>8, <3>1
  <2>. QED  BY <1>17, <1>22, <2>1, <2>2
<1>23. \A x \in out : x.current /\ x.entity = r => now # {} /\ x = one  BY <1>11, <1>17
<1>24. now # {} => \E x \in out : x.current /\ x.entity = r  BY <1>7, <1>12
<1>. QED
  BY <1>12, <1>15, <1>16, <1>19, <1>20, <1>21, <1>22, <1>23, <1>24 DEF MergedFrom

-----------------------------------------------------------------------------
(* Splitting them. *)

HoldsOf(row, v, r) == row.entity = r /\ \E m \in row.mentions : m.tag = v

LEMMA SplitRowsAre ==
  ASSUME NEW article, ArticleIsWell(article), NEW v \in Names, NEW r
  PROVE  SplitRows(article, v, r) = {row \in article : HoldsOf(row, v, r)}
<1>1. v # NoName  BY DEF Names, NoName
<1>2. \A row \in article : row.observed = v => \E m \in row.mentions : m.tag = v
  BY <1>1 DEF ArticleIsWell, RowIsWell
<1>. QED  BY <1>2 DEF SplitRows, HoldsOf

\* Mentions that are not tagged with the entity stay as they are.
LEMMA SameMentions ==
  ASSUME NEW p, IsPart(p), p.observed = NoName, NEW e \in Names, \A m \in p.mentions : m.tag # e,
         NEW parts, parts = {p}
  PROVE  CombinedMentions(e, parts) = p.mentions
<1>1. ASSUME NEW m \in p.mentions
      PROVE  Retagged(m, p, e) = m
  <2>1. TagIn(m, p, e) = m.tag  BY DEF TagIn
  <2>2. m \in Mentions  BY DEF IsPart
  <2>. QED  BY <2>1, <2>2 DEF Retagged, Mentions
<1>2. {Retagged(m, p, e) : m \in p.mentions} = p.mentions  BY <1>1
<1>. QED  BY <1>2, CombinedMentionsAre

\* A row combined from mentions that are not tagged with the entity.
LEMMA CombinedAlone ==
  ASSUME NEW row \in RowShapes, NEW e \in Names,
         NEW mentions \in SUBSET Mentions, IsFiniteSet(mentions), mentions # {}, \A m \in mentions : m.tag # e,
         NEW out, out = Combined(row, e, {[observed |-> NoName, mentions |-> mentions]})
  PROVE  RowIsWell(out) /\ out.entity = e /\ out.current = row.current /\ out.mentions = mentions
<1>1. PICK p : p = [observed |-> NoName, mentions |-> mentions]  OBVIOUS
<1>2. p.observed = NoName /\ p.mentions = mentions  BY <1>1
<1>3. IsPart(p)  BY <1>2 DEF IsPart
<1>4. PICK parts : parts = {p}  OBVIOUS
<1>5. ArePartsOf(parts)  BY <1>3, <1>4, AlonePart
<1>6. CombinedMentions(e, parts) = mentions  BY <1>2, <1>3, <1>4, SameMentions
<1>7. out = Combined(row, e, parts)  BY <1>1, <1>4
<1>. QED  BY <1>5, <1>6, <1>7, CombinedIsWell

\* The row of the variant, and what is left of the root's.
GivenBackFrom(out, row, v, r) ==
  \E back, left \in out :
    /\ \A x \in out : x = back \/ x = left
    /\ RowIsWell(back) /\ back.entity = v /\ back.current = row.current
    /\ \A m \in back.mentions : m.tag = NoName
    /\ left # back =>
         /\ RowIsWell(left) /\ left.entity = r /\ left.current = row.current
         /\ left.mentions \subseteq row.mentions /\ \A m \in left.mentions : m.tag # v
    /\ Said(back) \cup Said(left) = Said(row)
    /\ SaidOnce(row) => SaidApart({back, left})

LEMMA GivenBackIs ==
  ASSUME NEW row, RowIsWell(row), NEW v \in Names, NEW r \in Names, v # r, HoldsOf(row, v, r),
         NEW out, out = GivenBack(row, v, r)
  PROVE  GivenBackFrom(out, row, v, r)
<1>1. /\ row.mentions \in SUBSET Mentions /\ IsFiniteSet(row.mentions) /\ row.mentions # {}
      /\ row.entity = r /\ \A m \in row.mentions : m.tag # r
  BY DEF RowIsWell, Rows, HoldsOf
<1>2. v # NoName /\ NoName \notin Names  BY DEF Names, NoName
<1>3. PICK taken : taken = {m \in row.mentions : m.tag = v}  OBVIOUS
<1>4. PICK kept : kept = row.mentions \ taken  OBVIOUS
<1>5. taken # {}  BY <1>3 DEF HoldsOf
<1>6. PICK own : own = {[m EXCEPT !.tag = NoName] : m \in taken}  OBVIOUS
<1>7. PICK back : back = Combined(row, v, {[observed |-> NoName, mentions |-> own]})  OBVIOUS
<1>8. PICK left : left = IF kept = {} THEN back
                         ELSE Combined(row, r, {[observed |-> NoName, mentions |-> kept]})
  OBVIOUS
<1>9. out = {back, left}
  <2>1. PICK p : p = Part(row, NoName)  OBVIOUS
  <2>2. IsPart(p) /\ p.mentions = row.mentions /\ p.observed = NoName  BY <2>1, PartIsPart
  <2>3. PICK parts : parts = {p}  OBVIOUS
  <2>4. CombinedMentions(r, parts) = row.mentions  BY <1>1, <2>2, <2>3, SameMentions
  <2>5. ~(\A m \in row.mentions : m.tag = NoName)  BY <1>2 DEF HoldsOf
  <2>6. CombinedMentions(r, {Part(row, IF \A m \in row.mentions : m.tag = NoName THEN row.observed ELSE NoName)})
        = row.mentions
    BY <2>1, <2>3, <2>4, <2>5
  <2>. QED  BY <1>3, <1>4, <1>6, <1>7, <1>8, <2>6 DEF GivenBack
<1>10. row \in RowShapes  BY RowIsShaped
<1>11. /\ own \in SUBSET Mentions /\ IsFiniteSet(own) /\ own # {} /\ \A m \in own : m.tag = NoName
  <2>1. PICK bare : bare = [m \in taken |-> [m EXCEPT !.tag = NoName]]  OBVIOUS
  <2>2. IsFiniteSet(taken)  BY <1>1, <1>3, FS_Subset
  <2>3. IsFiniteSet(own)  BY <1>6, <2>1, <2>2, ImageIsFinite
  <2>4. \A m \in taken : [m EXCEPT !.tag = NoName] \in Mentions /\ [m EXCEPT !.tag = NoName].tag = NoName
    BY <1>1, <1>3 DEF Mentions
  <2>. QED  BY <1>5, <1>6, <2>3, <2>4
<1>12. RowIsWell(back) /\ back.entity = v /\ back.current = row.current /\ back.mentions = own
  BY <1>2, <1>7, <1>10, <1>11, CombinedAlone
<1>13. IsFiniteSet(kept) /\ kept \in SUBSET Mentions /\ \A m \in kept : m.tag # r /\ m.tag # v
  BY <1>1, <1>3, <1>4, FS_Subset
<1>14. ASSUME kept # {}
       PROVE  RowIsWell(left) /\ left.entity = r /\ left.current = row.current /\ left.mentions = kept
  BY <1>8, <1>10, <1>13, <1>14, CombinedAlone
<1>15. \A m \in taken : [m EXCEPT !.tag = NoName].of = m.of /\ [m EXCEPT !.tag = NoName].at = m.at
  BY <1>1, <1>3 DEF Mentions
<1>16. Said(back) = {[of |-> m.of, at |-> m.at] : m \in taken}
  <2>1. Said(back) = {[of |-> m.of, at |-> m.at] : m \in own}  BY <1>12 DEF Said
  <2>2. PICK bare : bare = [m \in taken |-> [m EXCEPT !.tag = NoName]]  OBVIOUS
  <2>3. own = {bare[m] : m \in taken} /\ \A m \in taken : bare[m].of = m.of /\ bare[m].at = m.at
    BY <1>6, <1>15, <2>2
  <2>4. \A m \in own : \E o \in taken : [of |-> m.of, at |-> m.at] = [of |-> o.of, at |-> o.at]
    BY <2>3
  <2>5. \A o \in taken : \E m \in own : [of |-> m.of, at |-> m.at] = [of |-> o.of, at |-> o.at]
    BY <2>3
  <2>6. ASSUME NEW s \in Said(back)
        PROVE  \E o \in taken : s = [of |-> o.of, at |-> o.at]
    BY <2>1, <2>4
  <2>7. ASSUME NEW o \in taken
        PROVE  [of |-> o.of, at |-> o.at] \in Said(back)
    BY <2>1, <2>5
  <2>. QED  BY <2>6, <2>7
<1>17. kept # {} => Said(left) = {[of |-> m.of, at |-> m.at] : m \in kept}  BY <1>14 DEF Said
<1>18. Said(back) \cup Said(left) = Said(row)
  <2>1. Said(row) = {[of |-> m.of, at |-> m.at] : m \in taken} \cup {[of |-> m.of, at |-> m.at] : m \in kept}
    BY <1>3, <1>4 DEF Said
  <2>2. CASE kept = {}  BY <1>8, <1>16, <2>1, <2>2
  <2>3. CASE kept # {}  BY <1>16, <1>17, <2>1, <2>3
  <2>. QED  BY <2>2, <2>3
<1>19. ASSUME SaidOnce(row)
       PROVE  SaidApart({back, left})
  <2>1. SaidOnce(back)
    <3>1. ASSUME NEW m \in own, NEW o \in own, m.of = o.of, m.at = o.at
          PROVE  m = o
      <4>1. PICK x \in taken : m = [x EXCEPT !.tag = NoName]  BY <1>6
      <4>2. PICK y \in taken : o = [y EXCEPT !.tag = NoName]  BY <1>6
      <4>3. x.of = y.of /\ x.at = y.at  BY <1>15, <3>1, <4>1, <4>2
      <4>4. x = y  BY <1>3, <1>19, <4>3 DEF SaidOnce
      <4>. QED  BY <4>1, <4>2, <4>4
    <3>. QED  BY <1>12, <3>1 DEF SaidOnce
  <2>2. CASE kept = {}
    <3>1. left = back  BY <1>8, <2>2
    <3>. QED  BY <2>1, <3>1 DEF SaidApart
  <2>3. CASE kept # {}
    <3>1. SaidOnce(left)  BY <1>4, <1>14, <1>19, <2>3 DEF SaidOnce
    <3>2. ASSUME NEW s \in Said(back), s \in Said(left)
          PROVE  FALSE
      <4>1. PICK m \in taken : s = [of |-> m.of, at |-> m.at]  BY <1>16
      <4>2. PICK o \in kept : s = [of |-> o.of, at |-> o.at]  BY <1>17, <2>3, <3>2
      <4>3. m.of = o.of /\ m.at = o.at  BY <4>1, <4>2
      <4>4. m = o  BY <1>3, <1>4, <1>19, <4>3 DEF SaidOnce
      <4>. QED  BY <1>4, <4>4
    <3>. QED  BY <2>1, <3>1, <3>2 DEF SaidApart
  <2>. QED  BY <2>2, <2>3
<1>20. left # back => kept # {}  BY <1>8
<1>. QED
  BY <1>4, <1>9, <1>11, <1>12, <1>13, <1>14, <1>18, <1>19, <1>20 DEF GivenBackFrom

\* Current rows: an entity has one of them, and a mention is in one of them.
OneEach(S) == SaidApart(S) /\ \A one, other \in S : one # other => one.entity # other.entity

SaidIn(S) == UNION {Said(row) : row \in S}

\* A split can give a row back only if the variant has no current row of its own.
MayGiveBack(article, v, r) ==
  \A row, other \in Current(article) : ~(HoldsOf(row, v, r) /\ other.entity = v)

\* What _split_article makes of an article's rows.
SplitFrom(out, article, v, r) ==
  /\ ArticleIsWell(out)
  /\ \A x \in out :
       \/ x \in article /\ ~HoldsOf(x, v, r)
       \/ x.entity = v /\ \A m \in x.mentions : m.tag = NoName
       \/ x.entity = r /\ \A m \in x.mentions : m.tag # v /\ \E row \in article : row.entity = r /\ m \in row.mentions
  /\ \A x \in article : ~HoldsOf(x, v, r) => x \in out
  /\ OneEach(Current(article)) /\ MayGiveBack(article, v, r) =>
       OneEach(Current(out)) /\ SaidIn(Current(out)) = SaidIn(Current(article))

LEMMA SplitArticleIs ==
  ASSUME NEW article, ArticleIsWell(article), NEW v \in Names, NEW r \in Names, v # r,
         NEW out, out = SplitArticle(article, v, r)
  PROVE  SplitFrom(out, article, v, r)
<1>1. PICK held : held = {row \in article : HoldsOf(row, v, r)}  OBVIOUS
<1>2. PICK given : given = [row \in held |-> GivenBack(row, v, r)]  OBVIOUS
<1>3. out = (article \ held) \cup UNION {given[row] : row \in held}
  <2>1. SplitRows(article, v, r) = held  BY <1>1, SplitRowsAre
  <2>. QED  BY <1>2, <2>1 DEF SplitArticle
<1>4. ASSUME NEW row \in held
      PROVE  /\ GivenBackFrom(given[row], row, v, r)
             /\ RowIsWell(row) /\ row \in article /\ row.entity = r
  <2>1. RowIsWell(row) /\ HoldsOf(row, v, r) /\ row \in article  BY <1>1 DEF ArticleIsWell
  <2>2. given[row] = GivenBack(row, v, r)  BY <1>2
  <2>3. GivenBackFrom(given[row], row, v, r)  BY ONLY <2>1, <2>2, GivenBackIs, v \in Names, r \in Names, v # r
  <2>. QED  BY <2>1, <2>3 DEF HoldsOf
<1>5. ASSUME NEW row \in held, NEW x \in given[row]
      PROVE  /\ RowIsWell(x) /\ x.current = row.current
             /\ \/ x.entity = v /\ \A m \in x.mentions : m.tag = NoName
                \/ x.entity = r /\ \A m \in x.mentions : m.tag # v /\ m \in row.mentions
  <2>1. GivenBackFrom(given[row], row, v, r)  BY <1>4
  <2>2. PICK back \in given[row], left \in given[row] :
          /\ \A y \in given[row] : y = back \/ y = left
          /\ RowIsWell(back) /\ back.entity = v /\ back.current = row.current
          /\ \A m \in back.mentions : m.tag = NoName
          /\ left # back =>
               /\ RowIsWell(left) /\ left.entity = r /\ left.current = row.current
               /\ left.mentions \subseteq row.mentions /\ \A m \in left.mentions : m.tag # v
    BY <2>1 DEF GivenBackFrom
  <2>3. CASE x = back  BY <2>2, <2>3
  <2>4. CASE x # back  BY <2>2, <2>4
  <2>. QED  BY <2>3, <2>4
<1>6. ArticleIsWell(out)
  <2>1. PICK all : all = {given[row] : row \in held}  OBVIOUS
  <2>2. IsFiniteSet(held) /\ IsFiniteSet(article \ held)  BY <1>1, FS_Subset DEF ArticleIsWell
  <2>3. IsFiniteSet(all)  BY <1>2, <2>1, <2>2, ImageIsFinite
  <2>4. ASSUME NEW row \in held
        PROVE  IsFiniteSet(given[row])
    <3>4. GivenBackFrom(given[row], row, v, r)  BY <1>4
    <3>1. PICK back \in given[row], left \in given[row] :
            (\A x \in given[row] : x = back \/ x = left) /\ RowIsWell(back)
      BY <3>4 DEF GivenBackFrom
    <3>2. IsFiniteSet({back} \cup {left})  BY FS_Singleton, FS_Union
    <3>3. given[row] \in SUBSET ({back} \cup {left})  BY <3>1
    <3>. QED  BY <3>2, <3>3, FS_Subset
  <2>5. IsFiniteSet(UNION all)  BY <2>1, <2>3, <2>4, FS_UNION
  <2>6. out = (article \ held) \cup UNION all  BY <1>3, <2>1
  <2>7. IsFiniteSet(out)  BY <2>2, <2>5, <2>6, FS_Union
  <2>. QED  BY <1>3, <1>5, <2>7 DEF ArticleIsWell
<1>7. ASSUME NEW x \in out
      PROVE  \/ x \in article /\ ~HoldsOf(x, v, r)
             \/ x.entity = v /\ \A m \in x.mentions : m.tag = NoName
             \/ x.entity = r /\ \A m \in x.mentions : m.tag # v /\ \E row \in article : row.entity = r /\ m \in row.mentions
  <2>1. CASE x \in article \ held  BY <1>1, <2>1
  <2>2. CASE x \notin article \ held
    <3>1. PICK row \in held : x \in given[row]  BY <1>3, <2>2
    <3>. QED  BY <1>4, <1>5, <3>1
  <2>. QED  BY <2>1, <2>2
<1>8. \A x \in article : ~HoldsOf(x, v, r) => x \in out  BY <1>1, <1>3
<1>9. ASSUME OneEach(Current(article)), MayGiveBack(article, v, r)
      PROVE  OneEach(Current(out)) /\ SaidIn(Current(out)) = SaidIn(Current(article))
  <2>1. CASE \A row \in held : ~row.current
    <3>1. Current(out) = Current(article)
      BY <1>1, <1>3, <1>5, <2>1 DEF Current
    <3>. QED  BY <1>9, <3>1
  <2>2. CASE \E row \in held : row.current
    <3>1. PICK row \in held : row.current  BY <2>2
    <3>2. row \in Current(article) /\ HoldsOf(row, v, r)  BY <1>1, <3>1 DEF Current
    <3>3. PICK back \in given[row], left \in given[row] :
            /\ \A x \in given[row] : x = back \/ x = left
            /\ back.entity = v /\ (left # back => left.entity = r)
            /\ Said(back) \cup Said(left) = Said(row)
            /\ SaidOnce(row) => SaidApart({back, left})
      BY <1>4 DEF GivenBackFrom
    <3>4. PICK rest : rest = Current(article) \ {row}  OBVIOUS
    <3>5. \A x \in held : x.current => x = row
      BY <1>1, <1>9, <3>1, <3>2 DEF Current, OneEach, HoldsOf
    <3>6. ASSUME NEW x \in Current(out)
          PROVE  x \in rest \/ x = back \/ x = left
      <4>1. CASE x \in article \ held  BY <1>1, <3>2, <3>4, <4>1 DEF Current
      <4>2. CASE x \notin article \ held
        <5>1. PICK other \in held : x \in given[other]  BY <1>3, <4>2 DEF Current
        <5>2. other.current  BY <1>5, <5>1 DEF Current
        <5>. QED  BY <3>3, <3>5, <5>1, <5>2
      <4>. QED  BY <4>1, <4>2
    <3>7. rest \subseteq Current(out)  BY <1>1, <1>3, <3>4, <3>5 DEF Current
    <3>8. back \in Current(out) /\ left \in Current(out)  BY <1>3, <1>5, <3>1, <3>3 DEF Current
    <3>9. Current(out) = rest \cup {back, left}  BY <3>6, <3>7, <3>8
    <3>10. \A x \in rest : x.entity # v /\ x.entity # r
      BY <1>9, <3>2, <3>4 DEF MayGiveBack, OneEach, HoldsOf
    <3>11. SaidApart({back, left})  BY <1>9, <3>2, <3>3 DEF OneEach, SaidApart
    <3>12. \A x \in rest : Said(x) \cap Said(row) = {}  BY <1>9, <3>2, <3>4 DEF OneEach, SaidApart
    <3>13. \A x \in rest : Said(x) \cap Said(back) = {} /\ Said(x) \cap Said(left) = {}
      BY <3>3, <3>12
    <3>14. SaidApart(rest)  BY <1>9, <3>4 DEF OneEach, SaidApart
    <3>15. SaidApart(Current(out))  BY <3>9, <3>11, <3>13, <3>14 DEF SaidApart
    <3>16. \A one, other \in Current(out) : one # other => one.entity # other.entity
      BY <1>9, <3>3, <3>4, <3>9, <3>10 DEF OneEach
    <3>17. SaidIn(Current(out)) = SaidIn(rest) \cup Said(back) \cup Said(left)  BY <3>9 DEF SaidIn
    <3>18. SaidIn(Current(article)) = SaidIn(rest) \cup Said(row)  BY <3>2, <3>4 DEF SaidIn
    <3>. QED  BY <3>3, <3>15, <3>16, <3>17, <3>18 DEF OneEach
  <2>. QED  BY <2>1, <2>2
<1>. QED  BY <1>6, <1>7, <1>8, <1>9 DEF SplitFrom

\* A merge keeps each mention in one current row, too.
LEMMA MergedStayApart ==
  ASSUME NEW article, NEW v \in Names, NEW r \in Names, v # r, NEW out, MergedFrom(out, article, v, r),
         OneEach(Current(article))
  PROVE  OneEach(Current(out)) /\ SaidIn(Current(out)) = SaidIn(Current(article))
<1>1. PICK now : now = {row \in Current(article) : IsOf(row, v, r)}  OBVIOUS
<1>2. PICK rest : rest = Current(article) \ now  OBVIOUS
<1>3. SaidApart(now) /\ SaidApart(rest) /\ Current(article) = rest \cup now
  BY <1>1, <1>2 DEF OneEach, SaidApart
<1>4. /\ \A x \in out : x.entity = r \/ (x.entity # v /\ x \in article)
      /\ \A x \in article : ~IsOf(x, v, r) => x \in out
      /\ \A x, y \in out : x.current /\ y.current /\ x.entity = r /\ y.entity = r => x = y
      /\ \A x \in out : x.current /\ x.entity = r => Said(x) = SaidIn(now) /\ SaidOnce(x)
      /\ now # {} => \E x \in out : x.current /\ x.entity = r
  BY <1>1, <1>3 DEF MergedFrom, SaidIn
<1>5. rest \subseteq Current(out)  BY <1>1, <1>2, <1>4 DEF Current
<1>6. \A x \in rest : x.entity # r  BY <1>1, <1>2 DEF IsOf
<1>7. \A x \in Current(out) : x \in rest \/ x.entity = r
  BY <1>1, <1>2, <1>4 DEF Current, IsOf
<1>8. ASSUME NEW x \in rest
      PROVE  Said(x) \cap SaidIn(now) = {}
  BY <1>1, <1>2 DEF OneEach, SaidApart, SaidIn
<1>9. SaidApart(Current(out))
  <2>1. \A x \in Current(out) : SaidOnce(x)  BY <1>3, <1>4, <1>7 DEF SaidApart, Current
  <2>2. ASSUME NEW x \in Current(out), NEW y \in Current(out), x # y
        PROVE  Said(x) \cap Said(y) = {}
    <3>1. CASE x \in rest /\ y \in rest  BY <1>3, <2>2, <3>1 DEF SaidApart
    <3>2. CASE x \in rest /\ y \notin rest  BY <1>4, <1>7, <1>8, <3>2 DEF Current
    <3>3. CASE x \notin rest /\ y \in rest  BY <1>4, <1>7, <1>8, <3>3 DEF Current
    <3>4. CASE x \notin rest /\ y \notin rest  BY <1>4, <1>7, <2>2, <3>4 DEF Current
    <3>. QED  BY <3>1, <3>2, <3>3, <3>4
  <2>. QED  BY <2>1, <2>2 DEF SaidApart
<1>10. ASSUME NEW x \in Current(out), NEW y \in Current(out), x # y
       PROVE  x.entity # y.entity
  BY <1>2, <1>4, <1>6, <1>7, <1>10 DEF Current, OneEach
<1>11. SaidIn(Current(out)) = SaidIn(Current(article))
  <2>1. SaidIn(Current(article)) = SaidIn(rest) \cup SaidIn(now)  BY <1>3 DEF SaidIn
  <2>2. SaidIn(rest) \subseteq SaidIn(Current(out))  BY <1>5 DEF SaidIn
  <2>3. SaidIn(now) \subseteq SaidIn(Current(out))
    <3>1. CASE now = {}  BY <3>1 DEF SaidIn
    <3>2. CASE now # {}
      <4>1. PICK x \in out : x.current /\ x.entity = r  BY <1>4, <3>2
      <4>2. x \in Current(out) /\ Said(x) = SaidIn(now)  BY <1>4, <4>1 DEF Current
      <4>. QED  BY <4>2 DEF SaidIn
    <3>. QED  BY <3>1, <3>2
  <2>4. ASSUME NEW x \in Current(out)
        PROVE  Said(x) \subseteq SaidIn(rest) \cup SaidIn(now)
    <3>1. CASE x \in rest  BY <3>1 DEF SaidIn
    <3>2. CASE x \notin rest  BY <1>4, <1>7, <3>2 DEF Current
    <3>. QED  BY <3>1, <3>2
  <2>5. SaidIn(Current(out)) \subseteq SaidIn(rest) \cup SaidIn(now)  BY <2>4 DEF SaidIn
  <2>. QED  BY <2>1, <2>2, <2>3, <2>5
<1>. QED  BY <1>9, <1>10, <1>11 DEF OneEach

-----------------------------------------------------------------------------
(* The rows NER publishes. *)

Found(found) == UNION {{[of |-> n, at |-> k] : k \in 1..found[n]} : n \in Names}

PublishedFrom(out, f, found) ==
  /\ ArticleIsWell(out) /\ OneEach(out)
  /\ \A x \in out :
       /\ x.current /\ RootIn(f, x.entity)
       /\ \A m \in x.mentions : m.tag # NoName => m.tag \in f.known /\ RootOf(f, m.tag) = x.entity
  /\ SaidIn(out) = Found(found)

LEMMA PublishedRowsAre ==
  ASSUME NEW f, Sound(f), NEW found \in [Names -> Nat], \A n \in Names : found[n] > 0 => n \in f.known,
         NEW out, out = PublishedRows(f, found)
  PROVE  PublishedFrom(out, f, found)
<1>1. PICK used : used = {n \in Names : found[n] > 0}  OBVIOUS
<1>2. PICK part : part = [n \in used |->
        [observed |-> IF f.authority[n] = NoName THEN NoName ELSE n,
         mentions |-> {[of |-> n, at |-> k, tag |-> NoName] : k \in 1..found[n]}]]
  OBVIOUS
<1>3. PICK roots : roots = {RootOf(f, n) : n \in used}  OBVIOUS
<1>4. PICK blank : blank = [entity |-> NoName, observed |-> NoName, mentions |-> {}, current |-> TRUE]
  OBVIOUS
<1>5. PICK parts : parts = [r \in roots |-> {part[n] : n \in {x \in used : RootOf(f, x) = r}}]  OBVIOUS
<1>6. PICK row : row = [r \in roots |-> Combined(blank, r, parts[r])]  OBVIOUS
<1>7. out = {row[r] : r \in roots}
  <2>1. out = {Combined(blank, r, {[observed |-> IF f.authority[n] = NoName THEN NoName ELSE n,
                                    mentions |-> {[of |-> n, at |-> k, tag |-> NoName] : k \in 1..found[n]}] :
                                   n \in {x \in used : RootOf(f, x) = r}}) : r \in roots}
    BY <1>1, <1>3, <1>4 DEF PublishedRows
  <2>. DEFINE mine(r) == {[observed |-> IF f.authority[n] = NoName THEN NoName ELSE n,
                           mentions |-> {[of |-> n, at |-> k, tag |-> NoName] : k \in 1..found[n]}] :
                          n \in {x \in used : RootOf(f, x) = r}}
  <2>2. ASSUME NEW r \in roots
        PROVE  parts[r] = mine(r)
    <3>1. \A n \in used : part[n] = [observed |-> IF f.authority[n] = NoName THEN NoName ELSE n,
                                    mentions |-> {[of |-> n, at |-> k, tag |-> NoName] : k \in 1..found[n]}]
      BY <1>2
    <3>. QED  BY <1>5, <3>1
  <2>3. out = {Combined(blank, r, mine(r)) : r \in roots}  BY <2>1
  <2>. HIDE DEF mine
  <2>4. \A r \in roots : row[r] = Combined(blank, r, mine(r))  BY <1>6, <2>2
  <2>. QED  BY <2>3, <2>4
<1>8. blank \in RowShapes /\ blank.current  BY <1>4 DEF RowShapes
<1>9. NoName \notin Names /\ Names \subseteq Nat /\ IsFiniteSet(Names)
  <2>1. LastName \in Nat  BY AuthorityFileConstants
  <2>2. IsFiniteSet(1..LastName)  BY ONLY <2>1, FS_Interval
  <2>. QED  BY <2>1, <2>2 DEF Names, NoName
<1>10. used \subseteq Names /\ used \subseteq f.known /\ IsFiniteSet(used)  BY <1>1, <1>9, FS_Subset
<1>11. \A n \in used : RootOf(f, n) \in Names /\ RootIn(f, RootOf(f, n)) /\ RootOf(f, n) \in roots
  BY <1>3, <1>10, RootOfIsRoot
<1>12. \A r \in roots : r \in Names /\ RootIn(f, r)  BY <1>3, <1>11
<1>13. ASSUME NEW n \in used
       PROVE  /\ IsPart(part[n]) /\ SaidOnce(part[n])
              /\ part[n].observed = (IF f.authority[n] = NoName THEN NoName ELSE n)
              /\ part[n].mentions = {[of |-> n, at |-> k, tag |-> NoName] : k \in 1..found[n]}
              /\ Said(part[n]) = {[of |-> n, at |-> k] : k \in 1..found[n]}
              /\ \A m \in part[n].mentions : m.tag = NoName /\ m.of = n
  <2>1. PICK mention : mention = [k \in 1..found[n] |-> [of |-> n, at |-> k, tag |-> NoName]]  OBVIOUS
  <2>2. PICK mentions : mentions = {mention[k] : k \in 1..found[n]}  OBVIOUS
  <2>3. n \in Names /\ found[n] \in Nat /\ found[n] > 0  BY <1>1
  <2>4. IsFiniteSet(1..found[n]) /\ 1 \in 1..found[n]
    <3>1. IsFiniteSet(1..found[n])  BY ONLY <2>3, FS_Interval
    <3>. QED  BY <2>3, <3>1
  <2>5. IsFiniteSet(mentions)
    <3>1. DOMAIN mention = 1..found[n] /\ mention = [k \in DOMAIN mention |-> mention[k]]  BY <2>1
    <3>. QED  BY <2>2, <2>4, <3>1, ImageIsFinite
  <2>6. \A k \in 1..found[n] : /\ mention[k] \in Mentions /\ mention[k].of = n /\ mention[k].at = k
                               /\ mention[k].tag = NoName
    BY <2>1, <2>3 DEF Mentions
  <2>7. mentions # {} /\ mentions \subseteq Mentions  BY <2>2, <2>4, <2>6
  <2>8. part[n].mentions = mentions /\ part[n].observed = (IF f.authority[n] = NoName THEN NoName ELSE n)
    BY <1>2, <2>1, <2>2
  <2>9. IsPart(part[n])  BY <2>3, <2>5, <2>7, <2>8 DEF IsPart
  <2>10. SaidOnce(part[n])  BY <2>2, <2>6, <2>8 DEF SaidOnce
  <2>11. Said(part[n]) = {[of |-> n, at |-> k] : k \in 1..found[n]}
    <3>1. \A k \in 1..found[n] : [of |-> mention[k].of, at |-> mention[k].at] = [of |-> n, at |-> k]
      BY <2>6
    <3>2. ASSUME NEW s \in Said(part[n])
          PROVE  \E k \in 1..found[n] : s = [of |-> n, at |-> k]
      <4>1. PICK m \in mentions : s = [of |-> m.of, at |-> m.at]  BY <2>8, <3>2 DEF Said
      <4>2. PICK k \in 1..found[n] : m = mention[k]  BY <2>2
      <4>. QED  BY <3>1, <4>1, <4>2
    <3>3. ASSUME NEW k \in 1..found[n]
          PROVE  [of |-> n, at |-> k] \in Said(part[n])
      BY <2>2, <2>8, <3>1 DEF Said
    <3>. QED  BY <3>2, <3>3
  <2>. QED  BY <2>1, <2>2, <2>6, <2>8, <2>9, <2>10, <2>11
<1>14. ASSUME NEW r \in roots
       PROVE  /\ ArePartsOf(parts[r])
              /\ \A p \in parts[r] : \E n \in used : p = part[n] /\ RootOf(f, n) = r
              /\ \A n \in used : RootOf(f, n) = r => part[n] \in parts[r]
  <2>1. PICK of : of = {x \in used : RootOf(f, x) = r}  OBVIOUS
  <2>2. PICK mine : mine = [n \in of |-> part[n]]  OBVIOUS
  <2>3. parts[r] = {mine[n] : n \in of}  BY <1>5, <2>1, <2>2
  <2>4. IsFiniteSet(of)  BY <1>10, <2>1, FS_Subset
  <2>5. IsFiniteSet(parts[r])  BY <2>2, <2>3, <2>4, ImageIsFinite
  <2>6. of # {}  BY <1>3, <2>1
  <2>7. \A p \in parts[r] : IsPart(p)  BY <1>13, <2>1, <2>2, <2>3
  <2>. QED  BY <2>1, <2>2, <2>3, <2>5, <2>6, <2>7 DEF ArePartsOf
<1>15. ASSUME NEW r \in roots
       PROVE  SaidApart(parts[r])
  <2>1. ASSUME NEW p \in parts[r], NEW q \in parts[r], NEW s \in Said(p), s \in Said(q)
        PROVE  p = q
    <3>1. PICK n \in used, o \in used : p = part[n] /\ q = part[o]  BY <1>14
    <3>2. PICK k \in 1..found[n] : s = [of |-> n, at |-> k]  BY <1>13, <2>1, <3>1
    <3>3. PICK l \in 1..found[o] : s = [of |-> o, at |-> l]  BY <1>13, <2>1, <3>1
    <3>4. n = o  BY <3>2, <3>3
    <3>. QED  BY <3>1, <3>4
  <2>2. \A p \in parts[r] : SaidOnce(p)  BY <1>13, <1>14
  <2>. QED  BY <2>1, <2>2 DEF SaidApart
<1>16. ASSUME NEW r \in roots
       PROVE  /\ RowIsWell(row[r]) /\ row[r].entity = r /\ row[r].current
              /\ row[r].mentions = CombinedMentions(r, parts[r])
              /\ Said(row[r]) = UNION {Said(p) : p \in parts[r]} /\ SaidOnce(row[r])
  <2>1. row[r] = Combined(blank, r, parts[r])  BY <1>6
  <2>2. r \in Names /\ ArePartsOf(parts[r]) /\ SaidApart(parts[r])  BY <1>12, <1>14, <1>15
  <2>. QED  BY <1>8, <2>1, <2>2, CombinedIsWell, CombinedSays
<1>17. ASSUME NEW r \in roots, NEW m \in row[r].mentions, m.tag # NoName
       PROVE  m.tag \in f.known /\ RootOf(f, m.tag) = r
  <2>1. PICK p \in parts[r] : \E o \in p.mentions : m = Retagged(o, p, r)  BY <1>16, CombinedMentionsAre
  <2>2. PICK o \in p.mentions : m = Retagged(o, p, r)  BY <2>1
  <2>3. PICK n \in used : p = part[n] /\ RootOf(f, n) = r  BY <1>14
  <2>4. m.tag = TagIn(o, p, r)  BY <1>13, <2>2, <2>3, RetaggedIsMention DEF IsPart
  <2>5. o.tag = NoName /\ (p.observed = NoName \/ p.observed = n)  BY <1>13, <2>3
  <2>6. m.tag = n  BY <1>17, <2>4, <2>5 DEF TagIn
  <2>. QED  BY <1>10, <2>3, <2>6
<1>18. ArticleIsWell(out)
  <2>1. IsFiniteSet(roots)
    <3>1. PICK root : root = [n \in used |-> RootOf(f, n)]  OBVIOUS
    <3>. QED  BY <1>3, <1>10, <3>1, ImageIsFinite
  <2>2. IsFiniteSet(out)  BY <1>6, <1>7, <2>1, ImageIsFinite
  <2>. QED  BY <1>7, <1>16, <2>2 DEF ArticleIsWell
<1>19. ASSUME NEW r \in roots, NEW s
       PROVE  s \in Said(row[r]) <=> \E n \in used : RootOf(f, n) = r /\ \E k \in 1..found[n] : s = [of |-> n, at |-> k]
  <2>1. s \in Said(row[r]) <=> \E p \in parts[r] : s \in Said(p)  BY <1>16
  <2>2. (\E p \in parts[r] : s \in Said(p)) <=> \E n \in used : RootOf(f, n) = r /\ s \in Said(part[n])
    BY <1>14
  <2>3. \A n \in used : s \in Said(part[n]) <=> \E k \in 1..found[n] : s = [of |-> n, at |-> k]
    BY <1>13
  <2>. QED  BY <2>1, <2>2, <2>3
<1>20. OneEach(out)
  <2>1. ASSUME NEW x \in out, NEW y \in out, x # y
        PROVE  x.entity # y.entity /\ Said(x) \cap Said(y) = {}
    <3>1. PICK r \in roots, q \in roots : x = row[r] /\ y = row[q]  BY <1>7
    <3>2. r # q  BY <2>1, <3>1
    <3>3. ASSUME NEW s \in Said(row[r]), s \in Said(row[q])
          PROVE  FALSE
      <4>1. PICK n \in used : RootOf(f, n) = r /\ \E k \in 1..found[n] : s = [of |-> n, at |-> k]
        BY <1>19, <3>3
      <4>2. PICK o \in used : RootOf(f, o) = q /\ \E k \in 1..found[o] : s = [of |-> o, at |-> k]
        BY <1>19, <3>3
      <4>3. n = o
        <5>1. PICK k : s = [of |-> n, at |-> k]  BY <4>1
        <5>2. PICK l : s = [of |-> o, at |-> l]  BY <4>2
        <5>. QED  BY <5>1, <5>2
      <4>. QED  BY <3>2, <4>1, <4>2, <4>3
    <3>. QED  BY <1>16, <3>1, <3>2, <3>3
  <2>2. \A x \in out : SaidOnce(x)  BY <1>7, <1>16
  <2>. QED  BY <2>1, <2>2 DEF OneEach, SaidApart
<1>21. SaidIn(out) = Found(found)
  <2>1. ASSUME NEW s \in SaidIn(out)
        PROVE  s \in Found(found)
    <3>1. PICK r \in roots : s \in Said(row[r])  BY <1>7, <2>1 DEF SaidIn
    <3>2. PICK n \in used : \E k \in 1..found[n] : s = [of |-> n, at |-> k]  BY <1>19, <3>1
    <3>. QED  BY <1>10, <3>2 DEF Found
  <2>2. ASSUME NEW s \in Found(found)
        PROVE  s \in SaidIn(out)
    <3>1. PICK n \in Names : \E k \in 1..found[n] : s = [of |-> n, at |-> k]  BY <2>2 DEF Found
    <3>2. n \in used  BY <1>1, <3>1
    <3>3. s \in Said(row[RootOf(f, n)])  BY <1>11, <1>19, <3>1, <3>2
    <3>. QED  BY <1>7, <1>11, <3>2, <3>3 DEF SaidIn
  <2>. QED  BY <2>1, <2>2
<1>22. \A x \in out : x.current /\ RootIn(f, x.entity)  BY <1>7, <1>12, <1>16
<1>23. \A x \in out : \A m \in x.mentions : m.tag # NoName => m.tag \in f.known /\ RootOf(f, m.tag) = x.entity
  BY <1>7, <1>16, <1>17
<1>. QED  BY <1>18, <1>20, <1>21, <1>22, <1>23 DEF PublishedFrom

-----------------------------------------------------------------------------
(* Types: rows are rows of names there are, whatever is merged, split and published. *)

RunsNamed(f, rs) ==
  \A i \in DOMAIN rs :
    /\ rs[i].entity \in f.known /\ rs[i].root \in f.known
    /\ rs[i].kind # "reindex" => rs[i].entity # rs[i].root
    /\ rs[i].kind = "reindex" => rs[i].phase = "reindex"

RowsNamed(f, article) == \A row \in article : row.entity \in f.known

ArchiveIsTyped ==
  /\ RunsNamed(file, runs) /\ due \subseteq DOMAIN runs
  /\ rows \in [Articles -> SUBSET Rows]
  /\ \A a \in Articles : ArticleIsWell(rows[a]) /\ RowsNamed(file, rows[a])

\* next is rs and one more run, its last.
OneMoreRun(next, rs, run, last, kind, e, r) ==
  /\ next = Append(rs, NewRun(kind, e, r)) /\ next \in Seq(Runs) /\ run \in Runs
  /\ run.kind = kind /\ run.entity = e /\ run.root = r /\ run.status = "running"
  /\ run.after = 0 /\ run.phase = (IF kind = "reindex" THEN "reindex" ELSE "move")
  /\ next[last] = run /\ last \in Nat /\ last \notin DOMAIN rs /\ DOMAIN next = DOMAIN rs \cup {last}
  /\ \A i \in DOMAIN rs : next[i] = rs[i] /\ i \in Nat /\ i < last

LEMMA AppendedRun ==
  ASSUME NEW rs \in Seq(Runs), NEW kind \in {"merge", "split", "reindex"}, NEW e \in Names, NEW r \in Names,
         NEW next, next = Append(rs, NewRun(kind, e, r))
  PROVE  \E run, last : OneMoreRun(next, rs, run, last, kind, e, r)
<1>1. PICK run \in Runs : run = NewRun(kind, e, r)  BY NewRunIsOne
<1>2. PICK last : last = Len(rs) + 1  OBVIOUS
<1>3. next = Append(rs, run) /\ run \in Runs  BY <1>1
<1>4. /\ next \in Seq(Runs)
      /\ next[last] = run /\ last \in Nat /\ last \notin DOMAIN rs /\ DOMAIN next = DOMAIN rs \cup {last}
      /\ \A i \in DOMAIN rs : next[i] = rs[i] /\ i \in Nat /\ i < last
  BY <1>2, <1>3
<1>5. /\ run.kind = kind /\ run.entity = e /\ run.root = r /\ run.status = "running"
      /\ run.after = 0 /\ run.phase = (IF kind = "reindex" THEN "reindex" ELSE "move")
  BY <1>1 DEF NewRun
<1>. QED  BY <1>4, <1>5 DEF OneMoreRun

LEMMA RunsNamedGrow ==
  ASSUME NEW f, NEW rs, RunsNamed(f, rs), NEW g, f.known \subseteq g.known,
         NEW next, NEW run, NEW last, NEW kind, NEW e, NEW r, OneMoreRun(next, rs, run, last, kind, e, r),
         e \in g.known, r \in g.known, kind # "reindex" => e # r
  PROVE  RunsNamed(g, next) /\ DOMAIN rs \subseteq DOMAIN next
BY DEF RunsNamed, OneMoreRun

\* The changes under which the rows that are there stay typed.
TypedChanges ==
  {c \in Changes : /\ Sound(c.file) /\ RunsNamed(c.file, c.runs) /\ due \subseteq DOMAIN c.runs
                   /\ \A a \in Articles : RowsNamed(c.file, rows[a])}

LEMMA TypedChangesClosed ==
  Closed(TypedChanges) /\ \A r \in Names : ClosedBetween(TypedChanges, TypedChanges, r)
<1>1. ASSUME NEW c \in TypedChanges, NEW d \in Changes, Sound(d.file), c.file.known \subseteq d.file.known,
             \/ d.runs = c.runs
             \/ \E kind \in {"merge", "reindex"}, e, r \in Names :
                  /\ d.runs = Append(c.runs, NewRun(kind, e, r)) /\ e \in d.file.known /\ r \in d.file.known
                  /\ kind # "reindex" => e # r
      PROVE  d \in TypedChanges
  <2>1. c.runs \in Seq(Runs) /\ RunsNamed(c.file, c.runs)  BY DEF TypedChanges, Changes
  <2>2. RunsNamed(d.file, d.runs) /\ DOMAIN c.runs \subseteq DOMAIN d.runs
    <3>1. CASE d.runs = c.runs  BY <1>1, <2>1, <3>1 DEF RunsNamed
    <3>2. CASE d.runs # c.runs
      <4>1. PICK kind \in {"merge", "reindex"}, e \in Names, r \in Names :
               /\ d.runs = Append(c.runs, NewRun(kind, e, r)) /\ e \in d.file.known /\ r \in d.file.known
               /\ kind # "reindex" => e # r
        BY <1>1, <3>2
      <4>6. PICK f, g, next : f = c.file /\ g = d.file /\ next = d.runs  OBVIOUS
      <4>7. PICK rs \in Seq(Runs) : rs = c.runs  BY <2>1
      <4>2. f = c.file /\ g = d.file /\ rs = c.runs /\ next = d.runs  BY <4>6, <4>7
      <4>3. PICK run, last : OneMoreRun(next, rs, run, last, kind, e, r)  BY <4>1, <4>2, AppendedRun
      <4>4. /\ RunsNamed(f, rs) /\ f.known \subseteq g.known /\ e \in g.known /\ r \in g.known
            /\ kind # "reindex" => e # r
        BY <1>1, <2>1, <4>1, <4>2
      <4>5. RunsNamed(g, next) /\ DOMAIN rs \subseteq DOMAIN next  BY ONLY <4>3, <4>4, RunsNamedGrow
      <4>. QED  BY <4>2, <4>5
    <3>. QED  BY <3>1, <3>2
  <2>. QED  BY <1>1, <2>2 DEF TypedChanges, RowsNamed
<1>2. ASSUME NEW c \in TypedChanges, NEW d \in Changes, Sound(d.file), Aside(c, d)
      PROVE  d \in TypedChanges
  BY <1>1, <1>2 DEF Aside
<1>3. ASSUME NEW c \in TypedChanges, NEW d \in Changes, Sound(d.file), NEW n \in Names, Marking(c, d, n)
      PROVE  d \in TypedChanges
  BY <1>1, <1>3 DEF Marking, RootIn
<1>4. ASSUME NEW c \in TypedChanges, NEW d \in Changes, Sound(d.file), NEW v \in Names, NEW r \in Names,
             Merging(c, d, v, r)
      PROVE  d \in TypedChanges
  <2>1. Sound(c.file)  BY DEF TypedChanges
  <2>2. d.file.known = c.file.known  BY <1>4, <2>1, JoinedIsSound DEF Merging
  <2>. QED  BY <1>1, <1>4, <2>2 DEF Merging, RootIn
<1>5. ASSUME NEW c \in TypedChanges, NEW d \in Changes, Sound(d.file), NEW v \in Names, NEW r \in Names,
             Adopting(c, d, v, r)
      PROVE  d \in TypedChanges
  <2>1. Sound(c.file)  BY DEF TypedChanges
  <2>2. PICK f : f = Created(c.file, v)  OBVIOUS
  <2>3. Sound(f) /\ c.file.known \subseteq f.known  BY <2>1, <2>2, CreatedIsSound
  <2>4. PICK g : g = Joined(f, v, r)  OBVIOUS
  <2>5. g.known = f.known  BY <2>3, <2>4 DEF Joined, Sound, Files
  <2>. QED  BY <1>1, <1>5, <2>2, <2>3, <2>4, <2>5 DEF Adopting
<1>6. ASSUME NEW c \in TypedChanges, NEW d \in Changes, Sound(d.file), NEW r \in Names,
             RootIn(c.file, r), d.file = c.file, d.runs = Append(c.runs, NewRun("reindex", r, r))
      PROVE  d \in TypedChanges
  BY <1>1, <1>6 DEF RootIn
<1>7. TypedChanges \subseteq {c \in Changes : Sound(c.file)}  BY DEF TypedChanges
<1>8. PICK Good : Good = TypedChanges  OBVIOUS
<1>9. Closed(Good)  BY <1>2, <1>3, <1>4, <1>5, <1>7, <1>8 DEF Closed
<1>10. \A r \in Names : ClosedBetween(Good, Good, r)  BY <1>5, <1>6, <1>7, <1>8 DEF ClosedBetween
<1>. QED  BY <1>8, <1>9, <1>10

LEMMA RequestKeepsTypes ==
  ASSUME FileIsSound, ArchiveIsTyped, Request
  PROVE  ArchiveIsTyped'
<1>1. PICK Good : Good = TypedChanges  OBVIOUS
<1>2. Closed(Good) /\ \A r \in Names : ClosedBetween(Good, Good, r)  BY <1>1, TypedChangesClosed
<1>3. Here \in Good
  BY <1>1 DEF FileIsSound, FileTypes, ArchiveIsTyped, TypedChanges, Here, Change, Changes, Sound
<1>4. Here' \in Good  BY <1>2, <1>3, RequestStays
<1>5. Here' = [file |-> file', runs |-> runs', silent |-> silent']  BY DEF Here, Change
<1>6. /\ RunsNamed(file', runs') /\ due \subseteq DOMAIN runs'
      /\ \A a \in Articles : RowsNamed(file', rows[a])
  BY <1>1, <1>4, <1>5 DEF TypedChanges
<1>7. UNCHANGED <<rows, due>>  BY RequestFrame
<1>. QED  BY <1>6, <1>7 DEF ArchiveIsTyped

LEMMA SplitKeepsTypes ==
  ASSUME FileIsSound, ArchiveIsTyped, NEW v \in Names, Split(v)
  PROVE  ArchiveIsTyped'
<1>1. PICK f \in Files, rs \in Seq(Runs) : f = file /\ rs = runs
  BY DEF FileIsSound, FileTypes, Sound
<1>2. PICK r : r = f.authority[v]  OBVIOUS
<1>3. /\ r # NoName /\ file' = [f EXCEPT !.authority[v] = NoName]
      /\ runs' = Append(rs, NewRun("split", v, r)) /\ UNCHANGED <<rows, due>>
  BY <1>1, <1>2 DEF Split, Started
<1>4. PICK g : g = file'  OBVIOUS
<1>5. g.known = f.known  BY <1>3, <1>4 DEF Files
<1>6. v \in f.known /\ r \in f.known /\ f.authority[r] = NoName /\ r \in Names
  BY <1>1, <1>2, <1>3 DEF FileIsSound, Sound, RootIn, Files
<1>7. v # r  BY <1>2, <1>3, <1>6
<1>8. PICK next : next = runs'  OBVIOUS
<1>9. RunsNamed(g, next) /\ DOMAIN rs \subseteq DOMAIN next
  <2>1. RunsNamed(f, rs) /\ f.known \subseteq g.known /\ v \in g.known /\ r \in g.known
    BY <1>1, <1>5, <1>6 DEF ArchiveIsTyped
  <2>2. PICK run, last : OneMoreRun(next, rs, run, last, "split", v, r)
    BY <1>3, <1>6, <1>8, AppendedRun
  <2>. QED  BY ONLY <1>7, <2>1, <2>2, RunsNamedGrow
<1>10. \A a \in Articles : RowsNamed(g, rows[a])  BY <1>1, <1>5 DEF ArchiveIsTyped, RowsNamed
<1>. QED  BY <1>1, <1>3, <1>4, <1>8, <1>9, <1>10 DEF ArchiveIsTyped

\* NER reads an article: the rows before are past, the new ones are of the roots.
LEMMA PastRowsAreWell ==
  ASSUME NEW article, ArticleIsWell(article), NEW past, past = {[row EXCEPT !.current = FALSE] : row \in article}
  PROVE  /\ ArticleIsWell(past)
         /\ \A x \in past : ~x.current /\ \E row \in article : x.entity = row.entity /\ x.mentions = row.mentions
<1>1. ASSUME NEW row \in article, NEW x, x = [row EXCEPT !.current = FALSE]
      PROVE  /\ RowIsWell(x) /\ ~x.current /\ x.entity = row.entity /\ x.mentions = row.mentions
  <2>1. RowIsWell(row) /\ row \in Rows  BY DEF ArticleIsWell, RowIsWell
  <2>2. /\ x \in Rows /\ x.entity = row.entity /\ x.mentions = row.mentions /\ x.observed = row.observed
        /\ ~x.current
    BY <1>1, <2>1 DEF Rows
  <2>. QED  BY <2>1, <2>2 DEF RowIsWell
<1>2. PICK gone : gone = [row \in article |-> [row EXCEPT !.current = FALSE]]  OBVIOUS
<1>3. IsFiniteSet(past)
  <2>1. past = {gone[row] : row \in article} /\ DOMAIN gone = article  BY <1>2
  <2>2. gone = [row \in DOMAIN gone |-> gone[row]]  BY <1>2
  <2>. QED  BY <2>1, <2>2, ImageIsFinite DEF ArticleIsWell
<1>. QED  BY <1>1, <1>3 DEF ArticleIsWell

LEMMA PublishKeepsTypes ==
  ASSUME FileIsSound, ArchiveIsTyped, NEW a \in Articles, NEW found \in Readings, Publish(a, found)
  PROVE  ArchiveIsTyped'
<1>1. PICK f : f = file  OBVIOUS
<1>2. PICK used : used = {n \in Names : found[n] > 0}  OBVIOUS
<1>3. PICK g : g = Registered(f, used)  OBVIOUS
<1>4. PICK past : past = {[row EXCEPT !.current = FALSE] : row \in rows[a]}  OBVIOUS
<1>5. PICK new : new = PublishedRows(g, found)  OBVIOUS
<1>6. /\ file' = g /\ rows' = [rows EXCEPT ![a] = past \cup new] /\ UNCHANGED <<runs, due>>
  BY <1>1, <1>2, <1>3, <1>4, <1>5 DEF Publish
<1>7. Sound(g) /\ g.known = f.known \cup used
  BY <1>1, <1>2, <1>3, RegisteredIsSound DEF FileIsSound
<1>8. found \in [Names -> Nat] /\ \A n \in Names : found[n] > 0 => n \in g.known
  BY <1>2, <1>7, AuthorityFileConstants DEF Names
<1>9. PublishedFrom(new, g, found)  BY <1>5, <1>7, <1>8, PublishedRowsAre
<1>10. ArticleIsWell(past) /\ \A x \in past : \E row \in rows[a] : x.entity = row.entity
  <2>1. PICK article : article = rows[a] /\ ArticleIsWell(article)  BY DEF ArchiveIsTyped
  <2>2. past = {[row EXCEPT !.current = FALSE] : row \in article}  BY <1>4, <2>1
  <2>. QED  BY <2>1, <2>2, PastRowsAreWell
<1>11. ArticleIsWell(past \cup new)  BY <1>9, <1>10, FS_Union DEF PublishedFrom, ArticleIsWell
<1>12. RowsNamed(g, past \cup new)
  BY <1>1, <1>7, <1>9, <1>10 DEF PublishedFrom, RootIn, RowsNamed, ArchiveIsTyped
<1>13. past \cup new \in SUBSET Rows  BY <1>11 DEF ArticleIsWell, RowIsWell
<1>14. /\ rows' \in [Articles -> SUBSET Rows]
       /\ \A b \in Articles : rows'[b] = IF b = a THEN past \cup new ELSE rows[b]
  BY <1>6, <1>13 DEF ArchiveIsTyped
<1>15. ASSUME NEW b \in Articles
       PROVE  ArticleIsWell(rows'[b]) /\ RowsNamed(g, rows'[b])
  <2>1. CASE b = a  BY <1>11, <1>12, <1>14, <2>1
  <2>2. CASE b # a  BY <1>1, <1>7, <1>14, <2>2 DEF ArchiveIsTyped, RowsNamed
  <2>. QED  BY <2>1, <2>2
<1>16. RunsNamed(g, runs)  BY <1>1, <1>7 DEF ArchiveIsTyped, RunsNamed
<1>. QED  BY <1>6, <1>14, <1>15, <1>16 DEF ArchiveIsTyped

LEMMA AdvanceRunKeepsTypes ==
  ASSUME FileIsSound, ArchiveIsTyped, AdvanceRun
  PROVE  ArchiveIsTyped'
<1>1. PICK i \in due, batch \in SUBSET Articles : due' = due \ {i} /\ (Move(i, batch) \/ Reindex(i, batch))
  BY DEF AdvanceRun
<1>2. file' = file  BY DEF AdvanceRun
<1>3. PICK v \in Names, r \in Names : v = runs[i].entity /\ r = runs[i].root
  <2>1. runs[i] \in Runs  BY <1>1 DEF FileIsSound, FileTypes, ArchiveIsTyped
  <2>. QED  BY <2>1 DEF Runs
<1>4. /\ v \in file.known /\ r \in file.known /\ (runs[i].kind # "reindex" => v # r)
      /\ runs[i].kind = "reindex" => runs[i].phase = "reindex"
  BY <1>1, <1>3 DEF ArchiveIsTyped, RunsNamed
<1>5. CASE Reindex(i, batch)
  <2>1. runs \in Seq(Runs)  BY DEF FileIsSound, FileTypes
  <2>2. Reindexed(runs, runs', i)  BY <1>5, <2>1, ReindexedRuns
  <2>3. RunsNamed(file, runs') /\ DOMAIN runs' = DOMAIN runs
    BY <1>1, <2>2 DEF Reindexed, ArchiveIsTyped, RunsNamed
  <2>4. rows' = rows  BY <1>5 DEF Reindex
  <2>. QED  BY <1>1, <1>2, <2>3, <2>4 DEF ArchiveIsTyped
<1>6. CASE Move(i, batch)
  <2>1. runs' = runs  BY <1>6 DEF Move
  <2>2. rows' = [a \in Articles |->
                  IF a \notin batch THEN rows[a]
                  ELSE IF runs[i].kind = "merge" THEN MergedRows(rows[a], v, r)
                  ELSE SplitArticle(rows[a], v, r)]
    BY <1>3, <1>6 DEF Move
  <2>3. v # r  BY <1>4, <1>6 DEF Move
  <2>4. ASSUME NEW a \in Articles, NEW out, out = MergedRows(rows[a], v, r) \/ out = SplitArticle(rows[a], v, r)
        PROVE  ArticleIsWell(out) /\ RowsNamed(file, out)
    <3>1. ArticleIsWell(rows[a]) /\ \A row \in rows[a] : row.entity \in file.known
      BY DEF ArchiveIsTyped, RowsNamed
    <3>2. CASE out = MergedRows(rows[a], v, r)
      <4>1. MergedFrom(out, rows[a], v, r)  BY <3>1, <3>2, MergedRowsAre
      <4>2. ArticleIsWell(out) /\ \A x \in out : x.entity = r \/ x \in rows[a]  BY <4>1 DEF MergedFrom
      <4>. QED  BY <1>4, <3>1, <4>2 DEF RowsNamed
    <3>3. CASE out = SplitArticle(rows[a], v, r)
      <4>1. SplitFrom(out, rows[a], v, r)  BY <2>3, <3>1, <3>3, SplitArticleIs
      <4>2. ArticleIsWell(out) /\ \A x \in out : x.entity = v \/ x.entity = r \/ x \in rows[a]
        BY <4>1 DEF SplitFrom
      <4>. QED  BY <1>4, <3>1, <4>2 DEF RowsNamed
    <3>. QED  BY <2>4, <3>2, <3>3
  <2>5. ASSUME NEW a \in Articles
        PROVE  ArticleIsWell(rows'[a]) /\ RowsNamed(file, rows'[a])
    <3>1. PICK merged, split : merged = MergedRows(rows[a], v, r) /\ split = SplitArticle(rows[a], v, r)
      OBVIOUS
    <3>2. rows'[a] = rows[a] \/ rows'[a] = merged \/ rows'[a] = split  BY <2>2, <3>1
    <3>3. CASE rows'[a] = rows[a]  BY <3>3 DEF ArchiveIsTyped
    <3>4. CASE rows'[a] = merged \/ rows'[a] = split  BY <2>4, <3>1, <3>4
    <3>. QED  BY <3>2, <3>3, <3>4
  <2>6. rows' \in [Articles -> SUBSET Rows]
    <3>1. \A a \in Articles : rows'[a] \in SUBSET Rows  BY <2>5 DEF ArticleIsWell, RowIsWell
    <3>2. \E next : rows' = [a \in Articles |-> next[a]]
      <4>1. PICK next : next = rows'  OBVIOUS
      <4>2. rows' = [a \in Articles |-> next[a]]  BY <2>2, <4>1
      <4>. QED  BY <4>2
    <3>3. rows' = [a \in Articles |-> rows'[a]]  BY <3>2
    <3>. QED  BY <3>1, <3>3
  <2>7. RunsNamed(file, runs) /\ due' \subseteq DOMAIN runs  BY <1>1 DEF ArchiveIsTyped
  <2>. QED  BY <1>2, <2>1, <2>5, <2>6, <2>7 DEF ArchiveIsTyped
<1>. QED  BY <1>1, <1>5, <1>6

LEMMA FirstRowsArePublished ==
  ASSUME FileIsSound, Init
  PROVE  /\ rows = [a \in Articles |-> PublishedRows(file, reading[a])]
         /\ \A a \in Articles : PublishedFrom(rows[a], file, reading[a])
<1>1. PICK f : f = file  OBVIOUS
<1>2. f.known = Names \ NewNames  BY <1>1 DEF Init
<1>3. ASSUME NEW a \in Articles
      PROVE  reading[a] \in [Names -> Nat] /\ \A n \in Names : reading[a][n] > 0 => n \in f.known
  <2>1. FirstReading[a] \in [Names -> Nat] /\ \A n \in NewNames : FirstReading[a][n] = 0
    BY AuthorityFileConstants DEF Articles, Names
  <2>2. reading[a] = FirstReading[a]  BY DEF Init
  <2>. QED  BY <1>2, <2>1, <2>2
<1>4. Sound(f)  BY <1>1 DEF FileIsSound
<1>5. ASSUME NEW a \in Articles, NEW new, new = PublishedRows(f, reading[a])
      PROVE  PublishedFrom(new, f, reading[a])
  BY <1>3, <1>4, <1>5, PublishedRowsAre
<1>6. rows = [a \in Articles |-> PublishedRows(f, reading[a])]  BY <1>1 DEF Init
<1>7. \A a \in Articles : PublishedFrom(rows[a], f, reading[a])  BY <1>5, <1>6
<1>. QED  BY <1>1, <1>6, <1>7

LEMMA InitIsTyped == ASSUME FileIsSound, Init
                     PROVE  ArchiveIsTyped
<1>1. PICK f : f = file  OBVIOUS
<1>2. rows = [a \in Articles |-> PublishedRows(f, reading[a])]  BY <1>1, FirstRowsArePublished
<1>3. \A a \in Articles : PublishedFrom(rows[a], f, reading[a])  BY <1>1, FirstRowsArePublished
<1>4. \A a \in Articles : ArticleIsWell(rows[a]) /\ RowsNamed(f, rows[a])
  BY <1>3 DEF PublishedFrom, RowsNamed, RootIn
<1>5. rows \in [Articles -> SUBSET Rows]
  <2>1. \A a \in Articles : rows[a] \in SUBSET Rows  BY <1>4 DEF ArticleIsWell, RowIsWell
  <2>2. rows = [a \in Articles |-> rows[a]]  BY <1>2
  <2>. QED  BY <2>1, <2>2
<1>6. runs = <<>> /\ due = {}  BY DEF Init
<1>7. RunsNamed(f, runs)  BY <1>6 DEF RunsNamed
<1>. QED  BY <1>1, <1>4, <1>5, <1>6, <1>7 DEF ArchiveIsTyped

LEMMA NextKeepsTypes ==
  ASSUME FileIsSound, ArchiveIsTyped, [Next]_vars
  PROVE  ArchiveIsTyped'
<1>1. CASE UNCHANGED vars  BY <1>1 DEF vars, ArchiveIsTyped
<1>2. CASE Request  BY <1>2, RequestKeepsTypes
<1>3. ASSUME NEW v \in Names, NEW target \in Names, BeginMerge(v, target)
      PROVE  ArchiveIsTyped'
  BY <1>3 DEF BeginMerge, ArchiveIsTyped
<1>4. ASSUME NEW tx \in merging, Rollback(tx)
      PROVE  ArchiveIsTyped'
  BY <1>4 DEF Rollback, ArchiveIsTyped
<1>5. ASSUME NEW n \in Names, Split(n)
      PROVE  ArchiveIsTyped'
  BY <1>5, SplitKeepsTypes
<1>6. ASSUME NEW a \in Articles, NEW found \in Readings, Publish(a, found)
      PROVE  ArchiveIsTyped'
  BY <1>6, PublishKeepsTypes
<1>7. CASE StartCycle
  <2>1. due' \subseteq DOMAIN runs /\ UNCHANGED <<file, rows, runs>>  BY <1>7 DEF StartCycle
  <2>. QED  BY <2>1 DEF ArchiveIsTyped
<1>8. CASE AdvanceRun  BY <1>8, AdvanceRunKeepsTypes
<1>. QED  BY <1>1, <1>2, <1>3, <1>4, <1>5, <1>6, <1>7, <1>8, OneStep

LEMMA ArchiveStaysTyped == ASSUME OneRequestAtATime
                           PROVE  Spec => []ArchiveIsTyped
<1>1. Init /\ FileIsSound => ArchiveIsTyped  BY InitIsTyped
<1>2. FileIsSound /\ ArchiveIsTyped /\ [Next]_vars => ArchiveIsTyped'  BY NextKeepsTypes
<1>. QED  BY <1>1, <1>2, FileStaysSound, PTL DEF Spec

\* While requests come one at a time, every entity, row and run is of names there are: no merge,
\* split or reading leaves a row of a name that was never created, however batches, requests and
\* NER interleave.
THEOREM TypeCorrect == ASSUME OneRequestAtATime
                       PROVE  Spec => []TypeOK
<1>1. FileIsSound /\ ArchiveIsTyped => TypeOK
  BY DEF FileIsSound, FileTypes, Sound, ArchiveIsTyped, RowsNamed, TypeOK
<1>. QED  BY <1>1, FileStaysSound, ArchiveStaysTyped, PTL

-----------------------------------------------------------------------------
(* The runs under way account for every row and every tag that the file does not say yet. *)

\* A name is not split or merged while a run still moves it.
PatientUser == ~Impatient

Running(rs, i) == i \in DOMAIN rs /\ rs[i].status = "running"
Merges(rs, i) == Running(rs, i) /\ rs[i].kind = "merge" /\ rs[i].phase = "move"
Splits(rs, i) == Running(rs, i) /\ rs[i].kind = "split" /\ rs[i].phase = "move"
About(run, n) == n = run.entity \/ n = run.root

MovesRun(rs) == \A i \in DOMAIN rs : rs[i].phase = "move" => rs[i].status = "running" /\ rs[i].after = 0

\* The entity of a merge under way has its root's root, which it or a later merge leads to.
MergesLead(f, rs) ==
  \A i \in DOMAIN rs : Merges(rs, i) =>
    /\ f.authority[rs[i].entity] # NoName
    /\ RootOf(f, rs[i].entity) = RootOf(f, rs[i].root)
    /\ RootIn(f, rs[i].root) \/ \E j \in DOMAIN rs : i < j /\ Merges(rs, j) /\ rs[j].entity = rs[i].root

MergesApart(rs) ==
  \A i, j \in DOMAIN rs : Merges(rs, i) /\ Merges(rs, j) /\ rs[i].entity = rs[j].entity => i = j

\* A split's names are roots until it ends, and no merge moves them.
SplitsStand(f, rs) ==
  \A i \in DOMAIN rs : Running(rs, i) /\ rs[i].kind = "split" =>
    /\ RootIn(f, rs[i].entity) /\ RootIn(f, rs[i].root)
    /\ \A j \in DOMAIN rs, n \in Names : Merges(rs, j) /\ About(rs[i], n) => ~About(rs[j], n)

SplitsApart(rs) ==
  \A i, j \in DOMAIN rs, n \in Names :
    Splits(rs, i) /\ Splits(rs, j) /\ i # j /\ About(rs[i], n) => ~About(rs[j], n)

RunsFit(f, rs) ==
  /\ RunsNamed(f, rs) /\ MovesRun(rs)
  /\ MergesLead(f, rs) /\ MergesApart(rs) /\ SplitsStand(f, rs) /\ SplitsApart(rs)

\* A tag's root is its row's, or a split still has to give it back.
TagFits(f, rs, e, t) ==
  \/ RootOf(f, t) = RootOf(f, e)
  \/ \E i \in DOMAIN rs : Splits(rs, i) /\ rs[i].entity = t /\ rs[i].root = e

\* A row is a root's, or a merge still has to move it.
EntityFits(f, rs, e) ==
  e \in f.known /\ (RootIn(f, e) \/ \E i \in DOMAIN rs : Merges(rs, i) /\ rs[i].entity = e)

RowFits(f, rs, row) ==
  /\ EntityFits(f, rs, row.entity)
  /\ \A m \in row.mentions : m.tag # NoName => m.tag \in f.known /\ TagFits(f, rs, row.entity, m.tag)

\* A split under way finds no current row of the name it gives back.
GivesBack(rs, article) ==
  \A i \in DOMAIN rs : Splits(rs, i) => MayGiveBack(article, rs[i].entity, rs[i].root)

ArticleFits(f, rs, article) == (\A row \in article : RowFits(f, rs, row)) /\ GivesBack(rs, article)

\* A cycle that advances a merge and not the merge into its entity, before it, has rows to move.
DueFits(rs, rws, d) ==
  /\ d \subseteq DOMAIN rs
  /\ \A j \in d : Running(rs, j)
  /\ \A i, j \in DOMAIN rs :
       i < j /\ Merges(rs, i) /\ Merges(rs, j) /\ rs[j].entity = rs[i].root /\ j \in d /\ i \notin d
         => \E a \in Articles : \E row \in rws[a] : row.entity = rs[j].entity

Fits(f, rs, rws, d) ==
  RunsFit(f, rs) /\ (\A a \in Articles : ArticleFits(f, rs, rws[a])) /\ DueFits(rs, rws, d)

-----------------------------------------------------------------------------
(* Roots before and after names are tied. *)

LEMMA RootsOf ==
  ASSUME NEW f, Sound(f), NEW n \in Names
  PROVE  /\ RootOf(f, n) \in Names
         /\ RootIn(f, n) => RootOf(f, n) = n
         /\ f.authority[n] # NoName => RootOf(f, n) = f.authority[n] /\ RootIn(f, RootOf(f, n))
         /\ f.authority[n] = NoName => RootOf(f, n) = n
BY DEF Sound, RootOf, RootIn, Files

\* g is f, and the names of v's root have r's.
Follows(f, g, v, r) ==
  /\ f.known \subseteq g.known
  /\ \A n \in Names : RootOf(g, n) = IF RootOf(f, n) = v THEN r ELSE RootOf(f, n)
  /\ \A n \in Names : RootIn(f, n) /\ n # v => RootIn(g, n)
  /\ \A n \in Names : f.authority[n] # NoName => g.authority[n] # NoName

LEMMA JoinedFollows ==
  ASSUME NEW f, Sound(f), NEW v \in Names, NEW r \in Names, RootIn(f, v), RootIn(f, r), v # r,
         NEW g, g = Joined(f, v, r)
  PROVE  Follows(f, g, v, r) /\ RootIn(g, r) /\ RootOf(g, v) = r /\ g.authority[v] # NoName
<1>1. /\ Sound(g) /\ g.known = f.known /\ TiedTo(g, f, v, r)
      /\ \A n \in f.known : n # v /\ RootIn(f, n) => RootIn(g, n)
  BY JoinedIsSound
<1>2. /\ \A n \in Names : g.authority[n] = IF n = v \/ f.authority[n] = v THEN r ELSE f.authority[n]
      /\ r # NoName /\ v # NoName /\ f.authority[v] = NoName /\ f.authority[r] = NoName
  BY <1>1 DEF TiedTo, Names, NoName, RootIn
<1>3. ASSUME NEW n \in Names
      PROVE  RootOf(g, n) = IF RootOf(f, n) = v THEN r ELSE RootOf(f, n)
  BY <1>2 DEF RootOf
<1>4. \A n \in Names : f.authority[n] # NoName => g.authority[n] # NoName  BY <1>2
<1>5. RootIn(g, r)  BY <1>1 DEF RootIn
<1>. QED  BY <1>1, <1>2, <1>3, <1>4, <1>5 DEF Follows, RootIn, RootOf

LEMMA CreatedFollows ==
  ASSUME NEW f, Sound(f), NEW n \in Names, NEW h, h = Created(f, n), NEW g, NEW v, NEW r, Follows(h, g, v, r)
  PROVE  Follows(f, g, v, r)
<1>1. h.known = f.known \cup {n} /\ h.authority = f.authority /\ \A m : RootIn(f, m) => RootIn(h, m)
  BY CreatedIsSound
<1>. QED  BY <1>1 DEF Follows, RootOf

LEMMA AdoptedFollows ==
  ASSUME NEW f, Sound(f), NEW v \in Names, NEW r \in Names, RootIn(f, r), v # r, v \notin f.known \/ RootIn(f, v),
         NEW h, h = Created(f, v), NEW g, g = Joined(h, v, r)
  PROVE  /\ Sound(h) /\ h.known = f.known \cup {v} /\ h.authority = f.authority
         /\ RootIn(h, v) /\ RootIn(h, r) /\ Follows(f, g, v, r)
<1>1. Sound(h) /\ h.known = f.known \cup {v} /\ h.authority = f.authority /\ RootIn(h, r)  BY CreatedIsSound
<1>2. f.authority[v] = NoName  BY DEF Sound, RootIn
<1>3. RootIn(h, v)  BY <1>1, <1>2 DEF RootIn
<1>4. Follows(h, g, v, r)  BY <1>1, <1>3, JoinedFollows
<1>5. Follows(f, g, v, r)  BY <1>4, CreatedFollows
<1>. QED  BY <1>1, <1>3, <1>5

LEMMA SameFollows ==
  ASSUME NEW f, Sound(f), NEW g, g.authority = f.authority, f.known \subseteq g.known, NEW r
  PROVE  Follows(f, g, NoName, r)
<1>1. \A n \in Names : RootOf(f, n) # NoName  BY RootsOf DEF Names, NoName
<1>. QED  BY <1>1 DEF Follows, RootOf, RootIn

-----------------------------------------------------------------------------
(* Requests that tie names. *)

\* next is rs, perhaps with one more run: the merge of v into r, or a reindex.
MoreRuns(next, rs, f, v, r) ==
  /\ DOMAIN rs \subseteq DOMAIN next /\ \A i \in DOMAIN rs : next[i] = rs[i]
  /\ \A k \in DOMAIN next \ DOMAIN rs :
       /\ \A i \in DOMAIN rs : i < k
       /\ \A j \in DOMAIN next \ DOMAIN rs : j = k
       /\ next[k].entity \in f.known /\ next[k].root \in f.known
       /\ next[k].status = "running" /\ next[k].after = 0
       /\ \/ next[k].kind = "merge" /\ next[k].phase = "move" /\ next[k].entity = v /\ next[k].root = r /\ v # r
          \/ next[k].kind = "reindex" /\ next[k].phase = "reindex"

\* No run or row depends on v being a root, or the new run is its merge.
LeavesRoot(rs, next, rws, v) ==
  \/ \E k \in DOMAIN next \ DOMAIN rs : next[k].kind = "merge"
  \/ /\ \A i \in DOMAIN rs : Merges(rs, i) => rs[i].root # v
     /\ \A a \in Articles : \A row \in rws[a] : row.entity # v

LEMMA RunsFollow ==
  ASSUME NEW f, Sound(f), NEW g, NEW v, NEW r, Follows(f, g, v, r),
         NEW rs \in Seq(Runs), NEW next, MoreRuns(next, rs, g, v, r), NEW rws, LeavesRoot(rs, next, rws, v),
         RunsFit(f, rs), ~SplitNames(rs, {v, r}),
         (\E k \in DOMAIN next \ DOMAIN rs : next[k].kind = "merge")
           => v \in Names /\ r \in Names /\ RootIn(f, v) /\ RootIn(g, r) /\ RootOf(g, v) = RootOf(g, r)
              /\ g.authority[v] # NoName
  PROVE  RunsFit(g, next)
<1>1. \A i \in DOMAIN rs : rs[i] \in Runs /\ rs[i].entity \in Names /\ rs[i].root \in Names
  <2>1. \A i \in DOMAIN rs : rs[i] \in Runs  OBVIOUS
  <2>. QED  BY <2>1 DEF Runs
<1>2. \A i \in DOMAIN rs : /\ next[i] = rs[i] /\ i \in DOMAIN next /\ (Running(next, i) <=> Running(rs, i))
                           /\ (Merges(next, i) <=> Merges(rs, i)) /\ (Splits(next, i) <=> Splits(rs, i))
  BY DEF MoreRuns, Running, Merges, Splits
<1>3. \A k \in DOMAIN next \ DOMAIN rs :
        /\ ~Splits(next, k) /\ next[k].kind # "split"
        /\ Merges(next, k) <=> next[k].kind = "merge"
        /\ Merges(next, k) => next[k].entity = v /\ next[k].root = r
  BY DEF MoreRuns, Running, Merges, Splits
<1>4. RunsNamed(g, next)
  <2>1. ASSUME NEW i \in DOMAIN next
        PROVE  /\ next[i].entity \in g.known /\ next[i].root \in g.known
               /\ next[i].kind # "reindex" => next[i].entity # next[i].root
               /\ next[i].kind = "reindex" => next[i].phase = "reindex"
    <3>1. CASE i \in DOMAIN rs  BY <1>2, <3>1 DEF RunsFit, RunsNamed, Follows
    <3>2. CASE i \notin DOMAIN rs  BY <3>2 DEF MoreRuns
    <3>. QED  BY <3>1, <3>2
  <2>. QED  BY <2>1 DEF RunsNamed
<1>5. MovesRun(next)  BY <1>2 DEF MoreRuns, RunsFit, MovesRun
<1>6. MergesLead(g, next)
  <2>1. ASSUME NEW i \in DOMAIN next, Merges(next, i)
        PROVE  /\ g.authority[next[i].entity] # NoName
               /\ RootOf(g, next[i].entity) = RootOf(g, next[i].root)
               /\ RootIn(g, next[i].root)
                    \/ \E j \in DOMAIN next : i < j /\ Merges(next, j) /\ next[j].entity = next[i].root
    <3>1. CASE i \in DOMAIN rs
      <4>1. Merges(rs, i) /\ next[i] = rs[i]  BY <1>2, <2>1, <3>1
      <4>2. PICK e \in Names, n \in Names : e = rs[i].entity /\ n = rs[i].root  BY <1>1, <3>1
      <4>3. /\ f.authority[e] # NoName /\ RootOf(f, e) = RootOf(f, n)
            /\ RootIn(f, n) \/ \E j \in DOMAIN rs : i < j /\ Merges(rs, j) /\ rs[j].entity = n
        BY <3>1, <4>1, <4>2 DEF RunsFit, MergesLead
      <4>4. g.authority[e] # NoName /\ RootOf(g, e) = RootOf(g, n)  BY <4>3 DEF Follows
      <4>5. RootIn(g, n) \/ \E j \in DOMAIN next : i < j /\ Merges(next, j) /\ next[j].entity = n
        <5>1. CASE \E j \in DOMAIN rs : i < j /\ Merges(rs, j) /\ rs[j].entity = n  BY <1>2, <5>1
        <5>2. CASE RootIn(f, n) /\ n # v  BY <5>2 DEF Follows
        <5>3. CASE n = v
          <6>1. PICK k \in DOMAIN next \ DOMAIN rs : next[k].kind = "merge"
            BY <3>1, <4>1, <4>2, <5>3 DEF LeavesRoot
          <6>2. i < k /\ Merges(next, k) /\ next[k].entity = n  BY <1>3, <3>1, <5>3, <6>1 DEF MoreRuns
          <6>. QED  BY <6>1, <6>2
        <5>. QED  BY <4>3, <5>1, <5>2, <5>3
      <4>. QED  BY <4>1, <4>2, <4>4, <4>5
    <3>2. CASE i \notin DOMAIN rs
      <4>1. next[i].entity = v /\ next[i].root = r /\ next[i].kind = "merge"  BY <1>3, <2>1, <3>2
      <4>. QED  BY <3>2, <4>1
    <3>. QED  BY <3>1, <3>2
  <2>. QED  BY <2>1 DEF MergesLead
<1>7. MergesApart(next)
  <2>1. ASSUME NEW i \in DOMAIN rs, Merges(rs, i), NEW k \in DOMAIN next \ DOMAIN rs, Merges(next, k)
        PROVE  rs[i].entity # next[k].entity
    <3>1. f.authority[rs[i].entity] # NoName  BY <2>1 DEF RunsFit, MergesLead
    <3>2. next[k].entity = v /\ RootIn(f, v)  BY <1>3, <2>1
    <3>. QED  BY <3>1, <3>2 DEF RootIn
  <2>2. ASSUME NEW i \in DOMAIN next, NEW j \in DOMAIN next, Merges(next, i), Merges(next, j),
               next[i].entity = next[j].entity
        PROVE  i = j
    <3>1. CASE i \in DOMAIN rs /\ j \in DOMAIN rs  BY <1>2, <2>2, <3>1 DEF RunsFit, MergesApart
    <3>2. CASE i \in DOMAIN rs /\ j \notin DOMAIN rs  BY <1>2, <2>1, <2>2, <3>2
    <3>3. CASE i \notin DOMAIN rs /\ j \in DOMAIN rs  BY <1>2, <2>1, <2>2, <3>3
    <3>4. CASE i \notin DOMAIN rs /\ j \notin DOMAIN rs  BY <3>4 DEF MoreRuns
    <3>. QED  BY <3>1, <3>2, <3>3, <3>4
  <2>. QED  BY <2>2 DEF MergesApart
<1>8. ASSUME NEW i \in DOMAIN next, Running(next, i), next[i].kind = "split"
      PROVE  i \in DOMAIN rs /\ Running(rs, i) /\ rs[i].kind = "split" /\ next[i] = rs[i] /\ ~About(rs[i], v) /\ ~About(rs[i], r)
  <2>1. i \in DOMAIN rs /\ next[i] = rs[i] /\ Running(rs, i)  BY <1>2, <1>3, <1>8
  <2>. QED  BY <1>8, <2>1 DEF SplitNames, About, Running
<1>9. SplitsStand(g, next)
  <2>1. ASSUME NEW i \in DOMAIN next, Running(next, i), next[i].kind = "split"
        PROVE  /\ RootIn(g, next[i].entity) /\ RootIn(g, next[i].root)
               /\ \A j \in DOMAIN next, n \in Names : Merges(next, j) /\ About(next[i], n) => ~About(next[j], n)
    <3>1. i \in DOMAIN rs /\ Running(rs, i) /\ rs[i].kind = "split" /\ next[i] = rs[i] /\ ~About(rs[i], v) /\ ~About(rs[i], r)
      BY <1>8, <2>1
    <3>2. RootIn(f, rs[i].entity) /\ RootIn(f, rs[i].root)  BY <3>1 DEF RunsFit, SplitsStand
    <3>3. RootIn(g, rs[i].entity) /\ RootIn(g, rs[i].root)  BY <1>1, <3>1, <3>2 DEF Follows, About
    <3>4. ASSUME NEW j \in DOMAIN next, NEW n \in Names, Merges(next, j), About(next[i], n)
          PROVE  ~About(next[j], n)
      <4>1. CASE j \in DOMAIN rs  BY <1>2, <3>1, <3>4, <4>1 DEF RunsFit, SplitsStand
      <4>2. CASE j \notin DOMAIN rs  BY <1>3, <3>1, <3>4, <4>2 DEF About
      <4>. QED  BY <4>1, <4>2
    <3>. QED  BY <3>1, <3>3, <3>4
  <2>. QED  BY <2>1 DEF SplitsStand
<1>10. SplitsApart(next)
  <2>1. \A i \in DOMAIN next : Splits(next, i) => i \in DOMAIN rs /\ Splits(rs, i) /\ next[i] = rs[i]
    BY <1>2, <1>3
  <2>. QED  BY <2>1 DEF RunsFit, SplitsApart
<1>. QED  BY <1>4, <1>5, <1>6, <1>7, <1>9, <1>10 DEF RunsFit

LEMMA RowsFollow ==
  ASSUME NEW f, Sound(f), NEW g, NEW v, NEW r, Follows(f, g, v, r),
         NEW rs, NEW next, MoreRuns(next, rs, g, v, r), NEW rws, LeavesRoot(rs, next, rws, v),
         NEW a \in Articles, ArticleFits(f, rs, rws[a])
  PROVE  ArticleFits(g, next, rws[a])
<1>1. \A i \in DOMAIN rs : /\ next[i] = rs[i] /\ i \in DOMAIN next
                           /\ (Merges(next, i) <=> Merges(rs, i)) /\ (Splits(next, i) <=> Splits(rs, i))
  BY DEF MoreRuns, Running, Merges, Splits
<1>2. \A i \in DOMAIN next : Splits(next, i) => i \in DOMAIN rs /\ Splits(rs, i) /\ next[i] = rs[i]
  BY <1>1 DEF MoreRuns, Running, Splits
<1>3. GivesBack(next, rws[a])  BY <1>2 DEF ArticleFits, GivesBack
<1>4. f.known \subseteq Names  BY DEF Sound, Files
<1>5. ASSUME NEW row \in rws[a]
      PROVE  RowFits(g, next, row)
  <2>1. PICK e : e = row.entity  OBVIOUS
  <2>2. RowFits(f, rs, row) /\ e \in f.known /\ e \in Names /\ e \in g.known
    BY <1>4, <2>1 DEF ArticleFits, RowFits, EntityFits, Follows
  <2>3. EntityFits(g, next, e)
    <3>1. CASE \E i \in DOMAIN rs : Merges(rs, i) /\ rs[i].entity = e  BY <1>1, <2>2, <3>1 DEF EntityFits
    <3>2. CASE RootIn(f, e) /\ e # v  BY <2>2, <3>2 DEF EntityFits, Follows
    <3>3. CASE e = v
      <4>1. PICK k \in DOMAIN next \ DOMAIN rs : next[k].kind = "merge"  BY <2>1, <3>3 DEF LeavesRoot
      <4>2. Merges(next, k) /\ next[k].entity = e  BY <3>3, <4>1 DEF MoreRuns, Merges, Running
      <4>. QED  BY <2>2, <4>1, <4>2 DEF EntityFits
    <3>. QED  BY <2>1, <2>2, <3>1, <3>2, <3>3 DEF RowFits, EntityFits
  <2>4. ASSUME NEW m \in row.mentions, m.tag # NoName
        PROVE  m.tag \in g.known /\ TagFits(g, next, e, m.tag)
    <3>1. m.tag \in f.known /\ TagFits(f, rs, e, m.tag)  BY <2>1, <2>2, <2>4 DEF RowFits
    <3>2. PICK t \in Names : t = m.tag  BY <1>4, <3>1
    <3>3. CASE RootOf(f, t) = RootOf(f, e)
      <4>1. RootOf(g, t) = RootOf(g, e)  BY <2>2, <3>3 DEF Follows
      <4>. QED  BY <3>1, <3>2, <4>1 DEF TagFits, Follows
    <3>4. CASE \E i \in DOMAIN rs : Splits(rs, i) /\ rs[i].entity = t /\ rs[i].root = e
      BY <1>1, <3>1, <3>2, <3>4 DEF TagFits, Follows
    <3>. QED  BY <3>1, <3>2, <3>3, <3>4 DEF TagFits
  <2>. QED  BY <2>1, <2>3, <2>4 DEF RowFits
<1>. QED  BY <1>3, <1>5 DEF ArticleFits

LEMMA DueFollow ==
  ASSUME NEW rs \in Seq(Runs), NEW next \in Seq(Runs), NEW g, NEW v, NEW r, MoreRuns(next, rs, g, v, r),
         NEW rws, NEW d, DueFits(rs, rws, d)
  PROVE  DueFits(next, rws, d)
<1>1. \A i \in DOMAIN rs : /\ next[i] = rs[i] /\ i \in DOMAIN next /\ (Running(next, i) <=> Running(rs, i))
                           /\ (Merges(next, i) <=> Merges(rs, i))
  BY DEF MoreRuns, Running, Merges
<1>2. ASSUME NEW i \in DOMAIN next, NEW j \in d, i < j, i \notin DOMAIN rs
      PROVE  FALSE
  <2>1. j \in DOMAIN rs /\ j < i  BY <1>2 DEF MoreRuns, DueFits
  <2>2. i \in Nat /\ j \in Nat  BY <2>1
  <2>. QED  BY <1>2, <2>1, <2>2
<1>3. \A i \in DOMAIN next, j \in d : i < j => i \in DOMAIN rs  BY <1>2
<1>4. d \subseteq DOMAIN rs  BY DEF DueFits
<1>. QED  BY <1>1, <1>3, <1>4 DEF DueFits

\* The changes that fit the rows.
FitChanges == {c \in Changes : Sound(c.file) /\ Fits(c.file, c.runs, rows, due)}

LEMMA ChangeFits ==
  ASSUME NEW c \in FitChanges, NEW d \in Changes, Sound(d.file), NEW v, NEW r,
         Follows(c.file, d.file, v, r), MoreRuns(d.runs, c.runs, d.file, v, r),
         LeavesRoot(c.runs, d.runs, rows, v), ~SplitNames(c.runs, {v, r}),
         (\E k \in DOMAIN d.runs \ DOMAIN c.runs : d.runs[k].kind = "merge")
           => v \in Names /\ r \in Names /\ RootIn(c.file, v) /\ RootIn(d.file, r)
              /\ RootOf(d.file, v) = RootOf(d.file, r) /\ d.file.authority[v] # NoName
  PROVE  d \in FitChanges
<1>1. PICK rs \in Seq(Runs) : rs = c.runs  BY DEF FitChanges, Changes
<1>2. PICK next \in Seq(Runs) : next = d.runs  BY DEF Changes
<1>3. PICK f, g : f = c.file /\ g = d.file  OBVIOUS
<1>4. Sound(f) /\ Fits(f, rs, rows, due)  BY <1>1, <1>3 DEF FitChanges
<1>5. Follows(f, g, v, r) /\ MoreRuns(next, rs, g, v, r) /\ LeavesRoot(rs, next, rows, v)
  BY <1>1, <1>2, <1>3
<1>6. RunsFit(g, next)
  <2>1. /\ ~SplitNames(rs, {v, r}) /\ RunsFit(f, rs)
        /\ (\E k \in DOMAIN next \ DOMAIN rs : next[k].kind = "merge")
             => v \in Names /\ r \in Names /\ RootIn(f, v) /\ RootIn(g, r) /\ RootOf(g, v) = RootOf(g, r)
                /\ g.authority[v] # NoName
    BY <1>1, <1>2, <1>3, <1>4 DEF Fits
  <2>. QED  BY ONLY <1>4, <1>5, <2>1, RunsFollow, rs \in Seq(Runs)
<1>7. \A a \in Articles : ArticleFits(g, next, rows[a])  BY <1>4, <1>5, RowsFollow DEF Fits
<1>8. DueFits(next, rows, due)  BY <1>4, <1>5, DueFollow DEF Fits
<1>. QED  BY <1>2, <1>3, <1>6, <1>7, <1>8 DEF FitChanges, Fits

LEMMA FitChangesClosed ==
  ASSUME PatientUser
  PROVE  Closed(FitChanges) /\ \A r \in Names : ClosedBetween(FitChanges, FitChanges, r)
<1>. DEFINE Grows(c, d, v, r) ==
       /\ Follows(c.file, d.file, v, r) /\ MoreRuns(d.runs, c.runs, d.file, v, r)
       /\ LeavesRoot(c.runs, d.runs, rows, v) /\ ~SplitNames(c.runs, {v, r})
       /\ (\E k \in DOMAIN d.runs \ DOMAIN c.runs : d.runs[k].kind = "merge")
             => v \in Names /\ r \in Names /\ RootIn(c.file, v) /\ RootIn(d.file, r)
                /\ RootOf(d.file, v) = RootOf(d.file, r) /\ d.file.authority[v] # NoName
<1>1. FitChanges \subseteq {c \in Changes : Sound(c.file)}  BY DEF FitChanges
<1>2. ASSUME NEW c \in FitChanges
      PROVE  /\ Sound(c.file) /\ c.file \in Files /\ c.file.known \subseteq Names /\ c.runs \in Seq(Runs)
             /\ RunsFit(c.file, c.runs)
             /\ \A i \in DOMAIN c.runs : c.runs[i].entity \in Names /\ c.runs[i].root \in Names
  <2>1. Sound(c.file) /\ c.file \in Files /\ c.file.known \subseteq Names /\ c.runs \in Seq(Runs)
        /\ RunsFit(c.file, c.runs)
    BY DEF FitChanges, Fits, Changes, Sound, Files
  <2>2. \A i \in DOMAIN c.runs : c.runs[i] \in Runs  BY <2>1
  <2>. QED  BY <2>1, <2>2 DEF Runs
\* Changes that leave every name its root.
<1>3. ASSUME NEW c \in FitChanges, NEW d \in Changes, Sound(d.file),
             d.file.authority = c.file.authority, c.file.known \subseteq d.file.known,
             d.runs = c.runs \/ \E n \in Names : n \in d.file.known /\ d.runs = Append(c.runs, NewRun("reindex", n, n))
      PROVE  d \in FitChanges
  <2>1. Follows(c.file, d.file, NoName, NoName)  BY <1>2, <1>3, SameFollows
  <2>2. /\ MoreRuns(d.runs, c.runs, d.file, NoName, NoName)
        /\ ~\E k \in DOMAIN d.runs \ DOMAIN c.runs : d.runs[k].kind = "merge"
    <3>1. CASE d.runs = c.runs  BY <3>1 DEF MoreRuns
    <3>2. CASE d.runs # c.runs
      <4>1. PICK n \in Names : n \in d.file.known /\ d.runs = Append(c.runs, NewRun("reindex", n, n))
        BY <1>3, <3>2
      <4>2. PICK next : next = d.runs  OBVIOUS
      <4>3. PICK rs \in Seq(Runs) : rs = c.runs  BY <1>2
      <4>4. PICK run, last : OneMoreRun(next, rs, run, last, "reindex", n, n)  BY <4>1, <4>2, <4>3, AppendedRun
      <4>5. MoreRuns(next, rs, d.file, NoName, NoName)  BY <4>1, <4>4 DEF MoreRuns, OneMoreRun
      <4>6. ~\E k \in DOMAIN next \ DOMAIN rs : next[k].kind = "merge"  BY <4>4 DEF OneMoreRun
      <4>. QED  BY <4>2, <4>3, <4>5, <4>6
    <3>. QED  BY <3>1, <3>2
  <2>3. NoName \notin Names  BY DEF NoName, Names
  <2>4. LeavesRoot(c.runs, d.runs, rows, NoName)
    <3>1. \A i \in DOMAIN c.runs : c.runs[i].root # NoName  BY <1>2, <2>3
    <3>2. \A a \in Articles : \A row \in rows[a] : row.entity # NoName
      BY <1>2, <2>3 DEF FitChanges, Fits, ArticleFits, RowFits, EntityFits
    <3>. QED  BY <3>1, <3>2 DEF LeavesRoot
  <2>5. ~SplitNames(c.runs, {NoName, NoName})  BY <1>2, <2>3 DEF SplitNames
  <2>. QED  BY <1>3, <2>1, <2>2, <2>4, <2>5, ChangeFits
<1>4. ASSUME NEW c \in FitChanges, NEW d \in Changes, Sound(d.file), NEW v \in Names, NEW r \in Names,
             Merging(c, d, v, r)
      PROVE  d \in FitChanges
  <2>1. /\ RootIn(c.file, v) /\ RootIn(c.file, r) /\ v # r /\ ~SplitNames(c.runs, {v, r})
        /\ d.file = Joined(c.file, v, r) /\ d.runs = Append(c.runs, NewRun("merge", v, r))
    BY <1>4 DEF Merging, MayTie, PatientUser
  <2>2. PICK f, g : f = c.file /\ g = d.file  OBVIOUS
  <2>3. Follows(f, g, v, r) /\ RootIn(g, r) /\ RootOf(g, v) = r /\ g.authority[v] # NoName
    BY <1>2, <2>1, <2>2, JoinedFollows
  <2>4. RootOf(g, r) = r  BY <1>4, <2>2, <2>3, RootsOf
  <2>5. v \in g.known /\ r \in g.known  BY <2>1, <2>2, <2>3 DEF Follows, RootIn
  <2>6. PICK next : next = d.runs  OBVIOUS
  <2>7. PICK rs \in Seq(Runs) : rs = c.runs  BY <1>2
  <2>8. PICK run, last : OneMoreRun(next, rs, run, last, "merge", v, r)  BY <2>1, <2>6, <2>7, AppendedRun
  <2>9. MoreRuns(next, rs, g, v, r)  BY <2>1, <2>5, <2>8 DEF MoreRuns, OneMoreRun
  <2>10. LeavesRoot(rs, next, rows, v)  BY <2>8 DEF LeavesRoot, OneMoreRun
  <2>. QED  BY <1>4, <2>1, <2>2, <2>3, <2>4, <2>6, <2>7, <2>9, <2>10, ChangeFits
<1>5. ASSUME NEW c \in FitChanges, NEW d \in Changes, Sound(d.file), NEW v \in Names, NEW r \in Names,
             Adopting(c, d, v, r)
      PROVE  d \in FitChanges
  <2>1. PICK f, g, h : f = c.file /\ g = d.file /\ h = Created(f, v)  OBVIOUS
  <2>2. /\ RootIn(f, r) /\ v # r /\ ~SplitNames(c.runs, {v, r})
        /\ v \notin f.known \/ (RootIn(f, v) /\ ~InUse(f, v))
        /\ g = Joined(h, v, r) /\ d.runs = c.runs /\ Sound(f)
    BY <1>2, <1>5, <2>1 DEF Adopting, MayTie, PatientUser
  <2>3. f.authority[v] = NoName  BY <2>2 DEF Sound, RootIn
  <2>4. Follows(f, g, v, r)  BY <2>1, <2>2, AdoptedFollows
  <2>5. ASSUME NEW i \in DOMAIN c.runs, Merges(c.runs, i), c.runs[i].root = v
        PROVE  FALSE
    <3>1. v \in f.known  BY <1>2, <2>1, <2>5 DEF RunsFit, RunsNamed
    <3>2. PICK e \in Names : e = c.runs[i].entity  BY <1>2
    <3>3. f.authority[e] # NoName /\ RootOf(f, e) = RootOf(f, v)
      BY <1>2, <2>1, <2>5, <3>2 DEF RunsFit, MergesLead
    <3>4. f.authority[e] = v  BY <2>2, <2>3, <3>3, RootsOf
    <3>. QED  BY <2>2, <3>1, <3>4 DEF InUse
  <2>6. \A a \in Articles : \A row \in rows[a] : row.entity # v
    <3>1. ASSUME NEW a \in Articles, NEW row \in rows[a]
          PROVE  row.entity \in f.known
      BY <2>1 DEF FitChanges, Fits, ArticleFits, RowFits, EntityFits
    <3>. QED  BY <2>2, <3>1 DEF InUse
  <2>7. MoreRuns(d.runs, c.runs, g, v, r) /\ LeavesRoot(c.runs, d.runs, rows, v)
    BY <2>2, <2>5, <2>6 DEF MoreRuns, LeavesRoot
  <2>. QED  BY <1>5, <2>1, <2>2, <2>4, <2>7, ChangeFits
<1>6. PICK Good : Good = FitChanges  OBVIOUS
<1>7. Closed(Good)
  <2>1. ASSUME NEW c \in FitChanges, NEW d \in Changes, Sound(d.file), Aside(c, d)
        PROVE  d \in FitChanges
    BY <1>3, <2>1 DEF Aside
  <2>2. ASSUME NEW c \in FitChanges, NEW d \in Changes, Sound(d.file), NEW n \in Names, Marking(c, d, n)
        PROVE  d \in FitChanges
    BY <1>3, <2>2 DEF Marking, RootIn
  <2>. QED  BY <1>1, <1>4, <1>5, <1>6, <2>1, <2>2 DEF Closed
<1>8. \A r \in Names : ClosedBetween(Good, Good, r)
  <2>1. ASSUME NEW c \in FitChanges, NEW d \in Changes, Sound(d.file), NEW r \in Names,
               RootIn(c.file, r), d.file = c.file, d.runs = Append(c.runs, NewRun("reindex", r, r))
        PROVE  d \in FitChanges
    BY <1>3, <2>1 DEF RootIn
  <2>. QED  BY <1>1, <1>5, <1>6, <2>1 DEF ClosedBetween
<1>. QED  BY <1>6, <1>7, <1>8

-----------------------------------------------------------------------------
(* A split, a reading, and the rows of a batch. *)

\* Following the merges from one whose root is not a root leads to one whose root is.
LEMMA LastMerge ==
  ASSUME NEW f, Sound(f), NEW rs \in Seq(Runs), RunsFit(f, rs), NEW i \in DOMAIN rs, Merges(rs, i)
  PROVE  \E j \in DOMAIN rs : Merges(rs, j) /\ rs[j].root = RootOf(f, rs[i].entity)
<1>1. PICK r : r = RootOf(f, rs[i].entity)  OBVIOUS
<1>2. PICK L \in Nat : L = Len(rs) /\ DOMAIN rs = 1..L  OBVIOUS
<1>3. PICK left : left = {L - j : j \in {k \in DOMAIN rs : Merges(rs, k) /\ RootOf(f, rs[k].entity) = r}}
  OBVIOUS
<1>4. left \subseteq Nat /\ left # {}  BY <1>1, <1>2, <1>3
<1>5. PICK least \in left : \A x \in left : least <= x  BY <1>4, LeastNumber
<1>6. PICK j \in DOMAIN rs : Merges(rs, j) /\ RootOf(f, rs[j].entity) = r /\ least = L - j  BY <1>3, <1>5
<1>7. PICK n \in Names : n = rs[j].root
  <2>1. rs[j] \in Runs  BY <1>6
  <2>. QED  BY <2>1 DEF Runs
<1>8. /\ RootOf(f, n) = r
      /\ RootIn(f, n) \/ \E k \in DOMAIN rs : j < k /\ Merges(rs, k) /\ rs[k].entity = n
  BY <1>6, <1>7 DEF RunsFit, MergesLead
<1>9. RootIn(f, n)
  <2>1. SUFFICES ASSUME NEW k \in DOMAIN rs, j < k, Merges(rs, k), rs[k].entity = n
                 PROVE  FALSE
    BY <1>8
  <2>2. L - k \in left  BY <1>3, <1>8, <2>1
  <2>3. least <= L - k  BY <1>5, <2>2
  <2>. QED  BY <1>2, <1>6, <2>1, <2>3
<1>10. n = r  BY <1>7, <1>8, <1>9, RootsOf
<1>. QED  BY <1>1, <1>6, <1>7, <1>10

\* The rows of a name that is split off have moved to its root.
LEMMA SplitLeaves ==
  ASSUME PatientUser, FileIsSound, Fits(file, runs, rows, due), NEW v \in Names, Split(v), NEW r, r = file.authority[v],
         NEW a \in Articles, NEW row \in rows[a]
  PROVE  row.entity # v /\ (RootOf(file, row.entity) = r => row.entity = r)
<1>1. PICK f, e : f = file /\ e = row.entity  OBVIOUS
<1>2. PICK rs \in Seq(Runs) : rs = runs  BY DEF FileIsSound, FileTypes
<1>3. Sound(f) /\ RunsFit(f, rs) /\ EntityFits(f, rs, e) /\ f.known \subseteq Names
  BY <1>1, <1>2 DEF FileIsSound, Sound, Files, Fits, ArticleFits, RowFits
<1>4. r # NoName /\ ~Moving({v, r})  BY DEF Split, PatientUser
<1>5. \A i \in DOMAIN rs : Merges(rs, i) => ~About(rs[i], v) /\ ~About(rs[i], r)
  BY <1>2, <1>4 DEF Moving, Open, Merges, Running, About
<1>6. e \in f.known /\ e \in Names  BY <1>3 DEF EntityFits
<1>7. e # v
  <2>1. ~RootIn(f, v)  BY <1>1, <1>4 DEF RootIn
  <2>. QED  BY <1>3, <1>5, <2>1 DEF EntityFits, About
<1>8. ASSUME RootOf(f, e) = r
      PROVE  e = r
  <2>1. ~\E i \in DOMAIN rs : Merges(rs, i) /\ rs[i].entity = e  BY <1>3, <1>5, <1>8, LastMerge DEF About
  <2>2. RootIn(f, e)  BY <1>3, <2>1 DEF EntityFits
  <2>. QED  BY <1>3, <1>6, <1>8, <2>2, RootsOf
<1>. QED  BY <1>1, <1>7, <1>8

LEMMA SplitFits ==
  ASSUME PatientUser, FileIsSound, Fits(file, runs, rows, due), NEW v \in Names, Split(v)
  PROVE  Fits(file', runs', rows', due')
<1>1. PICK f : f = file  OBVIOUS
<1>2. PICK rs \in Seq(Runs) : rs = runs  BY DEF FileIsSound, FileTypes
<1>3. PICK r : r = f.authority[v]  OBVIOUS
<1>4. /\ r # NoName /\ ~Moving({v, r}) /\ file' = [f EXCEPT !.authority[v] = NoName]
      /\ runs' = Append(rs, NewRun("split", v, r)) /\ UNCHANGED <<rows, due>>
  BY <1>1, <1>2, <1>3 DEF Split, Started, PatientUser
<1>5. /\ Sound(f) /\ f \in Files /\ f.authority \in [Names -> Names \cup {NoName}] /\ f.known \subseteq Names
      /\ RunsFit(f, rs) /\ (\A a \in Articles : ArticleFits(f, rs, rows[a])) /\ DueFits(rs, rows, due)
  BY <1>1, <1>2 DEF FileIsSound, Sound, Files, Fits
<1>6. PICK g : g = file'  OBVIOUS
<1>7. g.known = f.known /\ g.authority = [f.authority EXCEPT ![v] = NoName]  BY <1>4, <1>5, <1>6 DEF Files
<1>8. v \in f.known /\ RootIn(f, r) /\ r \in Names /\ v # r  BY <1>3, <1>4, <1>5 DEF Sound, RootIn
<1>9. /\ \A n \in Names : RootOf(g, n) = IF n = v THEN v ELSE RootOf(f, n)
      /\ \A n : RootIn(f, n) => RootIn(g, n)
      /\ RootIn(g, v) /\ RootIn(g, r)
      /\ \A n \in Names : n # v => g.authority[n] = f.authority[n]
  BY <1>5, <1>7, <1>8 DEF RootOf, RootIn
<1>10. PICK next : next = runs'  OBVIOUS
<1>11. PICK run, last : OneMoreRun(next, rs, run, last, "split", v, r)
  BY <1>4, <1>8, <1>10, AppendedRun
<1>12. \A i \in DOMAIN rs : /\ next[i] = rs[i] /\ i \in DOMAIN next /\ i # last
                            /\ (Running(next, i) <=> Running(rs, i)) /\ (Merges(next, i) <=> Merges(rs, i))
                            /\ (Splits(next, i) <=> Splits(rs, i))
  BY <1>11 DEF OneMoreRun, Running, Merges, Splits
<1>13. /\ ~Merges(next, last) /\ next[last].entity = v /\ next[last].root = r
       /\ \A i \in DOMAIN next : i \in DOMAIN rs \/ i = last
       /\ last \in DOMAIN next /\ Splits(next, last) /\ next[last].kind = "split"
  BY <1>11 DEF OneMoreRun, Merges, Splits, Running
<1>14. \A i \in DOMAIN rs : Merges(rs, i) \/ Splits(rs, i) => ~About(rs[i], v) /\ ~About(rs[i], r)
  BY <1>2, <1>4 DEF Moving, Open, Merges, Splits, Running, About
<1>15. \A i \in DOMAIN rs : rs[i].entity \in Names /\ rs[i].root \in Names
  <2>1. \A i \in DOMAIN rs : rs[i] \in Runs  OBVIOUS
  <2>. QED  BY <2>1 DEF Runs
<1>16. RunsFit(g, next)
  <2>1. RunsNamed(g, next)
    <3>1. RunsNamed(f, rs) /\ f.known \subseteq g.known /\ v \in g.known /\ r \in g.known
      BY <1>5, <1>7, <1>8 DEF RunsFit, RootIn
    <3>. QED  BY ONLY <1>8, <1>11, <3>1, RunsNamedGrow
  <2>2. MovesRun(next)  BY <1>5, <1>11, <1>12, <1>13 DEF RunsFit, MovesRun, OneMoreRun
  <2>3. MergesLead(g, next)
    <3>1. ASSUME NEW i \in DOMAIN next, Merges(next, i)
          PROVE  /\ g.authority[next[i].entity] # NoName
                 /\ RootOf(g, next[i].entity) = RootOf(g, next[i].root)
                 /\ RootIn(g, next[i].root)
                      \/ \E j \in DOMAIN next : i < j /\ Merges(next, j) /\ next[j].entity = next[i].root
      <4>1. i \in DOMAIN rs /\ Merges(rs, i) /\ next[i] = rs[i]  BY <1>12, <1>13, <3>1
      <4>2. rs[i].entity # v /\ rs[i].root # v  BY <1>14, <4>1 DEF About
      <4>3. /\ f.authority[rs[i].entity] # NoName /\ RootOf(f, rs[i].entity) = RootOf(f, rs[i].root)
            /\ RootIn(f, rs[i].root) \/ \E j \in DOMAIN rs : i < j /\ Merges(rs, j) /\ rs[j].entity = rs[i].root
        BY <1>5, <4>1 DEF RunsFit, MergesLead
      <4>. QED  BY <1>9, <1>12, <1>15, <4>1, <4>2, <4>3
    <3>. QED  BY <3>1 DEF MergesLead
  <2>4. MergesApart(next)  BY <1>5, <1>12, <1>13 DEF RunsFit, MergesApart
  <2>5. SplitsStand(g, next)
    <3>1. ASSUME NEW i \in DOMAIN next, Running(next, i), next[i].kind = "split"
          PROVE  /\ RootIn(g, next[i].entity) /\ RootIn(g, next[i].root)
                 /\ \A j \in DOMAIN next, n \in Names : Merges(next, j) /\ About(next[i], n) => ~About(next[j], n)
      <4>1. CASE i \in DOMAIN rs  BY <1>5, <1>9, <1>12, <1>13, <3>1, <4>1 DEF RunsFit, SplitsStand
      <4>2. CASE i = last  BY <1>9, <1>12, <1>13, <1>14, <4>2 DEF About
      <4>. QED  BY <1>13, <4>1, <4>2
    <3>. QED  BY <3>1 DEF SplitsStand
  <2>6. SplitsApart(next)
    <3>1. ASSUME NEW i \in DOMAIN next, NEW j \in DOMAIN next, NEW n \in Names,
                 Splits(next, i), Splits(next, j), i # j, About(next[i], n)
          PROVE  ~About(next[j], n)
      <4>1. CASE i \in DOMAIN rs /\ j \in DOMAIN rs  BY <1>5, <1>12, <3>1, <4>1 DEF RunsFit, SplitsApart
      <4>2. CASE i = last /\ j \in DOMAIN rs  BY <1>12, <1>13, <1>14, <3>1, <4>2 DEF About
      <4>3. CASE j = last /\ i \in DOMAIN rs  BY <1>12, <1>13, <1>14, <3>1, <4>3 DEF About
      <4>. QED  BY <1>13, <3>1, <4>1, <4>2, <4>3
    <3>. QED  BY <3>1 DEF SplitsApart
  <2>. QED  BY <2>1, <2>2, <2>3, <2>4, <2>5, <2>6 DEF RunsFit
<1>17. ASSUME NEW a \in Articles
       PROVE  ArticleFits(g, next, rows[a])
  <2>1. ASSUME NEW row \in rows[a]
        PROVE  RowFits(g, next, row) /\ row.entity # v
    <3>1. PICK e : e = row.entity  OBVIOUS
    <3>2. RowFits(f, rs, row) /\ e \in f.known /\ e \in Names  BY <1>5, <3>1 DEF ArticleFits, RowFits, EntityFits
    <3>3. e # v /\ (RootOf(f, e) = r => e = r)  BY <1>1, <1>3, <3>1, SplitLeaves
    <3>4. EntityFits(g, next, e)  BY <1>7, <1>9, <1>12, <3>1, <3>2 DEF RowFits, EntityFits
    <3>5. ASSUME NEW m \in row.mentions, m.tag # NoName
          PROVE  m.tag \in g.known /\ TagFits(g, next, e, m.tag)
      <4>1. m.tag \in f.known /\ TagFits(f, rs, e, m.tag)  BY <3>1, <3>2, <3>5 DEF RowFits
      <4>2. PICK t \in Names : t = m.tag  BY <1>5, <4>1
      <4>3. CASE \E i \in DOMAIN rs : Splits(rs, i) /\ rs[i].entity = t /\ rs[i].root = e
        BY <1>7, <1>12, <4>1, <4>2, <4>3 DEF TagFits
      <4>4. CASE RootOf(f, t) = RootOf(f, e) /\ t # v
        BY <1>7, <1>9, <3>2, <3>3, <4>1, <4>2, <4>4 DEF TagFits
      <4>5. CASE RootOf(f, t) = RootOf(f, e) /\ t = v
        <5>1. RootOf(f, e) = r  BY <1>3, <1>4, <4>5 DEF RootOf
        <5>. QED  BY <1>7, <1>13, <3>3, <4>1, <4>2, <4>5, <5>1 DEF TagFits
      <4>. QED  BY <4>1, <4>2, <4>3, <4>4, <4>5 DEF TagFits
    <3>. QED  BY <3>1, <3>3, <3>4, <3>5 DEF RowFits
  <2>2. ASSUME NEW i \in DOMAIN next, Splits(next, i)
        PROVE  MayGiveBack(rows[a], next[i].entity, next[i].root)
    <3>1. CASE i \in DOMAIN rs  BY <1>5, <1>12, <2>2, <3>1 DEF ArticleFits, GivesBack
    <3>2. CASE i = last  BY <1>13, <2>1, <3>2 DEF MayGiveBack, Current
    <3>. QED  BY <1>13, <3>1, <3>2
  <2>. QED  BY <2>1, <2>2 DEF ArticleFits, GivesBack
<1>18. DueFits(next, rows, due)
  <2>1. due \subseteq DOMAIN next /\ \A j \in due : Running(next, j)  BY <1>5, <1>12 DEF DueFits
  <2>2. ASSUME NEW i \in DOMAIN next, NEW j \in DOMAIN next, i < j, Merges(next, i), Merges(next, j),
               next[j].entity = next[i].root, j \in due, i \notin due
        PROVE  \E a \in Articles : \E row \in rows[a] : row.entity = next[j].entity
    <3>1. i \in DOMAIN rs /\ j \in DOMAIN rs  BY <1>13, <2>2
    <3>. QED  BY <1>5, <1>12, <2>2, <3>1 DEF DueFits
  <2>. QED  BY <2>1, <2>2 DEF DueFits
<1>. QED  BY <1>4, <1>6, <1>10, <1>16, <1>17, <1>18 DEF Fits

\* NER ties names that are new: the others keep their roots.
LEMMA RegisteredFollows ==
  ASSUME NEW f, Sound(f), NEW used \in SUBSET Names, NEW g, g = Registered(f, used)
  PROVE  /\ f.known \subseteq g.known /\ \A n \in f.known : RootOf(g, n) = RootOf(f, n)
         /\ \A n : RootIn(f, n) => RootIn(g, n)
         /\ \A n \in f.known : g.authority[n] = f.authority[n]
<1>1. f \in Files /\ f.known \subseteq Names  BY DEF Sound, Files
<1>2. PICK authority : authority = [n \in Names |-> IF n \in used \ f.known /\ f.authority[n] = NoName
                                                   THEN f.claim[Spelling[n]] ELSE f.authority[n]]
  OBVIOUS
<1>3. g = [f EXCEPT !.known = @ \cup used, !.authority = authority]  BY <1>2 DEF Registered
<1>4. g.authority = authority  BY <1>1, <1>3 DEF Files
<1>5. \A n \in f.known : g.authority[n] = f.authority[n]  BY <1>1, <1>2, <1>4
<1>. QED  BY <1>5, RegisteredIsSound DEF RootOf

LEMMA PublishFits ==
  ASSUME FileIsSound, ArchiveIsTyped, Fits(file, runs, rows, due),
         NEW a \in Articles, NEW found \in Readings, Publish(a, found)
  PROVE  Fits(file', runs', rows', due')
<1>1. PICK f : f = file  OBVIOUS
<1>2. PICK used : used = {n \in Names : found[n] > 0}  OBVIOUS
<1>3. PICK g : g = Registered(f, used)  OBVIOUS
<1>4. PICK past : past = {[row EXCEPT !.current = FALSE] : row \in rows[a]}  OBVIOUS
<1>5. PICK new : new = PublishedRows(g, found)  OBVIOUS
<1>6. /\ file' = g /\ rows' = [rows EXCEPT ![a] = past \cup new] /\ UNCHANGED <<runs, due>>
  BY <1>1, <1>2, <1>3, <1>4, <1>5 DEF Publish
<1>7. Sound(f) /\ Sound(g) /\ g.known = f.known \cup used
  BY <1>1, <1>2, <1>3, RegisteredIsSound DEF FileIsSound
<1>8. /\ f.known \subseteq g.known /\ \A n \in f.known : RootOf(g, n) = RootOf(f, n)
      /\ \A n : RootIn(f, n) => RootIn(g, n)
      /\ \A n \in f.known : g.authority[n] = f.authority[n]
  BY <1>2, <1>3, <1>7, RegisteredFollows
<1>9. found \in [Names -> Nat] /\ \A n \in Names : found[n] > 0 => n \in g.known
  BY <1>2, <1>7, AuthorityFileConstants DEF Names
<1>10. PublishedFrom(new, g, found)  BY <1>5, <1>7, <1>9, PublishedRowsAre
<1>11. \A x \in past : ~x.current /\ \E row \in rows[a] : x.entity = row.entity /\ x.mentions = row.mentions
  <2>1. PICK article : article = rows[a] /\ ArticleIsWell(article)  BY DEF ArchiveIsTyped
  <2>2. past = {[row EXCEPT !.current = FALSE] : row \in article}  BY <1>4, <2>1
  <2>3. ArticleIsWell(article)  BY <2>1
  <2>4. \A x \in past : ~x.current /\ \E row \in article : x.entity = row.entity /\ x.mentions = row.mentions
    BY ONLY <2>2, <2>3, PastRowsAreWell
  <2>. QED  BY <2>1, <2>4
<1>12. PICK rs : rs = runs  OBVIOUS
<1>13. RunsFit(f, rs) /\ (\A b \in Articles : ArticleFits(f, rs, rows[b])) /\ DueFits(rs, rows, due)
  BY <1>1, <1>12 DEF Fits
<1>14. \A i \in DOMAIN rs : rs[i].entity \in f.known /\ rs[i].root \in f.known
  BY <1>13 DEF RunsFit, RunsNamed
<1>15. RunsFit(g, rs)
  <2>1. RunsNamed(g, rs)  BY <1>8, <1>13 DEF RunsFit, RunsNamed
  <2>2. MergesLead(g, rs)  BY <1>8, <1>13, <1>14 DEF RunsFit, MergesLead
  <2>3. SplitsStand(g, rs)  BY <1>8, <1>13 DEF RunsFit, SplitsStand
  <2>. QED  BY <1>13, <2>1, <2>2, <2>3 DEF RunsFit
<1>16. ASSUME NEW e, NEW mentions, EntityFits(f, rs, e),
              \A m \in mentions : m.tag # NoName => m.tag \in f.known /\ TagFits(f, rs, e, m.tag)
       PROVE  /\ EntityFits(g, rs, e)
              /\ \A m \in mentions : m.tag # NoName => m.tag \in g.known /\ TagFits(g, rs, e, m.tag)
  <2>1. EntityFits(g, rs, e)  BY <1>8, <1>16 DEF EntityFits
  <2>2. e \in f.known  BY <1>16 DEF EntityFits
  <2>3. ASSUME NEW m \in mentions, m.tag # NoName
        PROVE  m.tag \in g.known /\ TagFits(g, rs, e, m.tag)
    <3>1. m.tag \in f.known /\ TagFits(f, rs, e, m.tag)  BY <1>16, <2>3
    <3>. QED  BY <1>8, <2>2, <3>1 DEF TagFits
  <2>. QED  BY <2>1, <2>3
<1>17. ASSUME NEW b \in Articles, NEW row \in rows[b]
       PROVE  /\ EntityFits(f, rs, row.entity)
              /\ \A m \in row.mentions : m.tag # NoName => m.tag \in f.known /\ TagFits(f, rs, row.entity, m.tag)
  BY <1>13 DEF ArticleFits, RowFits
<1>18. \A b \in Articles : \A row \in rows[b] : RowFits(g, rs, row)  BY <1>16, <1>17 DEF RowFits
<1>19. \A x \in past : RowFits(g, rs, x)  BY <1>11, <1>18 DEF RowFits
<1>20. g.known \subseteq Names  BY <1>7 DEF Sound, Files
<1>21. ASSUME NEW x \in new
       PROVE  /\ x.current /\ RootIn(g, x.entity) /\ RowFits(g, rs, x)
              /\ \A m \in x.mentions : m.tag # NoName => RootOf(g, m.tag) = x.entity
  <2>1. /\ x.current /\ RootIn(g, x.entity)
        /\ \A m \in x.mentions : m.tag # NoName => m.tag \in g.known /\ RootOf(g, m.tag) = x.entity
    BY <1>10 DEF PublishedFrom
  <2>2. RootOf(g, x.entity) = x.entity  BY <2>1 DEF RootIn, RootOf
  <2>. QED  BY <2>1, <2>2 DEF RowFits, EntityFits, TagFits, RootIn
<1>22. GivesBack(rs, past \cup new)
  <2>1. ASSUME NEW i \in DOMAIN rs, Splits(rs, i)
        PROVE  MayGiveBack(past \cup new, rs[i].entity, rs[i].root)
    <3>1. RootIn(g, rs[i].entity) /\ rs[i].entity # rs[i].root /\ rs[i].entity \in Names
      BY <1>15, <1>20, <2>1 DEF RunsFit, SplitsStand, RunsNamed, Splits, RootIn
    <3>2. RootOf(g, rs[i].entity) = rs[i].entity /\ rs[i].entity # NoName
      BY <3>1 DEF RootIn, RootOf, Names, NoName
    <3>3. \A x \in Current(past \cup new) : x \in new  BY <1>11 DEF Current
    <3>. QED  BY <1>21, <3>1, <3>2, <3>3 DEF MayGiveBack, HoldsOf
  <2>. QED  BY <2>1 DEF GivesBack
<1>23. \A b \in Articles : rows'[b] = IF b = a THEN past \cup new ELSE rows[b]
  BY <1>6 DEF ArchiveIsTyped
<1>24. ASSUME NEW b \in Articles
       PROVE  ArticleFits(g, rs, rows'[b])
  <2>1. CASE b = a  BY <1>19, <1>21, <1>22, <1>23, <2>1 DEF ArticleFits
  <2>2. CASE b # a  BY <1>13, <1>18, <1>23, <2>2 DEF ArticleFits
  <2>. QED  BY <2>1, <2>2
<1>25. ASSUME NEW b \in Articles, NEW row \in rows[b]
       PROVE  \E x \in rows'[b] : x.entity = row.entity
  <2>1. CASE b = a
    <3>1. PICK x : x = [row EXCEPT !.current = FALSE]  OBVIOUS
    <3>2. x \in past  BY <1>4, <2>1, <3>1
    <3>3. row \in Rows  BY DEF ArchiveIsTyped, ArticleIsWell, RowIsWell
    <3>4. x.entity = row.entity  BY <3>1, <3>3 DEF Rows
    <3>. QED  BY <1>23, <2>1, <3>2, <3>4
  <2>2. CASE b # a  BY <1>23, <2>2
  <2>. QED  BY <2>1, <2>2
<1>26. DueFits(rs, rows', due)
  <2>1. ASSUME NEW i \in DOMAIN rs, NEW j \in DOMAIN rs, i < j, Merges(rs, i), Merges(rs, j),
               rs[j].entity = rs[i].root, j \in due, i \notin due
        PROVE  \E b \in Articles : \E x \in rows'[b] : x.entity = rs[j].entity
    <3>1. PICK b \in Articles : \E row \in rows[b] : row.entity = rs[j].entity  BY <1>13, <2>1 DEF DueFits
    <3>2. PICK row \in rows[b] : row.entity = rs[j].entity  BY <3>1
    <3>3. \E x \in rows'[b] : x.entity = row.entity  BY <1>25
    <3>. QED  BY <3>2, <3>3
  <2>. QED  BY <1>13, <2>1 DEF DueFits
<1>. QED  BY <1>6, <1>12, <1>15, <1>24, <1>26 DEF Fits

\* A merge's rows take its root; tags of both names have its root, too.
LEMMA MergedFits ==
  ASSUME NEW f, Sound(f), NEW rs \in Seq(Runs), RunsFit(f, rs), NEW k \in DOMAIN rs, Merges(rs, k),
         NEW v, v = rs[k].entity, NEW r, r = rs[k].root, NEW article, ArticleFits(f, rs, article),
         NEW out, MergedFrom(out, article, v, r)
  PROVE  ArticleFits(f, rs, out)
<1>1. v \in f.known /\ r \in f.known /\ f.known \subseteq Names  BY DEF RunsFit, RunsNamed, Sound, Files
<1>2. /\ RootOf(f, v) = RootOf(f, r)
      /\ RootIn(f, r) \/ \E j \in DOMAIN rs : k < j /\ Merges(rs, j) /\ rs[j].entity = r
  BY DEF RunsFit, MergesLead
<1>3. EntityFits(f, rs, r)  BY <1>1, <1>2 DEF EntityFits
<1>4. ASSUME NEW i \in DOMAIN rs, Splits(rs, i)
      PROVE  ~About(rs[i], v) /\ ~About(rs[i], r)
  <2>1. About(rs[k], v) /\ About(rs[k], r)  BY DEF About
  <2>2. Running(rs, i) /\ rs[i].kind = "split"  BY <1>4 DEF Splits
  <2>. QED  BY <1>1, <2>1, <2>2 DEF RunsFit, SplitsStand
<1>5. /\ \A x \in out : x.entity = r \/ (x.entity # v /\ x \in article)
      /\ \A x \in out : x.entity = r => \A m \in x.mentions :
           \E row \in article : IsOf(row, v, r) /\ TagComesFrom(m.tag, row, v)
  BY DEF MergedFrom
<1>6. ASSUME NEW x \in out
      PROVE  RowFits(f, rs, x)
  <2>1. CASE x.entity # r  BY <1>5, <2>1 DEF ArticleFits
  <2>2. CASE x.entity = r
    <3>1. ASSUME NEW m \in x.mentions, m.tag # NoName
          PROVE  m.tag \in f.known /\ TagFits(f, rs, r, m.tag)
      <4>1. PICK row \in article : IsOf(row, v, r) /\ TagComesFrom(m.tag, row, v)  BY <1>5, <2>2
      <4>2. CASE m.tag = v  BY <1>1, <1>2, <4>2 DEF TagFits
      <4>3. CASE m.tag # v
        <5>1. PICK o \in row.mentions : m.tag = o.tag  BY <3>1, <4>1, <4>3 DEF TagComesFrom
        <5>2. o.tag \in f.known /\ TagFits(f, rs, row.entity, o.tag)  BY <3>1, <5>1 DEF ArticleFits, RowFits
        <5>3. row.entity = v \/ row.entity = r  BY <4>1 DEF IsOf
        <5>4. RootOf(f, o.tag) = RootOf(f, row.entity)  BY <1>4, <5>2, <5>3 DEF TagFits, About
        <5>. QED  BY <1>2, <5>1, <5>2, <5>3, <5>4 DEF TagFits
      <4>. QED  BY <4>2, <4>3
    <3>. QED  BY <1>3, <2>2, <3>1 DEF RowFits
  <2>. QED  BY <2>1, <2>2
<1>7. GivesBack(rs, out)
  <2>1. ASSUME NEW i \in DOMAIN rs, Splits(rs, i)
        PROVE  MayGiveBack(out, rs[i].entity, rs[i].root)
    <3>1. MayGiveBack(article, rs[i].entity, rs[i].root)  BY <2>1 DEF ArticleFits, GivesBack
    <3>2. rs[i].entity # r /\ rs[i].root # r  BY <1>4, <2>1 DEF About
    <3>. QED  BY <1>5, <3>1, <3>2 DEF MayGiveBack, Current, HoldsOf
  <2>. QED  BY <2>1 DEF GivesBack
<1>. QED  BY <1>6, <1>7 DEF ArticleFits

\* A split's rows are the two roots', and hold the tags they held.
LEMMA SplitRowsFit ==
  ASSUME NEW f, Sound(f), NEW rs \in Seq(Runs), RunsFit(f, rs), NEW k \in DOMAIN rs, Splits(rs, k),
         NEW v, v = rs[k].entity, NEW r, r = rs[k].root, NEW article, ArticleFits(f, rs, article),
         NEW out, SplitFrom(out, article, v, r)
  PROVE  ArticleFits(f, rs, out)
<1>1. v \in f.known /\ r \in f.known /\ f.known \subseteq Names /\ v # r
  BY DEF RunsFit, RunsNamed, Sound, Files, Splits
<1>2. RootIn(f, v) /\ RootIn(f, r)  BY DEF RunsFit, SplitsStand, Splits
<1>3. \A x \in out :
       \/ x \in article /\ ~HoldsOf(x, v, r)
       \/ x.entity = v /\ \A m \in x.mentions : m.tag = NoName
       \/ x.entity = r /\ \A m \in x.mentions : m.tag # v /\ \E row \in article : row.entity = r /\ m \in row.mentions
  BY DEF SplitFrom
<1>4. ASSUME NEW x \in out
      PROVE  RowFits(f, rs, x)
  <2>1. CASE x \in article  BY <2>1 DEF ArticleFits
  <2>2. CASE x.entity = v /\ \A m \in x.mentions : m.tag = NoName
    BY <1>1, <1>2, <2>2 DEF RowFits, EntityFits
  <2>3. CASE x.entity = r /\ \A m \in x.mentions : m.tag # v /\ \E row \in article : row.entity = r /\ m \in row.mentions
    <3>1. ASSUME NEW m \in x.mentions, m.tag # NoName
          PROVE  m.tag \in f.known /\ TagFits(f, rs, r, m.tag)
      <4>1. PICK row \in article : row.entity = r /\ m \in row.mentions  BY <2>3
      <4>. QED  BY <3>1, <4>1 DEF ArticleFits, RowFits
    <3>. QED  BY <1>1, <1>2, <2>3, <3>1 DEF RowFits, EntityFits
  <2>. QED  BY <1>3, <2>1, <2>2, <2>3
<1>5. GivesBack(rs, out)
  <2>1. ASSUME NEW i \in DOMAIN rs, Splits(rs, i)
        PROVE  MayGiveBack(out, rs[i].entity, rs[i].root)
    <3>1. CASE i = k
      <4>1. \A x \in out : ~HoldsOf(x, v, r)  BY <1>1, <1>3 DEF HoldsOf
      <4>. QED  BY <3>1, <4>1 DEF MayGiveBack, Current
    <3>2. CASE i # k
      <4>1. MayGiveBack(article, rs[i].entity, rs[i].root)  BY <2>1 DEF ArticleFits, GivesBack
      <4>2. About(rs[k], v) /\ About(rs[k], r)  BY DEF About
      <4>3. ~About(rs[i], v) /\ ~About(rs[i], r)  BY <1>1, <2>1, <3>2, <4>2 DEF RunsFit, SplitsApart
      <4>. QED  BY <1>3, <4>1, <4>3 DEF MayGiveBack, Current, HoldsOf, About
    <3>. QED  BY <3>1, <3>2
  <2>. QED  BY <2>1 DEF GivesBack
<1>. QED  BY <1>4, <1>5 DEF ArticleFits

-----------------------------------------------------------------------------
(* The runs' own steps. *)

LEMMA NotEmptyBatch ==
  ASSUME NEW S \in SUBSET Articles, S # {}, NEW batch, IsBatch(batch, S, 0, BatchSize)
  PROVE  batch \subseteq S /\ batch # {}
<1>1. Beyond(S, 0) = S
  <2>1. \A a \in Articles : a > 0  BY AuthorityFileConstants DEF Articles
  <2>. QED  BY <2>1 DEF Beyond
<1>2. SUFFICES ASSUME batch = {}
               PROVE  FALSE
  BY <1>1 DEF IsBatch
<1>3. Cardinality(batch) = BatchSize  BY <1>1, <1>2 DEF IsBatch
<1>4. Cardinality(batch) = 0  BY <1>2, FS_EmptySet
<1>. QED  BY <1>3, <1>4, AuthorityFileConstants

\* What a batch makes of the articles' rows.
LEMMA MovedRows ==
  ASSUME FileIsSound, ArchiveIsTyped, Fits(file, runs, rows, due), NEW i \in due, NEW batch \in SUBSET Articles, Move(i, batch),
         NEW v, v = runs[i].entity, NEW r, r = runs[i].root
  PROVE  /\ v \in Names /\ r \in Names /\ v # r /\ i \in DOMAIN runs
         /\ \/ Merges(runs, i) /\ asked' = asked
            \/ Splits(runs, i) /\ asked' = Asked(batch, file, rows')
         /\ \A a \in Articles :
              \/ a \notin batch /\ rows'[a] = rows[a]
              \/ a \in batch /\ Merges(runs, i) /\ MergedFrom(rows'[a], rows[a], v, r)
              \/ a \in batch /\ Splits(runs, i) /\ SplitFrom(rows'[a], rows[a], v, r)
<1>1. PICK rs \in Seq(Runs) : rs = runs  BY DEF FileIsSound, FileTypes
<1>2. i \in DOMAIN rs /\ Running(rs, i)  BY <1>1 DEF Fits, DueFits
<1>3. rs[i] \in Runs  BY <1>1, <1>2
<1>4. v \in Names /\ r \in Names /\ v # r /\ (Merges(rs, i) \/ Splits(rs, i))
  <2>1. rs[i].phase = "move"  BY <1>1 DEF Move
  <2>2. v \in file.known /\ r \in file.known /\ rs[i].kind # "reindex" /\ v # r
    BY <1>1, <1>2, <2>1 DEF ArchiveIsTyped, RunsNamed
  <2>3. rs[i].kind \in {"merge", "split", "reindex"}  BY <1>3 DEF Runs
  <2>4. file.known \subseteq Names  BY DEF FileIsSound, Sound, Files
  <2>. QED  BY <1>2, <2>1, <2>2, <2>3, <2>4 DEF Merges, Splits
<1>5. (Merges(rs, i) => rs[i].kind = "merge") /\ (Splits(rs, i) => rs[i].kind = "split")  BY DEF Merges, Splits
<1>6. /\ rows' = [a \in Articles |->
                  IF a \notin batch THEN rows[a]
                  ELSE IF rs[i].kind = "merge" THEN MergedRows(rows[a], v, r)
                  ELSE SplitArticle(rows[a], v, r)]
      /\ asked' = IF rs[i].kind = "split" THEN Asked(batch, file, rows') ELSE asked
  BY <1>1 DEF Move
<1>7. ASSUME NEW a \in Articles
      PROVE  \/ a \notin batch /\ rows'[a] = rows[a]
             \/ a \in batch /\ Merges(rs, i) /\ MergedFrom(rows'[a], rows[a], v, r)
             \/ a \in batch /\ Splits(rs, i) /\ SplitFrom(rows'[a], rows[a], v, r)
  <2>1. PICK merged, split, article : /\ merged = MergedRows(rows[a], v, r)
                                      /\ split = SplitArticle(rows[a], v, r) /\ article = rows[a]
    OBVIOUS
  <2>2. ArticleIsWell(article)  BY <2>1 DEF ArchiveIsTyped
  <2>3. MergedFrom(merged, article, v, r)  BY <1>4, <2>1, <2>2, MergedRowsAre
  <2>4. SplitFrom(split, article, v, r)  BY <1>4, <2>1, <2>2, SplitArticleIs
  <2>5. rows'[a] = IF a \notin batch THEN article ELSE IF rs[i].kind = "merge" THEN merged ELSE split
    BY <1>6, <2>1
  <2>. QED  BY <1>4, <1>5, <2>1, <2>3, <2>4, <2>5
<1>8. \/ Merges(rs, i) /\ asked' = asked
      \/ Splits(rs, i) /\ asked' = Asked(batch, file, rows')
  BY <1>4, <1>5, <1>6
<1>. QED  BY <1>1, <1>2, <1>4, <1>7, <1>8

LEMMA MoveFits ==
  ASSUME FileIsSound, ArchiveIsTyped, Fits(file, runs, rows, due), NEW i \in due, NEW batch \in SUBSET Articles,
         Move(i, batch), due' = due \ {i}, UNCHANGED file
  PROVE  Fits(file', runs', rows', due')
<1>1. PICK f : f = file  OBVIOUS
<1>2. PICK rs \in Seq(Runs) : rs = runs  BY DEF FileIsSound, FileTypes
<1>3. PICK v, r : v = rs[i].entity /\ r = rs[i].root  OBVIOUS
<1>4. /\ Sound(f) /\ f.known \subseteq Names
      /\ RunsFit(f, rs) /\ (\A a \in Articles : ArticleFits(f, rs, rows[a])) /\ DueFits(rs, rows, due)
  BY <1>1, <1>2 DEF FileIsSound, Sound, Files, Fits
<1>5. i \in DOMAIN rs /\ Running(rs, i)  BY <1>4 DEF DueFits
<1>6. v \in Names /\ r \in Names /\ v # r  BY <1>2, <1>3, MovedRows
<1>7. UNCHANGED runs  BY DEF Move
<1>8. Merges(rs, i) => rs[i].kind = "merge"  BY DEF Merges
<1>9. Splits(rs, i) => rs[i].kind # "merge"  BY DEF Splits
<1>10. ASSUME NEW a \in Articles
       PROVE  \/ a \notin batch /\ rows'[a] = rows[a]
              \/ a \in batch /\ Merges(rs, i) /\ MergedFrom(rows'[a], rows[a], v, r)
              \/ a \in batch /\ Splits(rs, i) /\ SplitFrom(rows'[a], rows[a], v, r)
  BY <1>2, <1>3, MovedRows
<1>11. ASSUME NEW a \in Articles
       PROVE  ArticleFits(f, rs, rows'[a])
  <2>1. PICK article, out : article = rows[a] /\ out = rows'[a]  OBVIOUS
  <2>2. /\ ArticleFits(f, rs, article) /\ Sound(f) /\ RunsFit(f, rs) /\ rs \in Seq(Runs) /\ i \in DOMAIN rs
        /\ v = rs[i].entity /\ r = rs[i].root
    BY <1>3, <1>4, <1>5, <2>1
  <2>3. ASSUME Merges(rs, i), MergedFrom(out, article, v, r)
        PROVE  ArticleFits(f, rs, out)
    BY ONLY <2>2, <2>3, MergedFits
  <2>4. ASSUME Splits(rs, i), SplitFrom(out, article, v, r)
        PROVE  ArticleFits(f, rs, out)
    BY ONLY <2>2, <2>4, SplitRowsFit
  <2>. QED  BY <1>10, <2>1, <2>2, <2>3, <2>4
\* A row of another merge's entity leaves one.
<1>12. ASSUME NEW j \in DOMAIN rs, Merges(rs, j), j # i, NEW a \in Articles, NEW row \in rows[a],
              row.entity = rs[j].entity
       PROVE  \E x \in rows'[a] : x.entity = rs[j].entity
  <2>1. CASE a \notin batch  BY <1>10, <1>12, <2>1
  <2>2. CASE Merges(rs, i) /\ MergedFrom(rows'[a], rows[a], v, r)
    <3>1. row.entity # v  BY <1>3, <1>4, <1>5, <1>12, <2>2 DEF RunsFit, MergesApart
    <3>. QED  BY <1>12, <2>2, <3>1 DEF MergedFrom, IsOf
  <2>3. CASE Splits(rs, i) /\ SplitFrom(rows'[a], rows[a], v, r)
    <3>1. row.entity # r
      <4>1. About(rs[i], r) /\ Running(rs, i) /\ rs[i].kind = "split"  BY <1>3, <2>3 DEF About, Splits
      <4>2. ~About(rs[j], r)  BY <1>4, <1>5, <1>6, <1>12, <4>1 DEF RunsFit, SplitsStand
      <4>. QED  BY <1>12, <4>2 DEF About
    <3>2. ~HoldsOf(row, v, r)  BY <3>1 DEF HoldsOf
    <3>. QED  BY <1>12, <2>3, <3>2 DEF SplitFrom
  <2>. QED  BY <1>10, <2>1, <2>2, <2>3
\* A merge leaves a row of its root.
<1>13. ASSUME Merges(rs, i)
       PROVE  \E a \in Articles : \E x \in rows'[a] : x.entity = r
  <2>1. PICK S : S = {a \in Articles : \E row \in rows[a] : row.entity = v}  OBVIOUS
  <2>2. S = Pending(rs[i])  BY <1>3, <1>8, <1>13, <2>1 DEF Pending
  <2>3. S \in SUBSET Articles /\ S # {} /\ IsBatch(batch, S, 0, BatchSize)  BY <1>2, <2>1, <2>2 DEF Move
  <2>4. batch \subseteq S /\ batch # {}  BY ONLY <2>3, NotEmptyBatch
  <2>5. PICK a \in Articles : a \in batch /\ \E row \in rows[a] : row.entity = v  BY <2>1, <2>4
  <2>6. MergedFrom(rows'[a], rows[a], v, r)  BY <1>8, <1>9, <1>10, <1>13, <2>5
  <2>7. \E x \in rows'[a] : x.entity = r  BY <2>5, <2>6 DEF MergedFrom, IsOf
  <2>. QED  BY <2>7
<1>14. DueFits(rs, rows', due')
  <2>1. ASSUME NEW k \in DOMAIN rs, NEW j \in DOMAIN rs, k < j, Merges(rs, k), Merges(rs, j),
               rs[j].entity = rs[k].root, j \in due', k \notin due'
        PROVE  \E a \in Articles : \E x \in rows'[a] : x.entity = rs[j].entity
    <3>1. j # i /\ j \in due  BY <2>1
    <3>2. CASE k = i  BY <1>3, <1>13, <2>1, <3>2
    <3>3. CASE k # i
      <4>1. PICK a \in Articles : \E row \in rows[a] : row.entity = rs[j].entity
        BY <1>4, <2>1, <3>1, <3>3 DEF DueFits
      <4>2. \E x \in rows'[a] : x.entity = rs[j].entity  BY <1>12, <2>1, <3>1, <4>1
      <4>. QED  BY <4>2
    <3>. QED  BY <3>2, <3>3
  <2>. QED  BY <1>4, <2>1 DEF DueFits
<1>. QED  BY <1>1, <1>2, <1>4, <1>7, <1>11, <1>14 DEF Fits

LEMMA ReindexFits ==
  ASSUME FileIsSound, ArchiveIsTyped, Fits(file, runs, rows, due), NEW i \in due, NEW batch \in SUBSET Articles,
         \A j \in due : i <= j, Reindex(i, batch), due' = due \ {i}, UNCHANGED file
  PROVE  Fits(file', runs', rows', due')
<1>1. PICK f : f = file  OBVIOUS
<1>2. PICK rs \in Seq(Runs) : rs = runs  BY DEF FileIsSound, FileTypes
<1>3. PICK next : next = runs'  OBVIOUS
<1>4. PICK v, r : v = rs[i].entity /\ r = rs[i].root  OBVIOUS
<1>5. /\ Sound(f) /\ f.known \subseteq Names
      /\ RunsFit(f, rs) /\ (\A a \in Articles : ArticleFits(f, rs, rows[a])) /\ DueFits(rs, rows, due)
  BY <1>1, <1>2 DEF FileIsSound, Sound, Files, Fits
<1>6. i \in DOMAIN rs /\ Running(rs, i) /\ rs[i] \in Runs  BY <1>5 DEF DueFits
<1>7. v \in f.known /\ r \in f.known /\ v \in Names /\ r \in Names
  BY <1>4, <1>5, <1>6 DEF RunsFit, RunsNamed
<1>8. Reindexed(rs, next, i)  BY <1>2, <1>3, ReindexedRuns
<1>9. DOMAIN next = DOMAIN rs /\ rows' = rows /\ \A j \in DOMAIN rs : j \in Nat
  BY <1>8 DEF Reindexed, Reindex
<1>10. \A j \in DOMAIN rs : /\ next[j].entity = rs[j].entity /\ next[j].root = rs[j].root
                            /\ next[j].kind = rs[j].kind /\ (Running(next, j) => Running(rs, j))
                            /\ j # i => (Running(next, j) <=> Running(rs, j))
                            /\ Merges(next, j) <=> (Merges(rs, j) /\ j # i)
                            /\ Splits(next, j) <=> (Splits(rs, j) /\ j # i)
  BY <1>6, <1>8 DEF Reindexed, Running, Merges, Splits
<1>11. PICK pending : pending = Pending(rs[i])  OBVIOUS
<1>12. rs[i].phase = "reindex" \/ pending = {}  BY <1>2, <1>11 DEF Reindex
<1>13. ASSUME Merges(rs, i), NEW a \in Articles, NEW row \in rows[a]
       PROVE  row.entity # v
  BY <1>4, <1>11, <1>12, <1>13 DEF Pending, Merges
<1>14. ASSUME Splits(rs, i), NEW a \in Articles, NEW row \in rows[a]
       PROVE  ~HoldsOf(row, v, r)
  <2>1. PICK article : article = rows[a] /\ ArticleIsWell(article)  BY DEF ArchiveIsTyped
  <2>2. SplitRows(article, v, r) = {}  BY <1>4, <1>11, <1>12, <1>14, <2>1 DEF Pending, Splits
  <2>3. SplitRows(article, v, r) = {x \in article : HoldsOf(x, v, r)}  BY <1>7, <2>1, SplitRowsAre
  <2>. QED  BY <2>1, <2>2, <2>3
<1>15. RunsFit(f, next)
  <2>1. RunsNamed(f, next)
    <3>1. \A j \in DOMAIN rs : next[j].phase = rs[j].phase \/ next[j].phase = "reindex"
      BY <1>8 DEF Reindexed
    <3>. QED  BY <1>5, <1>9, <1>10, <3>1 DEF RunsFit, RunsNamed
  <2>2. MovesRun(next)
    <3>1. \A j \in DOMAIN rs : next[j].phase = "move" => next[j] = rs[j]  BY <1>8 DEF Reindexed
    <3>. QED  BY <1>5, <1>9, <3>1 DEF RunsFit, MovesRun
  <2>3. MergesLead(f, next)
    <3>1. ASSUME NEW j \in DOMAIN rs, Merges(rs, j), j # i
          PROVE  /\ f.authority[rs[j].entity] # NoName
                 /\ RootOf(f, rs[j].entity) = RootOf(f, rs[j].root)
                 /\ RootIn(f, rs[j].root)
                      \/ \E k \in DOMAIN rs : j < k /\ Merges(rs, k) /\ k # i /\ rs[k].entity = rs[j].root
      <4>1. /\ f.authority[rs[j].entity] # NoName
            /\ RootOf(f, rs[j].entity) = RootOf(f, rs[j].root)
            /\ RootIn(f, rs[j].root)
                 \/ \E k \in DOMAIN rs : j < k /\ Merges(rs, k) /\ rs[k].entity = rs[j].root
        BY <1>5, <3>1 DEF RunsFit, MergesLead
      <4>2. ~(j < i /\ Merges(rs, i) /\ rs[i].entity = rs[j].root)
        <5>1. SUFFICES ASSUME j < i, Merges(rs, i), rs[i].entity = rs[j].root
                       PROVE  FALSE
          OBVIOUS
        <5>2. j \notin due  BY <1>6, <1>9, <5>1
        <5>3. \E a \in Articles : \E row \in rows[a] : row.entity = v
          BY <1>4, <1>5, <1>6, <3>1, <5>1, <5>2 DEF DueFits
        <5>. QED  BY <1>13, <5>1, <5>3
      <4>. QED  BY <4>1, <4>2
    <3>. QED  BY <1>9, <1>10, <3>1 DEF MergesLead
  <2>4. MergesApart(next)  BY <1>5, <1>9, <1>10 DEF RunsFit, MergesApart
  <2>5. SplitsStand(f, next)  BY <1>5, <1>9, <1>10 DEF RunsFit, SplitsStand, About
  <2>6. SplitsApart(next)  BY <1>5, <1>9, <1>10 DEF RunsFit, SplitsApart, About
  <2>. QED  BY <2>1, <2>2, <2>3, <2>4, <2>5, <2>6 DEF RunsFit
<1>16. ASSUME NEW a \in Articles
       PROVE  ArticleFits(f, next, rows[a])
  <2>1. ASSUME NEW row \in rows[a]
        PROVE  RowFits(f, next, row)
    <3>1. PICK e : e = row.entity  OBVIOUS
    <3>2. RowFits(f, rs, row)  BY <1>5 DEF ArticleFits
    <3>3. EntityFits(f, next, e)
      <4>1. EntityFits(f, rs, e)  BY <3>1, <3>2 DEF RowFits
      <4>2. Merges(rs, i) => e # v  BY <1>13, <3>1
      <4>. QED  BY <1>4, <1>9, <1>10, <4>1, <4>2 DEF EntityFits
    <3>4. ASSUME NEW m \in row.mentions, m.tag # NoName
          PROVE  m.tag \in f.known /\ TagFits(f, next, e, m.tag)
      <4>1. m.tag \in f.known /\ TagFits(f, rs, e, m.tag)  BY <3>1, <3>2, <3>4 DEF RowFits
      <4>2. Splits(rs, i) => ~(v = m.tag /\ r = e)  BY <1>14, <3>1 DEF HoldsOf
      <4>. QED  BY <1>4, <1>9, <1>10, <4>1, <4>2 DEF TagFits
    <3>. QED  BY <3>1, <3>3, <3>4 DEF RowFits
  <2>2. GivesBack(next, rows[a])
    <3>1. GivesBack(rs, rows[a])  BY <1>5 DEF ArticleFits
    <3>. QED  BY <1>9, <1>10, <3>1 DEF GivesBack
  <2>. QED  BY <2>1, <2>2 DEF ArticleFits
<1>17. DueFits(next, rows, due')
  <2>1. due' \subseteq DOMAIN next /\ \A j \in due' : Running(next, j)  BY <1>5, <1>9, <1>10 DEF DueFits
  <2>2. ASSUME NEW k \in DOMAIN next, NEW j \in DOMAIN next, k < j, Merges(next, k), Merges(next, j),
               next[j].entity = next[k].root, j \in due', k \notin due'
        PROVE  \E a \in Articles : \E row \in rows[a] : row.entity = next[j].entity
    <3>1. /\ k \in DOMAIN rs /\ j \in DOMAIN rs /\ Merges(rs, k) /\ Merges(rs, j) /\ rs[j].entity = rs[k].root
          /\ k \notin due /\ j \in due /\ next[j].entity = rs[j].entity
      BY <1>9, <1>10, <2>2
    <3>. QED  BY <1>5, <2>2, <3>1 DEF DueFits
  <2>. QED  BY <2>1, <2>2 DEF DueFits
<1>. QED  BY <1>1, <1>3, <1>9, <1>15, <1>16, <1>17 DEF Fits

\* The lowest run of the cycle moves its next articles, or has none left to move.
LEMMA AdvanceRunFits ==
  ASSUME FileIsSound, ArchiveIsTyped, Fits(file, runs, rows, due), AdvanceRun
  PROVE  Fits(file', runs', rows', due')
<1>1. PICK i \in due, batch \in SUBSET Articles :
        (\A j \in due : i <= j) /\ due' = due \ {i} /\ (Move(i, batch) \/ Reindex(i, batch))
  BY DEF AdvanceRun
<1>2. UNCHANGED file  BY DEF AdvanceRun
<1>3. CASE Move(i, batch)  BY <1>1, <1>2, <1>3, MoveFits
<1>4. CASE Reindex(i, batch)  BY <1>1, <1>2, <1>4, ReindexFits
<1>. QED  BY <1>1, <1>3, <1>4

LEMMA RequestFits ==
  ASSUME PatientUser, FileIsSound, Fits(file, runs, rows, due), Request
  PROVE  Fits(file', runs', rows', due')
<1>1. PICK Good : Good = FitChanges  OBVIOUS
<1>2. Closed(Good) /\ \A r \in Names : ClosedBetween(Good, Good, r)  BY <1>1, FitChangesClosed
<1>3. Here \in Good
  BY <1>1 DEF FileIsSound, FileTypes, FitChanges, Here, Change, Changes, Sound
<1>4. Here' \in Good  BY <1>2, <1>3, RequestStays
<1>5. Here' = [file |-> file', runs |-> runs', silent |-> silent']  BY DEF Here, Change
<1>6. Fits(file', runs', rows, due)  BY <1>1, <1>4, <1>5 DEF FitChanges
<1>7. rows' = rows /\ due' = due  BY RequestFrame
<1>. QED  BY <1>6, <1>7

LEMMA StartCycleFits ==
  ASSUME FileIsSound, Fits(file, runs, rows, due), StartCycle
  PROVE  Fits(file', runs', rows', due')
<1>1. PICK rs, d : rs = runs /\ d = due'  OBVIOUS
<1>2. UNCHANGED <<file, rows, runs>> /\ d = {i \in DOMAIN rs : Open(i)}  BY <1>1 DEF StartCycle
<1>3. \A i \in DOMAIN rs : Running(rs, i) <=> i \in d  BY <1>1, <1>2 DEF Running, Open
<1>4. DueFits(rs, rows, d)  BY <1>2, <1>3 DEF DueFits, Merges
<1>. QED  BY <1>1, <1>2, <1>4 DEF Fits

LEMMA InitFits == ASSUME FileIsSound, Init
                  PROVE  Fits(file, runs, rows, due)
<1>1. PICK f : f = file  OBVIOUS
<1>2. \A a \in Articles : PublishedFrom(rows[a], f, reading[a])  BY <1>1, FirstRowsArePublished
<1>3. PICK rs, d : rs = runs /\ d = due  OBVIOUS
<1>4. DOMAIN rs = {} /\ d = {}  BY <1>3 DEF Init
<1>5. RunsFit(f, rs)
  BY <1>4 DEF RunsFit, RunsNamed, MovesRun, MergesLead, MergesApart, SplitsStand, SplitsApart
<1>6. ASSUME NEW a \in Articles, NEW row \in rows[a]
       PROVE  RowFits(f, rs, row)
  <2>1. /\ RootIn(f, row.entity)
        /\ \A m \in row.mentions : m.tag # NoName => m.tag \in f.known /\ RootOf(f, m.tag) = row.entity
    BY <1>2 DEF PublishedFrom
  <2>2. RootOf(f, row.entity) = row.entity  BY <2>1 DEF RootIn, RootOf
  <2>. QED  BY <2>1, <2>2 DEF RowFits, EntityFits, TagFits, RootIn
<1>7. \A a \in Articles : ArticleFits(f, rs, rows[a])  BY <1>4, <1>6 DEF ArticleFits, GivesBack
<1>8. DueFits(rs, rows, d)  BY <1>4 DEF DueFits
<1>. QED  BY <1>1, <1>3, <1>5, <1>7, <1>8 DEF Fits

RowsFit == Fits(file, runs, rows, due)

LEMMA NextFits ==
  ASSUME PatientUser, FileIsSound, ArchiveIsTyped, RowsFit, [Next]_vars
  PROVE  RowsFit'
<1>1. CASE UNCHANGED vars  BY <1>1 DEF vars, RowsFit
<1>2. CASE Request  BY <1>2, RequestFits DEF RowsFit
<1>3. ASSUME NEW v \in Names, NEW target \in Names, BeginMerge(v, target)
      PROVE  RowsFit'
  BY <1>3 DEF BeginMerge, RowsFit
<1>4. ASSUME NEW tx \in merging, Rollback(tx)
      PROVE  RowsFit'
  BY <1>4 DEF Rollback, RowsFit
<1>5. ASSUME NEW n \in Names, Split(n)
      PROVE  RowsFit'
  BY <1>5, SplitFits DEF RowsFit
<1>6. ASSUME NEW a \in Articles, NEW found \in Readings, Publish(a, found)
      PROVE  RowsFit'
  BY <1>6, PublishFits DEF RowsFit
<1>7. CASE StartCycle  BY <1>7, StartCycleFits DEF RowsFit
<1>8. CASE AdvanceRun  BY <1>8, AdvanceRunFits DEF RowsFit
<1>. QED  BY <1>1, <1>2, <1>3, <1>4, <1>5, <1>6, <1>7, <1>8, OneStep

LEMMA RowsStayFit == ASSUME OneRequestAtATime, PatientUser
                     PROVE  Spec => []RowsFit
<1>1. Init /\ FileIsSound => RowsFit  BY InitFits DEF RowsFit
<1>2. FileIsSound /\ ArchiveIsTyped /\ RowsFit /\ [Next]_vars => RowsFit'  BY NextFits
<1>. QED  BY <1>1, <1>2, FileStaysSound, ArchiveStaysTyped, PTL DEF Spec

\* Once the runs have ended, every row of an article, past ones too, is the root's of each name
\* it keeps: no order of merges into merges, splits, imports, claims and readings leaves a row
\* under a variant, or a mention under another root than its name's.
THEOREM QuietRowsAreTheRootsHolds == ASSUME OneRequestAtATime, PatientUser
                                     PROVE  Spec => []QuietRowsAreTheRoots
<1>1. ASSUME FileIsSound, ArchiveIsTyped, RowsFit, Quiet,
             NEW a \in Articles, NEW row \in rows[a], NEW m \in row.mentions
      PROVE  row.entity = RootOf(file, NameOf(m, row))
  <2>1. PICK f, rs, e : f = file /\ rs = runs /\ e = row.entity  OBVIOUS
  <2>2. \A i \in DOMAIN rs : ~Merges(rs, i) /\ ~Splits(rs, i)
    BY <1>1, <2>1 DEF Quiet, Open, Merges, Splits, Running
  <2>3. /\ EntityFits(f, rs, e)
        /\ m.tag # NoName => m.tag \in f.known /\ TagFits(f, rs, e, m.tag)
    BY <1>1, <2>1 DEF RowsFit, Fits, ArticleFits, RowFits
  <2>4. RootOf(f, e) = e  BY <2>2, <2>3 DEF EntityFits, RootIn, RootOf
  <2>5. m.tag # NoName => RootOf(f, m.tag) = e  BY <2>2, <2>3, <2>4 DEF TagFits
  <2>6. m.tag = NoName => NameOf(m, row) = e
    <3>1. RowIsWell(row)  BY <1>1 DEF ArchiveIsTyped, ArticleIsWell
    <3>2. ~(row.observed # NoName /\ \A x \in row.mentions : x.tag = NoName)  BY <3>1 DEF RowIsWell
    <3>. QED  BY <2>1, <3>2 DEF NameOf
  <2>7. m.tag # NoName => NameOf(m, row) = m.tag  BY DEF NameOf
  <2>. QED  BY <2>1, <2>4, <2>5, <2>6, <2>7
<1>2. FileIsSound /\ ArchiveIsTyped /\ RowsFit => QuietRowsAreTheRoots  BY <1>1 DEF QuietRowsAreTheRoots
<1>. QED  BY <1>2, FileStaysSound, ArchiveStaysTyped, RowsStayFit, PTL

-----------------------------------------------------------------------------
(* Mentions. *)

MentionsHeld ==
  \A a \in Articles : OneEach(Current(rows[a])) /\ SaidIn(Current(rows[a])) = Found(reading[a])

LEMMA PublishHoldsMentions ==
  ASSUME FileIsSound, ArchiveIsTyped, MentionsHeld, NEW a \in Articles, NEW found \in Readings, Publish(a, found)
  PROVE  MentionsHeld'
<1>1. PICK f : f = file  OBVIOUS
<1>2. PICK used : used = {n \in Names : found[n] > 0}  OBVIOUS
<1>3. PICK g : g = Registered(f, used)  OBVIOUS
<1>4. PICK past : past = {[row EXCEPT !.current = FALSE] : row \in rows[a]}  OBVIOUS
<1>5. PICK new : new = PublishedRows(g, found)  OBVIOUS
<1>6. rows' = [rows EXCEPT ![a] = past \cup new] /\ reading' = [reading EXCEPT ![a] = found]
  BY <1>1, <1>2, <1>3, <1>4, <1>5 DEF Publish
<1>7. Sound(g) /\ g.known = f.known \cup used
  BY <1>1, <1>2, <1>3, RegisteredIsSound DEF FileIsSound
<1>8. found \in [Names -> Nat] /\ \A n \in Names : found[n] > 0 => n \in g.known
  BY <1>2, <1>7, AuthorityFileConstants DEF Names
<1>9. PublishedFrom(new, g, found)  BY <1>5, <1>7, <1>8, PublishedRowsAre
<1>10. \A x \in past : ~x.current
  <2>1. PICK article : article = rows[a] /\ ArticleIsWell(article)  BY DEF ArchiveIsTyped
  <2>2. past = {[row EXCEPT !.current = FALSE] : row \in article}  BY <1>4, <2>1
  <2>3. ArticleIsWell(article)  BY <2>1
  <2>4. \A x \in past : ~x.current /\ \E row \in article : x.entity = row.entity /\ x.mentions = row.mentions
    BY ONLY <2>2, <2>3, PastRowsAreWell
  <2>. QED  BY <2>4
<1>11. Current(past \cup new) = new  BY <1>9, <1>10 DEF Current, PublishedFrom
<1>12. \A b \in Articles : /\ rows'[b] = IF b = a THEN past \cup new ELSE rows[b]
                           /\ reading'[b] = IF b = a THEN found ELSE reading[b]
  BY <1>6 DEF ArchiveIsTyped, FileIsSound, FileTypes
<1>13. ASSUME NEW b \in Articles
       PROVE  OneEach(Current(rows'[b])) /\ SaidIn(Current(rows'[b])) = Found(reading'[b])
  <2>1. CASE b = a  BY <1>9, <1>11, <1>12, <2>1 DEF PublishedFrom
  <2>2. CASE b # a  BY <1>12, <2>2 DEF MentionsHeld
  <2>. QED  BY <2>1, <2>2
<1>. QED  BY <1>13 DEF MentionsHeld

LEMMA AdvanceRunHoldsMentions ==
  ASSUME FileIsSound, ArchiveIsTyped, RowsFit, MentionsHeld, AdvanceRun
  PROVE  MentionsHeld'
<1>1. PICK i \in due, batch \in SUBSET Articles : Move(i, batch) \/ Reindex(i, batch)  BY DEF AdvanceRun
<1>2. UNCHANGED reading  BY DEF AdvanceRun
<1>3. CASE Reindex(i, batch)  BY <1>2, <1>3 DEF Reindex, MentionsHeld
<1>4. CASE Move(i, batch)
  <2>1. PICK rs, v, r : rs = runs /\ v = rs[i].entity /\ r = rs[i].root  OBVIOUS
  <2>2. /\ v \in Names /\ r \in Names /\ v # r /\ i \in DOMAIN rs
        /\ \A a \in Articles :
             \/ a \notin batch /\ rows'[a] = rows[a]
             \/ a \in batch /\ Merges(rs, i) /\ MergedFrom(rows'[a], rows[a], v, r)
             \/ a \in batch /\ Splits(rs, i) /\ SplitFrom(rows'[a], rows[a], v, r)
    BY <1>4, <2>1, MovedRows DEF RowsFit
  <2>3. ASSUME NEW a \in Articles
        PROVE  OneEach(Current(rows'[a])) /\ SaidIn(Current(rows'[a])) = SaidIn(Current(rows[a]))
    <3>1. PICK article, out : article = rows[a] /\ out = rows'[a]  OBVIOUS
    <3>2. ArticleIsWell(article) /\ OneEach(Current(article))  BY <3>1 DEF ArchiveIsTyped, MentionsHeld
    <3>3. ASSUME MergedFrom(out, article, v, r)
          PROVE  OneEach(Current(out)) /\ SaidIn(Current(out)) = SaidIn(Current(article))
      BY ONLY <2>2, <3>2, <3>3, MergedStayApart
    <3>4. ASSUME Splits(rs, i), SplitFrom(out, article, v, r)
          PROVE  OneEach(Current(out)) /\ SaidIn(Current(out)) = SaidIn(Current(article))
      <4>1. MayGiveBack(article, v, r)  BY <2>1, <2>2, <3>1, <3>4 DEF RowsFit, Fits, ArticleFits, GivesBack
      <4>. QED  BY <3>2, <3>4, <4>1 DEF SplitFrom
    <3>. QED  BY <2>2, <3>1, <3>2, <3>3, <3>4
  <2>. QED  BY <1>2, <2>3 DEF MentionsHeld
<1>. QED  BY <1>1, <1>3, <1>4

LEMMA InitHoldsMentions == ASSUME FileIsSound, Init
                           PROVE  MentionsHeld
<1>1. ASSUME NEW a \in Articles
      PROVE  OneEach(Current(rows[a])) /\ SaidIn(Current(rows[a])) = Found(reading[a])
  <2>1. PICK new : new = rows[a] /\ PublishedFrom(new, file, reading[a])  BY FirstRowsArePublished
  <2>2. Current(new) = new  BY <2>1 DEF Current, PublishedFrom
  <2>. QED  BY <2>1, <2>2 DEF PublishedFrom
<1>. QED  BY <1>1 DEF MentionsHeld

LEMMA NextHoldsMentions ==
  ASSUME FileIsSound, ArchiveIsTyped, RowsFit, MentionsHeld, [Next]_vars
  PROVE  MentionsHeld'
<1>1. CASE UNCHANGED vars  BY <1>1 DEF vars, MentionsHeld
<1>2. CASE Request  BY <1>2, RequestFrame DEF MentionsHeld
<1>3. ASSUME NEW v \in Names, NEW target \in Names, BeginMerge(v, target)
      PROVE  MentionsHeld'
  BY <1>3 DEF BeginMerge, MentionsHeld
<1>4. ASSUME NEW tx \in merging, Rollback(tx)
      PROVE  MentionsHeld'
  BY <1>4 DEF Rollback, MentionsHeld
<1>5. ASSUME NEW n \in Names, Split(n)
      PROVE  MentionsHeld'
  BY <1>5 DEF Split, MentionsHeld
<1>6. ASSUME NEW a \in Articles, NEW found \in Readings, Publish(a, found)
      PROVE  MentionsHeld'
  BY <1>6, PublishHoldsMentions
<1>7. CASE StartCycle  BY <1>7 DEF StartCycle, MentionsHeld
<1>8. CASE AdvanceRun  BY <1>8, AdvanceRunHoldsMentions
<1>. QED  BY <1>1, <1>2, <1>3, <1>4, <1>5, <1>6, <1>7, <1>8, OneStep

\* However often an article's rows are combined and split, with NER writing new ones meanwhile,
\* each mention of its last reading is in exactly one current row, and no two current rows are of
\* one entity: a split never gives mentions back to a name that has a current row there.
THEOREM MentionsAreKeptHolds == ASSUME OneRequestAtATime, PatientUser
                                PROVE  Spec => []MentionsAreKept
<1>1. Init /\ FileIsSound => MentionsHeld  BY InitHoldsMentions
<1>2. FileIsSound /\ ArchiveIsTyped /\ RowsFit /\ MentionsHeld /\ [Next]_vars => MentionsHeld'
  BY NextHoldsMentions
<1>3. MentionsHeld => MentionsAreKept
  BY DEF MentionsHeld, MentionsAreKept, OneEach, SaidApart, SaidIn, Said, Current, Found
<1>. QED  BY <1>1, <1>2, <1>3, FileStaysSound, ArchiveStaysTyped, RowsStayFit, PTL DEF Spec

-----------------------------------------------------------------------------
(* What the articles were last asked for with. *)

Entries == [id : Names, names : SUBSET Texts, typed : BOOLEAN, renamed : BOOLEAN]

AskedIsTyped == asked \in [Articles -> SUBSET Entries]

Entities(article) == {row.entity : row \in Current(article)}
NamesAt(f, e) == {x \in f.known : x = e \/ f.authority[x] = e}
Entry(f, e) == [id |-> e, names |-> {Spelling[n] : n \in NamesAt(f, e)}, typed |-> e \in f.typed, renamed |-> e \in f.renamed]
Unsaid(sil) == {Spelling[n] : n \in sil}
Bare(d, unsaid) == [d EXCEPT !.names = @ \ unsaid]
Shown(docs, unsaid) == {Bare(d, unsaid) : d \in docs}

\* A run has still to come to the article.
Ahead(run, a) == run.status = "running" /\ (run.phase = "move" \/ run.after < a)

Renewed(f, rs, e, a) ==
  f.authority[e] # NoName \/ \E i \in DOMAIN rs : rs[i].root = e /\ Ahead(rs[i], a)

\* The article has a row of x, or of an entity that a run has still to ask its document for.
Covered(f, rs, article, a, x) == \E e \in Entities(article) : e = x \/ Renewed(f, rs, e, a)

\* What an article is found under, it still has, or a split still takes it away.
Reachable(f, rs, article, id, a) ==
  \/ \E e \in Entities(article) : RootOf(f, e) = RootOf(f, id)
  \/ \E i \in DOMAIN rs : /\ rs[i].kind = "split" /\ Ahead(rs[i], a) /\ rs[i].entity = id
                          /\ rs[i].root \in Entities(article)

\* The document is what it would be now, but for the silent names, or it is renewed.
ToldOf(f, rs, sil, article, docs, found, a, x) ==
  /\ Covered(f, rs, article, a, x) \/ Shown(docs, Unsaid(sil)) = Shown(Document(f, article), Unsaid(sil))
  /\ \A d \in docs : d.id \in f.known /\ Reachable(f, rs, article, d.id, a)
  /\ \A n \in Names : found[n] > 0 => n \in f.known

Told(f, rs, sil, a, x) == ToldOf(f, rs, sil, rows[a], asked[a], reading[a], a, x)

LEMMA DocumentIs ==
  ASSUME NEW f, NEW article
  PROVE  Document(f, article) = {Entry(f, e) : e \in Entities(article) \ f.hidden}
BY DEF Document, Entry, Entities, Current, NamesAt

LEMMA EntryIsTyped ==
  ASSUME NEW f, f.known \subseteq Names, NEW e \in Names
  PROVE  Entry(f, e) \in Entries /\ Entry(f, e).id = e
BY DEF Entry, Entries, NamesAt, Texts

SameEntry(f, g, e, unsaid) ==
  /\ e \in f.hidden <=> e \in g.hidden
  /\ e \in f.typed <=> e \in g.typed
  /\ e \in f.renamed <=> e \in g.renamed
  /\ \A n \in NamesAt(f, e) : n \in NamesAt(g, e) \/ Spelling[n] \in unsaid
  /\ \A n \in NamesAt(g, e) : n \in NamesAt(f, e) \/ Spelling[n] \in unsaid

LEMMA SameEntryShows ==
  ASSUME NEW f, f.known \subseteq Names, NEW g, g.known \subseteq Names, NEW e \in Names, NEW unsaid, SameEntry(f, g, e, unsaid)
  PROVE  Bare(Entry(f, e), unsaid) = Bare(Entry(g, e), unsaid)
<1>1. PICK N, M : N = {Spelling[n] : n \in NamesAt(f, e)} /\ M = {Spelling[n] : n \in NamesAt(g, e)}  OBVIOUS
<1>2. N \ unsaid = M \ unsaid
  <2>1. \A t \in N \ unsaid : t \in M  BY <1>1 DEF SameEntry
  <2>2. \A t \in M \ unsaid : t \in N  BY <1>1 DEF SameEntry
  <2>. QED  BY <2>1, <2>2
<1>3. PICK t, u : t = (e \in f.typed) /\ u = (e \in f.renamed)  OBVIOUS
<1>4. t = (e \in g.typed) /\ u = (e \in g.renamed)
  <2>1. (e \in f.typed) = (e \in g.typed) /\ (e \in f.renamed) = (e \in g.renamed)  BY DEF SameEntry
  <2>. QED  BY <1>3, <2>1
<1>5. Entry(f, e) = [id |-> e, names |-> N, typed |-> t, renamed |-> u]  BY <1>1, <1>3 DEF Entry
<1>6. Entry(g, e) = [id |-> e, names |-> M, typed |-> t, renamed |-> u]  BY <1>1, <1>4 DEF Entry
<1>. QED  BY <1>2, <1>5, <1>6 DEF Bare

LEMMA SameDocument ==
  ASSUME NEW f, f.known \subseteq Names, NEW g, g.known \subseteq Names, NEW article, NEW unsaid,
         \A e \in Entities(article) : e \in Names /\ SameEntry(f, g, e, unsaid)
  PROVE  Shown(Document(f, article), unsaid) = Shown(Document(g, article), unsaid)
<1>1. \A e \in Entities(article) : Bare(Entry(f, e), unsaid) = Bare(Entry(g, e), unsaid)  BY SameEntryShows
<1>2. \A e \in Entities(article) : e \in f.hidden <=> e \in g.hidden  BY DEF SameEntry
<1>3. Shown(Document(f, article), unsaid) = {Bare(Entry(f, e), unsaid) : e \in Entities(article) \ f.hidden}
  BY DocumentIs DEF Shown
<1>4. Shown(Document(g, article), unsaid) = {Bare(Entry(g, e), unsaid) : e \in Entities(article) \ g.hidden}
  BY DocumentIs DEF Shown
<1>. QED  BY <1>1, <1>2, <1>3, <1>4

LEMMA ShownMore ==
  ASSUME NEW docs \in SUBSET Entries, NEW others \in SUBSET Entries, NEW less, NEW more, less \subseteq more,
         Shown(docs, less) = Shown(others, less)
  PROVE  Shown(docs, more) = Shown(others, more)
<1>1. ASSUME NEW D \in SUBSET Entries, NEW d \in D
      PROVE  Bare(Bare(d, less), more) = Bare(d, more)
  <2>1. PICK N, M, R : N = d.names /\ M = N \ less /\ R = N \ more  OBVIOUS
  <2>2. M \ more = R  BY <2>1
  <2>3. PICK e : e = Bare(d, less)  OBVIOUS
  <2>4. e = [d EXCEPT !.names = M]  BY <2>1, <2>3 DEF Bare
  <2>5. e.names = M /\ [e EXCEPT !.names = R] = [d EXCEPT !.names = R]  BY <2>4 DEF Entries
  <2>. QED  BY <2>1, <2>2, <2>3, <2>5 DEF Bare
<1>2. ASSUME NEW D \in SUBSET Entries
      PROVE  Shown(D, more) = {Bare(x, more) : x \in Shown(D, less)}
  BY <1>1 DEF Shown
<1>. QED  BY <1>2

-----------------------------------------------------------------------------
(* Changes of the file, for one article. *)

\* next is rs, and perhaps more.
Extends(next, rs) == DOMAIN rs \subseteq DOMAIN next /\ \A i \in DOMAIN rs : next[i] = rs[i]

\* Names that are tied stay tied.
KeepsTies(f, g) ==
  /\ f.known \subseteq g.known
  /\ \A n, m \in f.known : RootOf(f, n) = RootOf(f, m) => RootOf(g, n) = RootOf(g, m)
  /\ \A n \in f.known : f.authority[n] # NoName => g.authority[n] # NoName

LEMMA FollowsKeepsTies ==
  ASSUME NEW f, Sound(f), NEW g, NEW v, NEW r, Follows(f, g, v, r)
  PROVE  KeepsTies(f, g)
<1>1. f.known \subseteq Names  BY DEF Sound, Files
<1>. QED  BY <1>1 DEF Follows, KeepsTies

LEMMA ToldFollows ==
  ASSUME NEW f, Sound(f), NEW g, Sound(g), KeepsTies(f, g),
         NEW rs, NEW next, Extends(next, rs), NEW sil, NEW more, sil \subseteq more,
         NEW article, RowsNamed(f, article), NEW docs \in SUBSET Entries, NEW found, NEW a,
         NEW x, NEW y, ToldOf(f, rs, sil, article, docs, found, a, x),
         \A e \in Entities(article) :
           \/ e = y \/ Renewed(g, next, e, a)
           \/ e # x /\ SameEntry(f, g, e, Unsaid(more))
  PROVE  ToldOf(g, next, more, article, docs, found, a, y)
<1>1. f.known \subseteq g.known /\ f.known \subseteq Names /\ g.known \subseteq Names
  BY DEF KeepsTies, Sound, Files
<1>2. \A e \in Entities(article) : e \in f.known  BY DEF Entities, Current, RowsNamed
<1>3. ASSUME NEW d \in docs
      PROVE  d.id \in g.known /\ Reachable(g, next, article, d.id, a)
  <2>1. PICK n : n = d.id  OBVIOUS
  <2>2. n \in f.known /\ Reachable(f, rs, article, n, a)  BY <2>1 DEF ToldOf
  <2>3. CASE \E e \in Entities(article) : RootOf(f, e) = RootOf(f, n)
    BY <1>1, <1>2, <2>1, <2>2, <2>3 DEF Reachable, KeepsTies
  <2>4. CASE \E i \in DOMAIN rs : /\ rs[i].kind = "split" /\ Ahead(rs[i], a) /\ rs[i].entity = n
                                  /\ rs[i].root \in Entities(article)
    BY <1>1, <2>1, <2>2, <2>4 DEF Reachable, Extends
  <2>. QED  BY <2>2, <2>3, <2>4 DEF Reachable
<1>4. \A n \in Names : found[n] > 0 => n \in g.known  BY <1>1 DEF ToldOf
<1>5. ASSUME NEW e \in Entities(article), Renewed(f, rs, e, a)
      PROVE  Renewed(g, next, e, a)
  BY <1>2, <1>5 DEF Renewed, Extends, KeepsTies
<1>6. CASE \E e \in Entities(article) : e = y \/ Renewed(g, next, e, a)
  BY <1>3, <1>4, <1>6 DEF ToldOf, Covered
<1>7. CASE ~\E e \in Entities(article) : e = y \/ Renewed(g, next, e, a)
  <2>1. \A e \in Entities(article) : e # x /\ SameEntry(f, g, e, Unsaid(more))  BY <1>7
  <2>2. ~Covered(f, rs, article, a, x)  BY <1>5, <1>7, <2>1 DEF Covered
  <2>3. Shown(docs, Unsaid(sil)) = Shown(Document(f, article), Unsaid(sil))  BY <2>2 DEF ToldOf
  <2>4. Shown(docs, Unsaid(more)) = Shown(Document(f, article), Unsaid(more))
    <3>1. Unsaid(sil) \subseteq Unsaid(more)  BY DEF Unsaid
    <3>2. Document(f, article) \in SUBSET Entries  BY <1>1, <1>2, DocumentIs, EntryIsTyped
    <3>. QED  BY ONLY <2>3, <3>1, <3>2, ShownMore, docs \in SUBSET Entries
  <2>5. Shown(Document(f, article), Unsaid(more)) = Shown(Document(g, article), Unsaid(more))
    BY <1>1, <1>2, <2>1, SameDocument
  <2>. QED  BY <1>3, <1>4, <2>4, <2>5 DEF ToldOf
<1>. QED  BY <1>6, <1>7

\* Authorities and the entity's marks are the same.
LEMMA EntryStays ==
  ASSUME NEW f, Sound(f), NEW g, g.authority = f.authority, f.known \subseteq g.known, g.known \subseteq Names,
         NEW e \in f.known, e \in Names,
         e \in f.hidden <=> e \in g.hidden, e \in f.typed <=> e \in g.typed, e \in f.renamed <=> e \in g.renamed,
         NEW unsaid
  PROVE  SameEntry(f, g, e, unsaid)
<1>1. \A n \in NamesAt(f, e) : n \in NamesAt(g, e)  BY DEF NamesAt
<1>2. e # NoName  BY DEF Names, NoName
<1>3. \A n \in NamesAt(g, e) : n \in NamesAt(f, e)  BY <1>2 DEF NamesAt, Sound
<1>. QED  BY <1>1, <1>3 DEF SameEntry

\* Only the names tied have other entries; what a root is given with the name may be silent.
LEMMA JoinedEntry ==
  ASSUME NEW f, Sound(f), NEW v \in Names, NEW r \in Names, RootIn(f, v), RootIn(f, r), v # r,
         NEW g, g = Joined(f, v, r), NEW e \in f.known, e # v, NEW unsaid,
         e # r \/ (Spelling[v] \in unsaid /\ \A n \in Names : f.authority[n] # v)
  PROVE  SameEntry(f, g, e, unsaid)
<1>1. f.known \subseteq Names /\ e # NoName /\ f \in Files  BY DEF Sound, Files, Names, NoName
<1>2. Sound(g) /\ g.known = f.known /\ TiedTo(g, f, v, r)  BY JoinedIsSound
<1>3. \A n \in Names : g.authority[n] = IF n = v \/ f.authority[n] = v THEN r ELSE f.authority[n]
  BY <1>2 DEF TiedTo
<1>4. g.typed = f.typed \ {v} /\ g.hidden = f.hidden \ {v} /\ g.renamed = f.renamed  BY <1>1 DEF Joined, Files
<1>5. \A n \in NamesAt(f, e) : n \in NamesAt(g, e)  BY <1>1, <1>2, <1>3 DEF NamesAt, RootIn
<1>6. \A n \in NamesAt(g, e) : n \in NamesAt(f, e) \/ Spelling[n] \in unsaid  BY <1>1, <1>2, <1>3 DEF NamesAt
<1>. QED  BY <1>4, <1>5, <1>6 DEF SameEntry

-----------------------------------------------------------------------------
(* Requests. *)

ToldBut(x) ==
  {c \in Changes : /\ Sound(c.file)
                   /\ \A a \in Articles : RowsNamed(c.file, rows[a]) /\ Told(c.file, c.runs, c.silent, a, x)}

LEMMA ChangeTold ==
  ASSUME AskedIsTyped, NEW x, NEW y, NEW c \in ToldBut(x), NEW d \in Changes, Sound(d.file),
         NEW v, NEW r, Follows(c.file, d.file, v, r), Extends(d.runs, c.runs), c.silent \subseteq d.silent,
         \A a \in Articles : \A e \in Entities(rows[a]) :
           \/ e = y \/ Renewed(d.file, d.runs, e, a)
           \/ e # x /\ SameEntry(c.file, d.file, e, Unsaid(d.silent))
  PROVE  d \in ToldBut(y)
<1>1. PICK f, g, rs, next, sil, more :
        f = c.file /\ g = d.file /\ rs = c.runs /\ next = d.runs /\ sil = c.silent /\ more = d.silent
  OBVIOUS
<1>2. Sound(f) /\ Sound(g) /\ Follows(f, g, v, r) /\ Extends(next, rs) /\ sil \subseteq more
  BY <1>1 DEF ToldBut
<1>3. ASSUME NEW a \in Articles
      PROVE  RowsNamed(g, rows[a]) /\ Told(g, next, more, a, y)
  <2>1. RowsNamed(f, rows[a]) /\ Told(f, rs, sil, a, x)  BY <1>1 DEF ToldBut
  <2>2. RowsNamed(g, rows[a])  BY <1>2, <2>1 DEF RowsNamed, Follows
  <2>3. \A e \in Entities(rows[a]) :
          \/ e = y \/ Renewed(g, next, e, a)
          \/ e # x /\ SameEntry(f, g, e, Unsaid(more))
    BY <1>1
  <2>4. KeepsTies(f, g)  BY <1>2, FollowsKeepsTies
  <2>5. PICK article, docs, found : article = rows[a] /\ docs = asked[a] /\ found = reading[a]  OBVIOUS
  <2>6. docs \in SUBSET Entries /\ RowsNamed(f, article) /\ ToldOf(f, rs, sil, article, docs, found, a, x)
        /\ \A e \in Entities(article) :
             \/ e = y \/ Renewed(g, next, e, a)
             \/ e # x /\ SameEntry(f, g, e, Unsaid(more))
    BY <2>1, <2>3, <2>5 DEF AskedIsTyped, Told
  <2>7. ToldOf(g, next, more, article, docs, found, a, y)  BY ONLY <1>2, <2>4, <2>6, ToldFollows
  <2>8. Told(g, next, more, a, y)  BY <2>5, <2>7 DEF Told
  <2>. QED  BY <2>2, <2>8
<1>. QED  BY <1>1, <1>2, <1>3 DEF ToldBut

\* A run that has just started renews the articles of its root.
LEMMA NewRunRenews ==
  ASSUME NEW rs \in Seq(Runs), NEW kind \in {"merge", "split", "reindex"}, NEW e \in Names, NEW r \in Names,
         NEW next, next = Append(rs, NewRun(kind, e, r))
  PROVE  Extends(next, rs) /\ \A f : \A a \in Articles : Renewed(f, next, r, a)
<1>1. PICK run, last : OneMoreRun(next, rs, run, last, kind, e, r)  BY AppendedRun
<1>2. \A a \in Articles : a \in Nat /\ a > 0  BY AuthorityFileConstants DEF Articles
<1>3. last \in DOMAIN next /\ next[last].root = r /\ \A a \in Articles : Ahead(next[last], a)
  BY <1>1, <1>2 DEF OneMoreRun, Ahead
<1>. QED  BY <1>1, <1>3 DEF OneMoreRun, Extends, Renewed

LEMMA ToldButClosed ==
  ASSUME AskedIsTyped
  PROVE  Closed(ToldBut(NoName)) /\ \A r \in Names : ClosedBetween(ToldBut(NoName), ToldBut(r), r)
<1>1. ASSUME NEW x
      PROVE  ToldBut(x) \subseteq {c \in Changes : Sound(c.file)}
  BY DEF ToldBut
<1>2. ASSUME NEW x, NEW c \in ToldBut(x)
      PROVE  /\ Sound(c.file) /\ c.file \in Files /\ c.file.known \subseteq Names /\ c.runs \in Seq(Runs)
             /\ \A a \in Articles : \A e \in Entities(rows[a]) : e \in c.file.known /\ e \in Names /\ e # NoName
             /\ Extends(c.runs, c.runs)
  <2>1. Sound(c.file) /\ c.file \in Files /\ c.file.known \subseteq Names /\ c.runs \in Seq(Runs)
    BY DEF ToldBut, Changes, Sound, Files
  <2>2. \A a \in Articles : \A e \in Entities(rows[a]) : e \in c.file.known
    BY DEF ToldBut, RowsNamed, Entities, Current
  <2>. QED  BY <2>1, <2>2 DEF Extends, Names, NoName
<1>3. ASSUME NEW r \in Names
      PROVE  ToldBut(NoName) \subseteq ToldBut(r)
  <2>1. ASSUME NEW c \in ToldBut(NoName)
        PROVE  c \in ToldBut(r)
    <3>1. \A a \in Articles : Told(c.file, c.runs, c.silent, a, r)
      BY <1>2 DEF ToldBut, Told, ToldOf, Covered
    <3>. QED  BY <3>1 DEF ToldBut
  <2>. QED  BY <2>1
\* Changes that leave every name its root.
<1>4. ASSUME NEW x, NEW c \in ToldBut(x), NEW d \in Changes, Sound(d.file),
             d.file.authority = c.file.authority, c.file.known \subseteq d.file.known, d.silent = c.silent,
             Extends(d.runs, c.runs), NEW y,
             \A a \in Articles : \A e \in Entities(rows[a]) :
               \/ e = y \/ Renewed(d.file, d.runs, e, a)
               \/ /\ e # x /\ (e \in c.file.hidden <=> e \in d.file.hidden)
                  /\ e \in c.file.typed <=> e \in d.file.typed
                  /\ e \in c.file.renamed <=> e \in d.file.renamed
      PROVE  d \in ToldBut(y)
  <2>1. Follows(c.file, d.file, NoName, NoName)  BY <1>2, <1>4, SameFollows
  <2>2. d.file.known \subseteq Names  BY <1>4 DEF Sound, Files
  <2>3. ASSUME NEW a \in Articles, NEW e \in Entities(rows[a]), e # y, ~Renewed(d.file, d.runs, e, a)
        PROVE  e # x /\ SameEntry(c.file, d.file, e, Unsaid(d.silent))
    <3>1. PICK f, g : f = c.file /\ g = d.file  OBVIOUS
    <3>2. /\ Sound(f) /\ g.authority = f.authority /\ f.known \subseteq g.known /\ g.known \subseteq Names
          /\ e \in f.known /\ e \in Names
          /\ e \in f.hidden <=> e \in g.hidden
          /\ e \in f.typed <=> e \in g.typed
          /\ e \in f.renamed <=> e \in g.renamed
      BY <1>2, <1>4, <2>2, <2>3, <3>1
    <3>3. SameEntry(f, g, e, Unsaid(d.silent))  BY ONLY <3>2, EntryStays
    <3>. QED  BY <1>4, <2>3, <3>1, <3>3
  <2>. QED  BY <1>4, <2>1, <2>3, ChangeTold
<1>5. ASSUME NEW c \in ToldBut(NoName), NEW d \in Changes, Sound(d.file), Aside(c, d)
      PROVE  d \in ToldBut(NoName)
  BY <1>2, <1>4, <1>5 DEF Aside, SameMarks
<1>6. ASSUME NEW c \in ToldBut(NoName), NEW d \in Changes, Sound(d.file), NEW n \in Names, Marking(c, d, n)
      PROVE  d \in ToldBut(NoName)
  <2>1. /\ d.file.authority = c.file.authority /\ c.file.known \subseteq d.file.known /\ d.silent = c.silent
        /\ d.runs = Append(c.runs, NewRun("reindex", n, n)) \/ (n \notin c.file.known /\ d.runs = c.runs)
    BY <1>6 DEF Marking
  <2>2. ASSUME NEW a \in Articles, NEW e \in Entities(rows[a]), e # n
        PROVE  /\ e \in c.file.hidden <=> e \in d.file.hidden
               /\ e \in c.file.typed <=> e \in d.file.typed
               /\ e \in c.file.renamed <=> e \in d.file.renamed
    BY <1>6, <2>2 DEF Marking
  <2>3. CASE d.runs = Append(c.runs, NewRun("reindex", n, n))
    <3>1. PICK next, rs : next = d.runs /\ rs = c.runs  OBVIOUS
    <3>2. Extends(next, rs) /\ \A f : \A a \in Articles : Renewed(f, next, n, a)
      BY <1>2, <2>3, <3>1, NewRunRenews
    <3>. QED  BY <1>2, <1>4, <1>6, <2>1, <2>2, <3>1, <3>2
  <2>4. CASE n \notin c.file.known /\ d.runs = c.runs  BY <1>2, <1>4, <1>6, <2>1, <2>2, <2>4
  <2>. QED  BY <2>1, <2>3, <2>4
<1>7. ASSUME NEW c \in ToldBut(NoName), NEW d \in Changes, Sound(d.file), NEW v \in Names, NEW r \in Names,
             Merging(c, d, v, r)
      PROVE  d \in ToldBut(NoName)
  <2>1. PICK f, g, rs, next : f = c.file /\ g = d.file /\ rs = c.runs /\ next = d.runs  OBVIOUS
  <2>2. /\ RootIn(f, v) /\ RootIn(f, r) /\ v # r /\ g = Joined(f, v, r) /\ d.silent = c.silent
        /\ next = Append(rs, NewRun("merge", v, r)) /\ Sound(f) /\ rs \in Seq(Runs)
    BY <1>2, <1>7, <2>1 DEF Merging
  <2>3. Follows(f, g, v, r) /\ g.authority[v] # NoName  BY <2>2, JoinedFollows
  <2>4. Extends(next, rs) /\ \A h : \A a \in Articles : Renewed(h, next, r, a)  BY <2>2, NewRunRenews
  <2>5. ASSUME NEW a \in Articles, NEW e \in Entities(rows[a])
        PROVE  Renewed(g, next, e, a) \/ (e # NoName /\ SameEntry(f, g, e, Unsaid(d.silent)))
    <3>1. e \in f.known /\ e # NoName  BY <1>2, <2>1, <2>5
    <3>2. CASE e = v  BY <2>3, <3>2 DEF Renewed
    <3>3. CASE e = r  BY <2>4, <3>3
    <3>4. CASE e # v /\ e # r
      <4>1. SameEntry(f, g, e, Unsaid(d.silent))  BY <2>2, <3>1, <3>4, JoinedEntry
      <4>. QED  BY <3>1, <4>1
    <3>. QED  BY <3>2, <3>3, <3>4
  <2>6. /\ Follows(c.file, d.file, v, r) /\ Extends(d.runs, c.runs) /\ c.silent \subseteq d.silent
        /\ \A a \in Articles : \A e \in Entities(rows[a]) :
             \/ e = NoName \/ Renewed(d.file, d.runs, e, a)
             \/ e # NoName /\ SameEntry(c.file, d.file, e, Unsaid(d.silent))
    BY <2>1, <2>2, <2>3, <2>4, <2>5
  <2>. QED  BY <1>7, <2>6, ChangeTold
\* A name is tied without a run: the entries of its root gain it.
<1>8. ASSUME NEW x, NEW y, NEW c \in ToldBut(x), NEW d \in Changes, Sound(d.file),
             NEW v \in Names, NEW r \in Names, Adopting(c, d, v, r), x = y, c.silent \subseteq d.silent,
             Spelling[v] \in Unsaid(d.silent) \/ y = r
      PROVE  d \in ToldBut(y)
  <2>1. PICK f, g, h : f = c.file /\ g = d.file /\ h = Created(f, v)  OBVIOUS
  <2>2. /\ RootIn(f, r) /\ v # r /\ g = Joined(h, v, r) /\ d.runs = c.runs /\ Sound(f)
        /\ v \notin f.known \/ (RootIn(f, v) /\ ~InUse(f, v))
    BY <1>2, <1>8, <2>1 DEF Adopting
  <2>3. /\ Sound(h) /\ h.known = f.known \cup {v} /\ h.authority = f.authority
        /\ RootIn(h, v) /\ RootIn(h, r) /\ Follows(f, g, v, r)
    BY <2>1, <2>2, AdoptedFollows
  <2>4. \A n \in Names : h.authority[n] # v
    <3>1. CASE v \notin f.known  BY <2>2, <2>3, <3>1 DEF Sound, RootIn, Names, NoName
    <3>2. CASE ~InUse(f, v)  BY <2>3, <3>2 DEF InUse
    <3>. QED  BY <2>2, <3>1, <3>2
  <2>5. ASSUME NEW a \in Articles, NEW e \in Entities(rows[a])
        PROVE  e = y \/ (e # x /\ SameEntry(f, g, e, Unsaid(d.silent)))
    <3>1. e \in f.known /\ e \in Names  BY <1>2, <2>1, <2>5
    <3>2. e # v
      <4>1. CASE v \notin f.known  BY <3>1, <4>1
      <4>2. CASE ~InUse(f, v)  BY <2>5, <4>2 DEF InUse, Entities, Current
      <4>. QED  BY <2>2, <4>1, <4>2
    <3>3. CASE e # y
      <4>1. e # r \/ (Spelling[v] \in Unsaid(d.silent) /\ \A n \in Names : h.authority[n] # v)
        BY <1>8, <2>4, <3>3
      <4>2. e \in h.known  BY <2>3, <3>1
      <4>3. SameEntry(h, g, e, Unsaid(d.silent))
        BY <2>2, <2>3, <3>2, <4>1, <4>2, JoinedEntry
      <4>4. SameEntry(f, h, e, Unsaid(d.silent))
        <5>1. h.typed = f.typed /\ h.hidden = f.hidden /\ h.renamed = f.renamed
          BY <2>1, <2>2 DEF Created, Sound, Files
        <5>2. h.known \subseteq Names /\ f.known \subseteq h.known  BY <2>3 DEF Sound, Files
        <5>. QED  BY <2>2, <2>3, <3>1, <5>1, <5>2, EntryStays
      <4>5. SameEntry(f, g, e, Unsaid(d.silent))  BY <4>3, <4>4 DEF SameEntry
      <4>. QED  BY <1>8, <3>3, <4>5
    <3>. QED  BY <3>3
  <2>6. Extends(d.runs, c.runs)  BY <1>2, <2>2
  <2>. QED  BY <1>8, <2>1, <2>3, <2>5, <2>6, ChangeTold
<1>9. ASSUME NEW c \in ToldBut(NoName), NEW d \in Changes, Sound(d.file), NEW v \in Names, NEW r \in Names,
             Adopting(c, d, v, r), d.silent = c.silent \cup {v}
      PROVE  d \in ToldBut(NoName)
  <2>1. Spelling[v] \in Unsaid(d.silent) /\ c.silent \subseteq d.silent  BY <1>9 DEF Unsaid
  <2>. QED  BY <1>8, <1>9, <2>1
<1>10. ASSUME NEW r \in Names, NEW c \in ToldBut(r), NEW d \in Changes, Sound(d.file), NEW v \in Names,
              Adopting(c, d, v, r), d.silent = c.silent
       PROVE  d \in ToldBut(r)
  BY <1>8, <1>10
<1>11. ASSUME NEW r \in Names, NEW c \in ToldBut(r), NEW d \in Changes, Sound(d.file), RootIn(c.file, r),
              d.file = c.file, d.silent = c.silent, d.runs = Append(c.runs, NewRun("reindex", r, r))
       PROVE  d \in ToldBut(NoName)
  <2>1. PICK next, rs, f : next = d.runs /\ rs = c.runs /\ f = d.file  OBVIOUS
  <2>2. Extends(next, rs) /\ \A g : \A a \in Articles : Renewed(g, next, r, a)
    BY <1>2, <1>11, <2>1, NewRunRenews
  <2>3. \A e : SameEntry(f, f, e, Unsaid(d.silent))  BY DEF SameEntry
  <2>4. \A a \in Articles : \A e \in Entities(rows[a]) :
           \/ e = NoName \/ Renewed(d.file, d.runs, e, a)
           \/ e # r /\ SameEntry(c.file, d.file, e, Unsaid(d.silent))
    BY <1>11, <2>1, <2>2, <2>3
  <2>5. /\ Follows(c.file, d.file, NoName, NoName) /\ Extends(d.runs, c.runs) /\ c.silent \subseteq d.silent
        /\ c \in ToldBut(r) /\ d \in Changes /\ Sound(d.file)
    BY <1>2, <1>11, <2>1, <2>2, SameFollows
  <2>. QED  BY ONLY AskedIsTyped, <2>4, <2>5, ChangeTold
<1>12. PICK Good : Good = ToldBut(NoName)  OBVIOUS
<1>13. Closed(Good)  BY <1>1, <1>5, <1>6, <1>7, <1>9, <1>12 DEF Closed
<1>14. ASSUME NEW r \in Names, NEW Almost, Almost = ToldBut(r)
       PROVE  ClosedBetween(Good, Almost, r)
  BY <1>1, <1>3, <1>10, <1>11, <1>12, <1>14 DEF ClosedBetween
<1>. QED  BY <1>12, <1>13, <1>14

IndexTold == AskedIsTyped /\ \A a \in Articles : Told(file, runs, silent, a, NoName)

LEMMA RequestKeepsTold ==
  ASSUME FileIsSound, ArchiveIsTyped, IndexTold, Request
  PROVE  IndexTold'
<1>1. PICK Good : Good = ToldBut(NoName)  OBVIOUS
<1>2. Closed(Good) /\ \A r \in Names : \E Almost : ClosedBetween(Good, Almost, r)
  BY <1>1, ToldButClosed DEF IndexTold
<1>3. Here \in Good
  BY <1>1 DEF FileIsSound, FileTypes, ArchiveIsTyped, IndexTold, ToldBut, Here, Change, Changes, Sound
<1>4. Here' \in Good  BY <1>2, <1>3, RequestStays
<1>5. Here' = [file |-> file', runs |-> runs', silent |-> silent']  BY DEF Here, Change
<1>6. UNCHANGED <<rows, asked, reading>>  BY RequestFrame
<1>7. \A a \in Articles : Told(file', runs', silent', a, NoName)  BY <1>1, <1>4, <1>5 DEF ToldBut
<1>. QED  BY <1>6, <1>7 DEF IndexTold, AskedIsTyped, Told

\* A document made of the rows as they are.
LEMMA FreshIsTold ==
  ASSUME NEW f, NEW rs, NEW sil, NEW article, RowsNamed(f, article), NEW found,
         \A n \in Names : found[n] > 0 => n \in f.known, NEW a, NEW x
  PROVE  ToldOf(f, rs, sil, article, Document(f, article), found, a, x)
<1>1. ASSUME NEW d \in Document(f, article)
      PROVE  d.id \in f.known /\ Reachable(f, rs, article, d.id, a)
  <2>1. PICK e \in Entities(article) : d = Entry(f, e)  BY DocumentIs
  <2>2. d.id = e  BY <2>1 DEF Entry
  <2>3. e \in f.known  BY <2>1 DEF Entities, Current, RowsNamed
  <2>. QED  BY <2>1, <2>2, <2>3 DEF Reachable
<1>. QED  BY <1>1 DEF ToldOf

LEMMA AskedAfresh ==
  ASSUME AskedIsTyped, NEW f, f.known \subseteq Names, NEW rws, \A a \in Articles : RowsNamed(f, rws[a]),
         NEW S, NEW next, next = Asked(S, f, rws)
  PROVE  /\ next \in [Articles -> SUBSET Entries]
         /\ \A a \in Articles : next[a] = IF a \in S THEN Document(f, rws[a]) ELSE asked[a]
<1>1. ASSUME NEW article, RowsNamed(f, article)
      PROVE  Document(f, article) \in SUBSET Entries
  <2>1. \A e \in Entities(article) : e \in Names  BY <1>1 DEF Entities, Current, RowsNamed
  <2>. QED  BY <2>1, DocumentIs, EntryIsTyped
<1>2. PICK doc : doc = [a \in Articles |-> Document(f, rws[a])]  OBVIOUS
<1>3. \A a \in Articles : doc[a] \in SUBSET Entries  BY <1>1, <1>2
<1>4. next = [a \in Articles |-> IF a \in S THEN doc[a] ELSE asked[a]]  BY <1>2 DEF Asked
<1>5. \A a \in Articles : asked[a] \in SUBSET Entries  BY DEF AskedIsTyped
<1>. QED  BY <1>2, <1>3, <1>4, <1>5

LEMMA SplitKeepsTold ==
  ASSUME PatientUser, FileIsSound, ArchiveIsTyped, RowsFit, IndexTold, NEW v \in Names, Split(v)
  PROVE  IndexTold'
<1>1. PICK f, g, r, next : f = file /\ g = file' /\ r = f.authority[v] /\ next = runs'  OBVIOUS
<1>2. PICK rs \in Seq(Runs) : rs = runs  BY DEF FileIsSound, FileTypes
<1>3. /\ r # NoName /\ g = [f EXCEPT !.authority[v] = NoName]
      /\ next = Append(rs, NewRun("split", v, r)) /\ UNCHANGED <<rows, asked, reading, silent>>
  BY <1>1, <1>2 DEF Split, Started
<1>4. Sound(f) /\ f \in Files /\ f.authority \in [Names -> Names \cup {NoName}] /\ f.known \subseteq Names
  BY <1>1 DEF FileIsSound, Sound, Files
<1>5. /\ g.known = f.known /\ g.authority = [f.authority EXCEPT ![v] = NoName]
      /\ g.typed = f.typed /\ g.hidden = f.hidden /\ g.renamed = f.renamed
  BY <1>3, <1>4 DEF Files
<1>6. v \in f.known /\ RootIn(f, r) /\ r \in Names /\ v # r  BY <1>1, <1>3, <1>4 DEF Sound, RootIn
<1>7. /\ \A n \in Names : n # v => g.authority[n] = f.authority[n] /\ RootOf(g, n) = RootOf(f, n)
      /\ g.authority[v] = NoName /\ f.authority[v] = r
  BY <1>1, <1>4, <1>5, <1>6 DEF RootOf
<1>8. PICK run, last : OneMoreRun(next, rs, run, last, "split", v, r)  BY <1>3, <1>6, AppendedRun
<1>9. /\ Extends(next, rs) /\ last \in DOMAIN next
      /\ next[last].kind = "split" /\ next[last].entity = v /\ next[last].root = r
      /\ \A a : Ahead(next[last], a)
  BY <1>8 DEF OneMoreRun, Extends, Ahead
<1>10. ASSUME NEW a \in Articles
       PROVE  Told(g, next, silent, a, NoName)
  <2>1. PICK article, docs, found, sil : article = rows[a] /\ docs = asked[a] /\ found = reading[a] /\ sil = silent
    OBVIOUS
  <2>2. ToldOf(f, rs, sil, article, docs, found, a, NoName)  BY <1>1, <1>2, <2>1 DEF IndexTold, Told
  <2>3. \A e \in Entities(article) : e \in Names /\ e \in f.known /\ e # v /\ (RootOf(f, e) = r => e = r)
    <3>1. \A row \in article : row.entity # v /\ (RootOf(f, row.entity) = r => row.entity = r)
      BY <1>1, <2>1, SplitLeaves DEF RowsFit
    <3>2. \A row \in article : row.entity \in f.known  BY <1>1, <2>1 DEF ArchiveIsTyped, RowsNamed
    <3>. QED  BY <1>4, <3>1, <3>2 DEF Entities, Current
  <2>4. ASSUME NEW d \in docs
        PROVE  d.id \in g.known /\ Reachable(g, next, article, d.id, a)
    <3>1. PICK n : n = d.id  OBVIOUS
    <3>2. n \in f.known /\ n \in Names /\ Reachable(f, rs, article, n, a)  BY <1>4, <2>2, <3>1 DEF ToldOf
    <3>3. CASE \E i \in DOMAIN rs : /\ rs[i].kind = "split" /\ Ahead(rs[i], a) /\ rs[i].entity = n
                                    /\ rs[i].root \in Entities(article)
      BY <1>5, <1>9, <3>1, <3>2, <3>3 DEF Reachable, Extends
    <3>4. ASSUME NEW e \in Entities(article), RootOf(f, e) = RootOf(f, n)
          PROVE  Reachable(g, next, article, n, a)
      <4>1. CASE n # v  BY <1>7, <2>3, <3>2, <3>4, <4>1 DEF Reachable
      <4>2. CASE n = v
        <5>1. RootOf(f, n) = r  BY <1>3, <1>7, <4>2 DEF RootOf
        <5>2. e = r  BY <2>3, <3>4, <5>1
        <5>. QED  BY <1>9, <3>4, <4>2, <5>2 DEF Reachable
      <4>. QED  BY <4>1, <4>2
    <3>. QED  BY <1>5, <3>1, <3>2, <3>3, <3>4 DEF Reachable
  <2>5. \A n \in Names : found[n] > 0 => n \in g.known  BY <1>5, <2>2 DEF ToldOf
  <2>6. CASE r \in Entities(article)
    <3>1. Renewed(g, next, r, a)  BY <1>9 DEF Renewed
    <3>2. ToldOf(g, next, sil, article, docs, found, a, NoName)
      BY <2>4, <2>5, <2>6, <3>1 DEF ToldOf, Covered
    <3>. QED  BY <2>1, <3>2 DEF Told
  <2>7. CASE r \notin Entities(article)
    <3>1. ASSUME NEW e \in Entities(article)
          PROVE  SameEntry(f, g, e, Unsaid(sil)) /\ (Renewed(f, rs, e, a) => Renewed(g, next, e, a))
      <4>1. e # v /\ e # r /\ e # NoName /\ e \in Names  BY <2>3, <2>7 DEF Names, NoName
      <4>2. \A n \in Names : f.authority[n] = e <=> g.authority[n] = e  BY <1>7, <4>1
      <4>3. NamesAt(f, e) = NamesAt(g, e)  BY <1>4, <1>5, <4>2 DEF NamesAt
      <4>4. SameEntry(f, g, e, Unsaid(sil))  BY <1>5, <4>3 DEF SameEntry
      <4>5. f.authority[e] # NoName => g.authority[e] # NoName  BY <1>7, <4>1
      <4>. QED  BY <1>9, <4>4, <4>5 DEF Renewed, Extends
    <3>2. Shown(Document(f, article), Unsaid(sil)) = Shown(Document(g, article), Unsaid(sil))
      BY <1>4, <1>5, <2>3, <3>1, SameDocument
    <3>3. Covered(f, rs, article, a, NoName) => Covered(g, next, article, a, NoName)
      <4>1. NoName \notin Names  BY DEF Names, NoName
      <4>. QED  BY <2>3, <3>1, <4>1 DEF Covered
    <3>4. ToldOf(g, next, sil, article, docs, found, a, NoName)
      BY <2>2, <2>4, <2>5, <3>2, <3>3 DEF ToldOf
    <3>. QED  BY <2>1, <3>4 DEF Told
  <2>. QED  BY <2>6, <2>7
<1>. QED  BY <1>1, <1>3, <1>10 DEF IndexTold, AskedIsTyped, Told

\* NER's own article is told as it is; of another, an entity gains only silent names.
LEMMA PublishKeepsTold ==
  ASSUME FileIsSound, ArchiveIsTyped, ArchiveIsTyped', IndexTold,
         NEW a \in Articles, NEW found \in Readings, Publish(a, found)
  PROVE  IndexTold'
<1>1. PICK f, g, rs, used : f = file /\ g = file' /\ rs = runs /\ used = {n \in Names : found[n] > 0}  OBVIOUS
<1>2. PICK sil, more : sil = silent /\ more = silent'  OBVIOUS
<1>3. /\ g = Registered(f, used) /\ reading' = [reading EXCEPT ![a] = found]
      /\ asked' = Asked({a}, g, rows') /\ runs' = rs
      /\ more = sil \cup {n \in used : g.authority[n] # f.authority[n]}
  BY <1>1, <1>2 DEF Publish
<1>4. \A b \in Articles : b # a => rows'[b] = rows[b]  BY DEF Publish, ArchiveIsTyped
<1>5. /\ Sound(f) /\ f.known \subseteq Names /\ Sound(g) /\ g.known = f.known \cup used /\ g.known \subseteq Names
      /\ f \in Files /\ f.authority \in [Names -> Names \cup {NoName}] /\ used \in SUBSET Names
  <2>1. Sound(f) /\ used \in SUBSET Names  BY <1>1 DEF FileIsSound
  <2>2. Sound(g) /\ g.known = f.known \cup used  BY <1>3, <2>1, RegisteredIsSound
  <2>. QED  BY <2>1, <2>2 DEF Sound, Files
<1>6. /\ \A n \in f.known : RootOf(g, n) = RootOf(f, n) /\ g.authority[n] = f.authority[n]
      /\ g.typed = f.typed /\ g.hidden = f.hidden /\ g.renamed = f.renamed
  <2>1. \A n \in f.known : RootOf(g, n) = RootOf(f, n) /\ g.authority[n] = f.authority[n]
    BY <1>3, <1>5, RegisteredFollows
  <2>2. PICK authority : g = [f EXCEPT !.known = @ \cup used, !.authority = authority]
    BY <1>3 DEF Registered
  <2>. QED  BY <1>5, <2>1, <2>2 DEF Files
<1>7. \A b \in Articles : RowsNamed(g, rows'[b])  BY <1>1 DEF ArchiveIsTyped
<1>8. PICK new : new = asked'  OBVIOUS
<1>9. /\ new \in [Articles -> SUBSET Entries]
      /\ \A b \in Articles : new[b] = IF b \in {a} THEN Document(g, rows'[b]) ELSE asked[b]
  BY <1>3, <1>5, <1>7, <1>8, AskedAfresh DEF IndexTold
<1>10. \A b \in Articles : reading'[b] = IF b = a THEN found ELSE reading[b]  BY <1>3 DEF FileIsSound, FileTypes
<1>11. ToldOf(g, rs, more, rows'[a], new[a], found, a, NoName)
  <2>1. PICK article : article = rows'[a]  OBVIOUS
  <2>2. \A n \in Names : found[n] > 0 => n \in g.known  BY <1>1, <1>5
  <2>3. RowsNamed(g, article)  BY <1>7, <2>1
  <2>4. ToldOf(g, rs, more, article, Document(g, article), found, a, NoName)  BY ONLY <2>2, <2>3, FreshIsTold
  <2>. QED  BY <1>9, <2>1, <2>4
<1>12. KeepsTies(f, g)  BY <1>5, <1>6 DEF KeepsTies
<1>13. ASSUME NEW e \in f.known
       PROVE  SameEntry(f, g, e, Unsaid(more))
  <2>1. e \in Names /\ e # NoName  BY <1>5 DEF Names, NoName
  <2>2. \A n \in NamesAt(f, e) : n \in NamesAt(g, e)  BY <1>5, <1>6 DEF NamesAt
  <2>3. ASSUME NEW n \in NamesAt(g, e), n \notin NamesAt(f, e)
        PROVE  Spelling[n] \in Unsaid(more)
    <3>1. n \in used /\ n \notin f.known /\ n \in Names /\ g.authority[n] = e
      BY <1>5, <1>6, <2>3 DEF NamesAt
    <3>2. f.authority[n] = NoName  BY <1>5, <3>1 DEF Sound
    <3>. QED  BY <1>3, <2>1, <3>1, <3>2 DEF Unsaid
  <2>. QED  BY <1>6, <2>2, <2>3 DEF SameEntry
<1>14. ASSUME NEW b \in Articles, b # a
       PROVE  ToldOf(g, rs, more, rows[b], asked[b], reading[b], b, NoName)
  <2>1. PICK article, docs, was : article = rows[b] /\ docs = asked[b] /\ was = reading[b]  OBVIOUS
  <2>2. ToldOf(f, rs, sil, article, docs, was, b, NoName) /\ docs \in SUBSET Entries
    BY <1>1, <1>2, <2>1 DEF IndexTold, Told, AskedIsTyped
  <2>3. RowsNamed(f, article)  BY <1>1, <2>1 DEF ArchiveIsTyped
  <2>4. \A e \in Entities(article) : e # NoName /\ SameEntry(f, g, e, Unsaid(more))
    <3>1. \A e \in Entities(article) : e \in f.known  BY <2>3 DEF Entities, Current, RowsNamed
    <3>. QED  BY <1>5, <1>13, <3>1 DEF Names, NoName
  <2>5. Extends(rs, rs) /\ sil \subseteq more  BY <1>3 DEF Extends
  <2>6. ToldOf(g, rs, more, article, docs, was, b, NoName)
    BY ONLY <1>5, <1>12, <2>2, <2>3, <2>4, <2>5, ToldFollows
  <2>. QED  BY <2>1, <2>6
<1>15. ASSUME NEW b \in Articles
       PROVE  ToldOf(g, rs, more, rows'[b], new[b], reading'[b], b, NoName)
  <2>1. CASE b = a  BY <1>10, <1>11, <2>1
  <2>2. CASE b # a  BY <1>4, <1>9, <1>10, <1>14, <2>2
  <2>. QED  BY <2>1, <2>2
<1>. QED  BY <1>1, <1>2, <1>3, <1>8, <1>9, <1>15 DEF IndexTold, AskedIsTyped, Told

\* A merge's root is asked for by the run itself, when all rows are moved.
LEMMA MergedIsTold ==
  ASSUME NEW f, Sound(f), NEW rs, RunsFit(f, rs), NEW i \in DOMAIN rs, Merges(rs, i),
         NEW v \in Names, v = rs[i].entity, NEW r \in Names, r = rs[i].root, v # r,
         NEW sil, NEW article, NEW out, MergedFrom(out, article, v, r),
         NEW docs, NEW found, NEW a, ToldOf(f, rs, sil, article, docs, found, a, NoName)
  PROVE  ToldOf(f, rs, sil, out, docs, found, a, NoName)
<1>1. RootOf(f, v) = RootOf(f, r)  BY DEF RunsFit, MergesLead
<1>2. Renewed(f, rs, r, a)  BY DEF Renewed, Ahead, Merges, Running
<1>3. \A e : e # v /\ e # r => (e \in Entities(article) <=> e \in Entities(out))
  BY DEF MergedFrom, Entities, Current, IsOf
<1>4. v \in Entities(article) \/ r \in Entities(article) <=> r \in Entities(out)
  <2>1. ASSUME NEW row \in Current(article), row.entity = v \/ row.entity = r
        PROVE  r \in Entities(out)
    <3>1. IsOf(row, v, r)  BY <2>1 DEF IsOf
    <3>2. \E x \in out : x.current /\ x.entity = r  BY <3>1 DEF MergedFrom
    <3>. QED  BY <3>2 DEF Entities, Current
  <2>2. ASSUME NEW x \in out, x.current, x.entity = r
        PROVE  v \in Entities(article) \/ r \in Entities(article)
    <3>1. Said(x) = UNION {Said(row) : row \in {y \in Current(article) : IsOf(y, v, r)}}
      BY <2>2 DEF MergedFrom
    <3>2. RowIsWell(x)  BY DEF MergedFrom, ArticleIsWell
    <3>3. Said(x) # {}  BY <3>2 DEF RowIsWell, Said
    <3>4. \E row \in Current(article) : IsOf(row, v, r)  BY <3>1, <3>3
    <3>. QED  BY <3>4 DEF Entities, IsOf
  <2>. QED  BY <2>1, <2>2 DEF Entities, Current
<1>5. v \notin Entities(out)  BY DEF MergedFrom, Entities, Current
<1>6. ASSUME NEW d \in docs
      PROVE  d.id \in f.known /\ Reachable(f, rs, out, d.id, a)
  <2>1. PICK n : n = d.id  OBVIOUS
  <2>2. n \in f.known /\ Reachable(f, rs, article, n, a)  BY <2>1 DEF ToldOf
  <2>3. ASSUME NEW e \in Entities(article), RootOf(f, e) = RootOf(f, n)
        PROVE  Reachable(f, rs, out, n, a)
    BY <1>1, <1>3, <1>4, <2>3 DEF Reachable
  <2>4. ASSUME NEW j \in DOMAIN rs, rs[j].kind = "split", Ahead(rs[j], a), rs[j].entity = n,
               rs[j].root \in Entities(article)
        PROVE  Reachable(f, rs, out, n, a)
    <3>1. Running(rs, j)  BY <2>4 DEF Running, Ahead
    <3>2. About(rs[i], v) /\ About(rs[i], r)  BY DEF About
    <3>3. ~About(rs[j], v) /\ ~About(rs[j], r)  BY <2>4, <3>1, <3>2 DEF RunsFit, SplitsStand
    <3>. QED  BY <1>3, <2>4, <3>3 DEF Reachable, About
  <2>. QED  BY <2>1, <2>2, <2>3, <2>4 DEF Reachable
<1>7. CASE r \in Entities(out)  BY <1>2, <1>6, <1>7 DEF ToldOf, Covered
<1>8. CASE r \notin Entities(out)
  <2>1. Entities(out) = Entities(article)  BY <1>3, <1>4, <1>5, <1>8
  <2>2. Document(f, out) = Document(f, article)  BY <2>1, DocumentIs
  <2>. QED  BY <1>6, <2>1, <2>2 DEF ToldOf, Covered
<1>. QED  BY <1>7, <1>8

LEMMA MoveKeepsTold ==
  ASSUME FileIsSound, ArchiveIsTyped, ArchiveIsTyped', RowsFit, IndexTold,
         NEW i \in due, NEW batch \in SUBSET Articles, Move(i, batch), UNCHANGED <<file, reading, silent>>
  PROVE  IndexTold'
<1>1. PICK f, rs, v, r, sil, new :
        f = file /\ rs = runs /\ v = runs[i].entity /\ r = runs[i].root /\ sil = silent /\ new = asked'
  OBVIOUS
<1>2. /\ v \in Names /\ r \in Names /\ v # r /\ i \in DOMAIN rs
      /\ \/ Merges(rs, i) /\ new = asked
         \/ Splits(rs, i) /\ new = Asked(batch, f, rows')
      /\ \A a \in Articles :
           \/ a \notin batch /\ rows'[a] = rows[a]
           \/ a \in batch /\ Merges(rs, i) /\ MergedFrom(rows'[a], rows[a], v, r)
           \/ a \in batch /\ Splits(rs, i) /\ SplitFrom(rows'[a], rows[a], v, r)
  BY <1>1, MovedRows DEF RowsFit
<1>3. runs' = rs  BY <1>1 DEF Move
<1>4. Sound(f) /\ f.known \subseteq Names /\ RunsFit(f, rs)
  BY <1>1 DEF FileIsSound, Sound, Files, RowsFit, Fits
<1>5. ~(Merges(rs, i) /\ Splits(rs, i))  BY DEF Merges, Splits
<1>6. \A a \in Articles : RowsNamed(f, rows'[a])  BY <1>1 DEF ArchiveIsTyped
<1>7. /\ new \in [Articles -> SUBSET Entries]
      /\ Merges(rs, i) => new = asked
      /\ Splits(rs, i) => \A a \in Articles : new[a] = IF a \in batch THEN Document(f, rows'[a]) ELSE asked[a]
  BY <1>2, <1>4, <1>5, <1>6, AskedAfresh DEF IndexTold, AskedIsTyped
<1>8. \A a \in Articles : ToldOf(f, rs, sil, rows[a], asked[a], reading[a], a, NoName)
  BY <1>1 DEF IndexTold, Told
<1>9. ASSUME NEW a \in Articles
      PROVE  ToldOf(f, rs, sil, rows'[a], new[a], reading[a], a, NoName)
  <2>1. PICK article, out, docs, found :
          article = rows[a] /\ out = rows'[a] /\ docs = asked[a] /\ found = reading[a]
    OBVIOUS
  <2>2. ToldOf(f, rs, sil, article, docs, found, a, NoName)  BY <1>8, <2>1
  <2>3. CASE a \notin batch
    <3>1. out = article /\ new[a] = docs  BY <1>2, <1>7, <2>1, <2>3
    <3>. QED  BY <2>1, <2>2, <3>1
  <2>4. CASE a \in batch /\ Merges(rs, i) /\ MergedFrom(out, article, v, r)
    <3>1. ToldOf(f, rs, sil, out, docs, found, a, NoName)
      BY <1>1, <1>2, <1>4, <2>2, <2>4, MergedIsTold
    <3>. QED  BY <1>7, <2>1, <2>4, <3>1
  <2>5. CASE a \in batch /\ Splits(rs, i)
    <3>1. \A n \in Names : found[n] > 0 => n \in f.known  BY <2>2 DEF ToldOf
    <3>2. RowsNamed(f, out)  BY <1>6, <2>1
    <3>3. ToldOf(f, rs, sil, out, Document(f, out), found, a, NoName)  BY ONLY <3>1, <3>2, FreshIsTold
    <3>. QED  BY <1>7, <2>1, <2>5, <3>3
  <2>. QED  BY <1>2, <2>1, <2>3, <2>4, <2>5
<1>. QED  BY <1>1, <1>3, <1>7, <1>9 DEF IndexTold, AskedIsTyped, Told

\* A run passes no article of its root by.
LEMMA PassedBy ==
  ASSUME FileIsSound, ArchiveIsTyped, RowsFit, NEW i \in due, NEW batch \in SUBSET Articles, Reindex(i, batch),
         NEW a \in Articles, a \notin batch, runs[i].root \in Entities(rows[a]), Ahead(runs[i], a)
  PROVE  Ahead(runs'[i], a)
<1>1. PICK last \in 0..LastArticle :
        /\ IsCursor(last, batch, runs[i].after)
        /\ runs' = [runs EXCEPT ![i].phase = "reindex", ![i].after = last,
                                ![i].status = IF batch = {} THEN "finished" ELSE @]
  BY DEF Reindex
<1>2. PICK rs \in Seq(Runs) : rs = runs  BY DEF FileIsSound, FileTypes
<1>3. i \in DOMAIN rs  BY <1>2 DEF ArchiveIsTyped
<1>4. PICK run \in Runs : run = rs[i]  BY <1>3
<1>5. LastArticle \in Nat  BY AuthorityFileConstants
<1>6. a \in Nat /\ a > 0 /\ \A b \in Articles : b \in Nat /\ b > 0  BY <1>5 DEF Articles
<1>7. run.status = "running" /\ run.after < a
  <2>1. run.phase = "move" => run.after = 0  BY <1>2, <1>3, <1>4 DEF RowsFit, Fits, RunsFit, MovesRun
  <2>. QED  BY <1>2, <1>4, <1>6, <2>1 DEF Ahead
<1>8. PICK S : S = ToReindex(run)  OBVIOUS
<1>9. S \in SUBSET Articles /\ a \in S
  <2>1. \E row \in rows[a] : row.current /\ row.entity = run.root  BY <1>2, <1>4 DEF Entities, Current
  <2>. QED  BY <1>7, <1>8, <2>1 DEF ToReindex, Beyond
<1>10. IsBatch(batch, S, 0, BatchSize)  BY <1>2, <1>4, <1>8 DEF Reindex
<1>11. batch # {}  BY ONLY <1>9, <1>10, NotEmptyBatch
<1>12. \A x \in batch : x < a
  <2>1. a \in Beyond(S, 0)  BY <1>6, <1>9 DEF Beyond
  <2>2. \A x \in batch : a <= x => a \in batch  BY <1>10, <2>1 DEF IsBatch
  <2>. QED  BY <1>6, <2>2
<1>13. last < a  BY <1>1, <1>11, <1>12 DEF IsCursor
<1>14. PICK next : next = [run EXCEPT !.phase = "reindex", !.after = last, !.status = run.status]  OBVIOUS
<1>15. runs' = [rs EXCEPT ![i] = next]  BY <1>1, <1>2, <1>4, <1>11, <1>14
<1>16. next.status = "running" /\ next.after = last  BY <1>7, <1>14 DEF Runs
<1>17. runs'[i] = next  BY <1>3, <1>15
<1>. QED  BY <1>13, <1>16, <1>17 DEF Ahead

LEMMA ReindexKeepsTold ==
  ASSUME FileIsSound, ArchiveIsTyped, RowsFit, IndexTold,
         NEW i \in due, NEW batch \in SUBSET Articles, Reindex(i, batch), UNCHANGED <<file, reading, silent>>
  PROVE  IndexTold'
<1>1. PICK f, rs, next, sil, new : f = file /\ rs = runs /\ next = runs' /\ sil = silent /\ new = asked'  OBVIOUS
<1>2. new = Asked(batch, f, rows) /\ rows' = rows  BY <1>1 DEF Reindex
<1>3. f.known \subseteq Names /\ \A a \in Articles : RowsNamed(f, rows[a])
  BY <1>1 DEF FileIsSound, Sound, Files, ArchiveIsTyped
<1>4. /\ new \in [Articles -> SUBSET Entries]
      /\ \A a \in Articles : new[a] = IF a \in batch THEN Document(f, rows[a]) ELSE asked[a]
  BY <1>2, <1>3, AskedAfresh DEF IndexTold
<1>5. Reindexed(rs, next, i)
  <2>1. runs \in Seq(Runs)  BY DEF FileIsSound, FileTypes
  <2>. QED  BY <1>1, <2>1, ReindexedRuns
<1>6. ASSUME NEW a \in Articles
      PROVE  ToldOf(f, next, sil, rows[a], new[a], reading[a], a, NoName)
  <2>1. PICK article, docs, found : article = rows[a] /\ docs = asked[a] /\ found = reading[a]  OBVIOUS
  <2>2. ToldOf(f, rs, sil, article, docs, found, a, NoName)  BY <1>1, <2>1 DEF IndexTold, Told
  <2>3. CASE a \in batch
    <3>1. \A n \in Names : found[n] > 0 => n \in f.known  BY <2>2 DEF ToldOf
    <3>2. RowsNamed(f, article)  BY <1>3, <2>1
    <3>3. ToldOf(f, next, sil, article, Document(f, article), found, a, NoName)
      BY ONLY <3>1, <3>2, FreshIsTold
    <3>. QED  BY <1>4, <2>1, <2>3, <3>3
  <2>4. CASE a \notin batch
    <3>1. ASSUME NEW j \in DOMAIN rs, Ahead(rs[j], a), rs[j].root \in Entities(article)
          PROVE  j \in DOMAIN next /\ Ahead(next[j], a) /\ next[j].root = rs[j].root
                 /\ next[j].kind = rs[j].kind /\ next[j].entity = rs[j].entity
      <4>1. CASE j = i  BY <1>1, <1>5, <2>1, <2>4, <3>1, <4>1, PassedBy DEF Reindexed
      <4>2. CASE j # i  BY <1>5, <3>1, <4>2 DEF Reindexed
      <4>. QED  BY <4>1, <4>2
    <3>2. Covered(f, rs, article, a, NoName) => Covered(f, next, article, a, NoName)
      BY <3>1 DEF Covered, Renewed
    <3>3. \A n : Reachable(f, rs, article, n, a) => Reachable(f, next, article, n, a)
      BY <3>1 DEF Reachable
    <3>4. ToldOf(f, next, sil, article, docs, found, a, NoName)  BY <2>2, <3>2, <3>3 DEF ToldOf
    <3>. QED  BY <1>4, <2>1, <2>4, <3>4
  <2>. QED  BY <2>3, <2>4
<1>. QED  BY <1>1, <1>2, <1>4, <1>6 DEF IndexTold, AskedIsTyped, Told

LEMMA AdvanceRunKeepsTold ==
  ASSUME FileIsSound, ArchiveIsTyped, ArchiveIsTyped', RowsFit, IndexTold, AdvanceRun
  PROVE  IndexTold'
<1>1. PICK i \in due, batch \in SUBSET Articles : Move(i, batch) \/ Reindex(i, batch)  BY DEF AdvanceRun
<1>2. UNCHANGED <<file, reading, silent>>  BY DEF AdvanceRun
<1>. QED  BY <1>1, <1>2, MoveKeepsTold, ReindexKeepsTold

LEMMA InitIsTold == ASSUME FileIsSound, ArchiveIsTyped, Init
                    PROVE  IndexTold
<1>1. PICK f : f = file  OBVIOUS
<1>2. f.known = Names \ NewNames  BY <1>1 DEF Init
<1>3. asked = [a \in Articles |-> Document(f, rows[a])]  BY <1>1 DEF Init
<1>4. f.known \subseteq Names /\ \A a \in Articles : RowsNamed(f, rows[a])  BY <1>1, <1>2 DEF ArchiveIsTyped
<1>5. ASSUME NEW article, RowsNamed(f, article)
      PROVE  Document(f, article) \in SUBSET Entries
  <2>1. \A e \in Entities(article) : e \in Names  BY <1>4, <1>5 DEF Entities, Current, RowsNamed
  <2>. QED  BY <1>4, <2>1, DocumentIs, EntryIsTyped
<1>6. AskedIsTyped  BY <1>3, <1>4, <1>5 DEF AskedIsTyped
<1>7. ASSUME NEW a \in Articles
      PROVE  Told(f, runs, silent, a, NoName)
  <2>1. PICK article, found : article = rows[a] /\ found = reading[a]  OBVIOUS
  <2>2. \A n \in Names : found[n] > 0 => n \in f.known
    <3>1. FirstReading[a] \in [Names -> Nat] /\ \A n \in NewNames : FirstReading[a][n] = 0
      BY AuthorityFileConstants DEF Articles, Names
    <3>2. found = FirstReading[a]  BY <2>1 DEF Init
    <3>. QED  BY <1>2, <3>1, <3>2
  <2>3. RowsNamed(f, article)  BY <1>4, <2>1
  <2>4. ToldOf(f, runs, silent, article, Document(f, article), found, a, NoName)
    BY ONLY <2>2, <2>3, FreshIsTold
  <2>. QED  BY <1>3, <2>1, <2>4 DEF Told
<1>. QED  BY <1>1, <1>6, <1>7 DEF IndexTold

LEMMA NextKeepsTold ==
  ASSUME PatientUser, FileIsSound, ArchiveIsTyped, ArchiveIsTyped', RowsFit, IndexTold, [Next]_vars
  PROVE  IndexTold'
<1>1. CASE UNCHANGED vars  BY <1>1 DEF vars, IndexTold, AskedIsTyped, Told
<1>2. CASE Request  BY <1>2, RequestKeepsTold
<1>3. ASSUME NEW v \in Names, NEW target \in Names, BeginMerge(v, target)
      PROVE  IndexTold'
  BY <1>3 DEF BeginMerge, IndexTold, AskedIsTyped, Told
<1>4. ASSUME NEW tx \in merging, Rollback(tx)
      PROVE  IndexTold'
  BY <1>4 DEF Rollback, IndexTold, AskedIsTyped, Told
<1>5. ASSUME NEW n \in Names, Split(n)
      PROVE  IndexTold'
  BY <1>5, SplitKeepsTold
<1>6. ASSUME NEW a \in Articles, NEW found \in Readings, Publish(a, found)
      PROVE  IndexTold'
  BY <1>6, PublishKeepsTold
<1>7. CASE StartCycle  BY <1>7 DEF StartCycle, IndexTold, AskedIsTyped, Told
<1>8. CASE AdvanceRun  BY <1>8, AdvanceRunKeepsTold
<1>. QED  BY <1>1, <1>2, <1>3, <1>4, <1>5, <1>6, <1>7, <1>8, OneStep

LEMMA IndexStaysTold == ASSUME OneRequestAtATime, PatientUser
                        PROVE  Spec => []IndexTold
<1>1. Init /\ FileIsSound /\ ArchiveIsTyped => IndexTold  BY InitIsTold
<1>2. FileIsSound /\ ArchiveIsTyped /\ ArchiveIsTyped' /\ RowsFit /\ IndexTold /\ [Next]_vars => IndexTold'
  BY NextKeepsTold
<1>. QED  BY <1>1, <1>2, FileStaysSound, ArchiveStaysTyped, RowsStayFit, PTL DEF Spec

\* Once the runs have ended, every row is the root's of the names it keeps, and each article was
\* last asked for with its entities as they are now: a request that came between two batches of a
\* run, or while NER read the article, is in its document all the same.
THEOREM QuietArchiveAgreesHolds == ASSUME OneRequestAtATime, PatientUser
                                   PROVE  Spec => []QuietArchiveAgrees
<1>1. ASSUME FileIsSound, ArchiveIsTyped, RowsFit, IndexTold, Quiet, NEW a \in Articles
      PROVE  Shown(asked[a], Unsaid(silent)) = Shown(Document(file, rows[a]), Unsaid(silent))
  <2>1. PICK f, rs, article : f = file /\ rs = runs /\ article = rows[a]  OBVIOUS
  <2>2. \A i \in DOMAIN rs : rs[i].status # "running"  BY <1>1, <2>1 DEF Quiet, Open
  <2>3. \A e \in Entities(article) : RootIn(f, e) /\ e # NoName
    <3>1. \A row \in article : EntityFits(f, rs, row.entity)
      BY <1>1, <2>1 DEF RowsFit, Fits, ArticleFits, RowFits
    <3>2. \A e : EntityFits(f, rs, e) => RootIn(f, e)  BY <2>2 DEF EntityFits, Merges, Running
    <3>3. \A e : RootIn(f, e) => e # NoName
      BY <1>1, <2>1 DEF RootIn, FileIsSound, Sound, Files, Names, NoName
    <3>. QED  BY <3>1, <3>2, <3>3 DEF Entities, Current
  <2>4. ~Covered(f, rs, article, a, NoName)  BY <2>2, <2>3 DEF Covered, Renewed, Ahead, RootIn
  <2>. QED  BY <1>1, <2>1, <2>4 DEF IndexTold, Told, ToldOf
<1>2. FileIsSound /\ ArchiveIsTyped /\ RowsFit /\ IndexTold => QuietIndexShowsNames
  BY <1>1 DEF QuietIndexShowsNames, Shown, Bare, Unsaid
<1>3. QuietRowsAreTheRoots /\ QuietIndexShowsNames => QuietArchiveAgrees  BY DEF QuietArchiveAgrees
<1>. QED  BY <1>2, <1>3, FileStaysSound, ArchiveStaysTyped, RowsStayFit, IndexStaysTold,
             QuietRowsAreTheRootsHolds, PTL

-----------------------------------------------------------------------------
(* What a search finds. *)

\* A search for a root, widened, is for the names whose root it is.
LEMMA ExpandIs ==
  ASSUME NEW f, Sound(f), NEW n \in Names
  PROVE  Expand(f, {RootOf(f, n)}) = {m \in Names : RootOf(f, m) = RootOf(f, n)}
<1>1. PICK r : r = RootOf(f, n)  OBVIOUS
<1>2. r \in Names /\ r # NoName /\ f.authority[r] = NoName /\ RootOf(f, r) = r
  BY <1>1, RootsOf DEF RootIn, RootOf, Names, NoName
<1>3. NamesOf(f, {r}) = {m \in Names : m = r \/ f.authority[m] = r}  BY <1>2 DEF NamesOf
<1>4. \A m \in Names : RootOf(f, m) = r <=> m = r \/ f.authority[m] = r  BY <1>2 DEF RootOf
<1>. QED  BY <1>1, <1>2, <1>3, <1>4 DEF Expand

\* One of the documents' entities has the name's root.
FoundIn(f, docs, n) == \E d \in docs : RootOf(f, d.id) = RootOf(f, n)

LEMMA FoundIs ==
  ASSUME NEW f, Sound(f), NEW docs \in SUBSET Entries, NEW n \in Names
  PROVE  Expand(f, {RootOf(f, n)}) \cap {d.id : d \in docs} # {} <=> FoundIn(f, docs, n)
<1>1. \A d \in docs : d.id \in Names  BY DEF Entries
<1>2. Expand(f, {RootOf(f, n)}) = {m \in Names : RootOf(f, m) = RootOf(f, n)}  BY ExpandIs
<1>. QED  BY <1>1, <1>2 DEF FoundIn

\* The changes that keep what f0 ties.
TiedChanges(f0) == {c \in Changes : Sound(c.file) /\ KeepsTies(f0, c.file)}

LEMMA TiedChangesClosed ==
  ASSUME NEW f0
  PROVE  Closed(TiedChanges(f0)) /\ \A r \in Names : ClosedBetween(TiedChanges(f0), TiedChanges(f0), r)
<1>1. PICK Good : Good = TiedChanges(f0)  OBVIOUS
<1>2. Good \subseteq {c \in Changes : Sound(c.file)}  BY <1>1 DEF TiedChanges
<1>3. ASSUME NEW c \in Good, NEW d \in Changes, Sound(d.file), NEW v, NEW r, Follows(c.file, d.file, v, r)
      PROVE  d \in Good
  <2>1. Sound(c.file) /\ KeepsTies(f0, c.file)  BY <1>1 DEF TiedChanges
  <2>2. KeepsTies(c.file, d.file)  BY <1>3, <2>1, FollowsKeepsTies
  <2>3. KeepsTies(f0, d.file)  BY <2>1, <2>2 DEF KeepsTies
  <2>. QED  BY <1>1, <1>3, <2>3 DEF TiedChanges
<1>4. ASSUME NEW c \in Good, NEW d \in Changes, Sound(d.file), d.file.authority = c.file.authority,
             c.file.known \subseteq d.file.known
      PROVE  d \in Good
  <2>1. Sound(c.file)  BY <1>2
  <2>2. Follows(c.file, d.file, NoName, NoName)  BY <1>4, <2>1, SameFollows
  <2>. QED  BY <1>3, <1>4, <2>2
<1>5. ASSUME NEW c \in Good, NEW d \in Changes, Sound(d.file), NEW v \in Names, NEW r \in Names
      PROVE  /\ Marking(c, d, v) => d \in Good
             /\ Merging(c, d, v, r) => d \in Good
             /\ Adopting(c, d, v, r) => d \in Good
  <2>1. Sound(c.file)  BY <1>2
  <2>2. Marking(c, d, v) => d \in Good  BY <1>4, <1>5 DEF Marking
  <2>3. ASSUME Merging(c, d, v, r)
        PROVE  d \in Good
    <3>1. Follows(c.file, d.file, v, r)  BY <2>1, <2>3, JoinedFollows DEF Merging
    <3>. QED  BY <1>3, <1>5, <3>1
  <2>4. ASSUME Adopting(c, d, v, r)
        PROVE  d \in Good
    <3>1. Follows(c.file, d.file, v, r)  BY <2>1, <2>4, AdoptedFollows DEF Adopting
    <3>. QED  BY <1>3, <1>5, <3>1
  <2>. QED  BY <2>2, <2>3, <2>4
<1>6. Closed(Good)
  <2>1. \A c \in Good, d \in Changes : Sound(d.file) /\ Aside(c, d) => d \in Good  BY <1>4 DEF Aside
  <2>. QED  BY <1>2, <1>5, <2>1 DEF Closed
<1>7. \A r \in Names : ClosedBetween(Good, Good, r)  BY <1>2, <1>4, <1>5 DEF ClosedBetween
<1>. QED  BY <1>1, <1>6, <1>7

LEMMA RequestKeepsTies ==
  ASSUME FileIsSound, Request
  PROVE  KeepsTies(file, file')
<1>1. PICK f0 : f0 = file  OBVIOUS
<1>2. PICK Good : Good = TiedChanges(f0)  OBVIOUS
<1>3. Closed(Good) /\ \A r \in Names : \E Almost : ClosedBetween(Good, Almost, r)  BY <1>2, TiedChangesClosed
<1>4. KeepsTies(f0, f0)  BY DEF KeepsTies
<1>5. Here \in Good
  BY <1>1, <1>2, <1>4 DEF FileIsSound, FileTypes, TiedChanges, Here, Change, Changes, Sound
<1>6. Here' \in Good  BY <1>3, <1>5, RequestStays
<1>7. Here'.file = file'  BY DEF Here, Change
<1>. QED  BY <1>1, <1>2, <1>6, <1>7 DEF TiedChanges

LEMMA PublishedHas ==
  ASSUME NEW f, NEW found, NEW n \in Names, found[n] > 0
  PROVE  \E x \in PublishedRows(f, found) : x.current /\ x.entity = RootOf(f, n)
<1>1. PICK r : r = RootOf(f, n)  OBVIOUS
<1>2. PICK blank : blank = [entity |-> NoName, observed |-> NoName, mentions |-> {}, current |-> TRUE]
  OBVIOUS
<1>3. PICK used : used = {m \in Names : found[m] > 0}  OBVIOUS
<1>4. PICK parts : parts = {[observed |-> IF f.authority[o] = NoName THEN NoName ELSE o,
                             mentions |-> {[of |-> o, at |-> k, tag |-> NoName] : k \in 1..found[o]}] :
                            o \in {x \in used : RootOf(f, x) = r}}
  OBVIOUS
<1>5. Combined(blank, r, parts) \in PublishedRows(f, found)
  <2>1. PublishedRows(f, found) =
          {Combined(blank, q, {[observed |-> IF f.authority[o] = NoName THEN NoName ELSE o,
                                mentions |-> {[of |-> o, at |-> k, tag |-> NoName] : k \in 1..found[o]}] :
                               o \in {x \in used : RootOf(f, x) = q}}) :
           q \in {RootOf(f, o) : o \in used}}
    BY <1>2, <1>3 DEF PublishedRows
  <2>2. r \in {RootOf(f, o) : o \in used}  BY <1>1, <1>3
  <2>. QED  BY <1>4, <2>1, <2>2
<1>6. PICK mentions, observed : mentions = CombinedMentions(r, parts) /\ observed = Commonest(mentions)  OBVIOUS
<1>7. PICK x : x = Combined(blank, r, parts)  OBVIOUS
<1>8. x = [blank EXCEPT !.entity = r, !.mentions = mentions, !.observed = observed]
  BY <1>6, <1>7 DEF Combined
<1>9. x.current /\ x.entity = r  BY <1>2, <1>8
<1>. QED  BY <1>1, <1>5, <1>7, <1>9

\* A fresh document is found by every name whose root an article's row is of, unless that is hidden.
LEMMA FreshIsFound ==
  ASSUME NEW f, Sound(f), NEW article, NEW e \in Entities(article), e \in Names,
         NEW n, RootOf(f, e) = RootOf(f, n), RootOf(f, n) \notin f.hidden
  PROVE  FoundIn(f, Document(f, article), n)
<1>1. e \notin f.hidden
  <2>1. e \in f.hidden => RootIn(f, e)  BY DEF Sound, RootIn
  <2>. QED  BY <2>1, RootsOf
<1>2. Entry(f, e) \in Document(f, article) /\ Entry(f, e).id = e  BY <1>1, DocumentIs DEF Entry
<1>. QED  BY <1>2 DEF FoundIn

LEMMA StillFound ==
  ASSUME NEW f, NEW g, KeepsTies(f, g), NEW docs, \A d \in docs : d.id \in f.known, NEW n \in f.known,
         FoundIn(f, docs, n)
  PROVE  FoundIn(g, docs, n)
BY DEF FoundIn, KeepsTies

NoSplit(rs) == \A i \in DOMAIN rs : rs[i].status = "running" => rs[i].kind # "split"

LEMMA SplitRuns ==
  ASSUME FileIsSound, NEW v \in Names, Split(v)
  PROVE  ~NoSplit(runs')
<1>1. PICK rs \in Seq(Runs) : rs = runs  BY DEF FileIsSound, FileTypes
<1>2. PICK r, next : r = file.authority[v] /\ next = runs'  OBVIOUS
<1>3. r \in Names  BY <1>2 DEF Split, FileIsSound, Sound, Files
<1>4. next = Append(rs, NewRun("split", v, r))  BY <1>1, <1>2 DEF Split, Started
<1>5. PICK run, last : OneMoreRun(next, rs, run, last, "split", v, r)  BY <1>3, <1>4, AppendedRun
<1>. QED  BY <1>2, <1>5 DEF OneMoreRun, NoSplit

LEMMA PublishKeepsFinding ==
  ASSUME FileIsSound, ArchiveIsTyped, ArchiveIsTyped', IndexTold,
         NEW b \in Articles, NEW found \in Readings, Publish(b, found), reading' = reading,
         NEW a \in Articles, NEW n \in Names, FoundIn(file, asked[a], n), reading[a][n] > 0,
         RootOf(file', n) \notin file'.hidden
  PROVE  FoundIn(file', asked'[a], n)
<1>1. PICK f, g, used, docs, new :
        f = file /\ g = file' /\ used = {m \in Names : found[m] > 0} /\ docs = asked[a] /\ new = asked'
  OBVIOUS
<1>2. g = Registered(f, used) /\ new = Asked({b}, g, rows') /\ reading' = [reading EXCEPT ![b] = found]
  BY <1>1 DEF Publish
<1>3. Sound(f) /\ used \in SUBSET Names  BY <1>1 DEF FileIsSound
<1>4. Sound(g) /\ g.known = f.known \cup used /\ f.known \subseteq Names /\ g.known \subseteq Names
  <2>1. Sound(g) /\ g.known = f.known \cup used  BY <1>2, <1>3, RegisteredIsSound
  <2>. QED  BY <1>3, <2>1 DEF Sound, Files
<1>5. \A c \in Articles : RowsNamed(g, rows'[c])  BY <1>1 DEF ArchiveIsTyped
<1>6. \A c \in Articles : new[c] = IF c \in {b} THEN Document(g, rows'[c]) ELSE asked[c]
  BY <1>2, <1>4, <1>5, AskedAfresh DEF IndexTold
<1>7. CASE a # b
  <2>1. KeepsTies(f, g)
    <3>1. \A m \in f.known : RootOf(g, m) = RootOf(f, m) /\ g.authority[m] = f.authority[m]
      BY <1>2, <1>3, RegisteredFollows
    <3>. QED  BY <1>4, <3>1 DEF KeepsTies
  <2>2. n \in f.known /\ \A d \in docs : d.id \in f.known  BY <1>1 DEF IndexTold, Told, ToldOf
  <2>3. FoundIn(g, docs, n)  BY <1>1, <2>1, <2>2, StillFound
  <2>. QED  BY <1>1, <1>6, <1>7, <2>3
<1>8. CASE a = b
  <2>1. found[n] > 0
    <3>1. reading'[b] = found  BY <1>2 DEF FileIsSound, FileTypes
    <3>. QED  BY <1>8, <3>1
  <2>2. PICK article : article = rows'[a]  OBVIOUS
  <2>3. PublishedRows(g, found) \subseteq article
    <3>1. rows' = [rows EXCEPT ![b] = {[row EXCEPT !.current = FALSE] : row \in rows[b]} \cup PublishedRows(g, found)]
      BY <1>1, <1>2 DEF Publish
    <3>. QED  BY <1>8, <2>2, <3>1 DEF ArchiveIsTyped
  <2>4. PICK x \in article : x.current /\ x.entity = RootOf(g, n)  BY <2>1, <2>3, PublishedHas
  <2>5. RootOf(g, n) \in Entities(article)  BY <2>4 DEF Entities, Current
  <2>6. RootOf(g, n) \in Names /\ RootOf(g, RootOf(g, n)) = RootOf(g, n)
    BY <1>4, RootsOf DEF RootIn, RootOf
  <2>7. FoundIn(g, Document(g, article), n)  BY <1>1, <1>4, <2>5, <2>6, FreshIsFound
  <2>. QED  BY <1>1, <1>6, <1>8, <2>2, <2>7
<1>. QED  BY <1>7, <1>8

LEMMA AdvanceRunKeepsFinding ==
  ASSUME FileIsSound, ArchiveIsTyped, ArchiveIsTyped', RowsFit, IndexTold, AdvanceRun, NoSplit(runs'),
         NEW a \in Articles, NEW n \in Names, FoundIn(file, asked[a], n), RootOf(file, n) \notin file.hidden
  PROVE  FoundIn(file, asked'[a], n)
<1>1. PICK i \in due, batch \in SUBSET Articles : Move(i, batch) \/ Reindex(i, batch)  BY DEF AdvanceRun
<1>2. PICK f, rs, next, new : f = file /\ rs = runs /\ next = runs' /\ new = asked'  OBVIOUS
<1>3. CASE Move(i, batch)
  <2>1. PICK v, r : v = runs[i].entity /\ r = runs[i].root  OBVIOUS
  <2>2. /\ i \in DOMAIN runs
        /\ \/ Merges(runs, i) /\ asked' = asked
           \/ Splits(runs, i) /\ asked' = Asked(batch, file, rows')
    BY <1>3, <2>1, MovedRows DEF RowsFit
  <2>3. runs' = runs  BY <1>3 DEF Move
  <2>4. ~Splits(runs, i)  BY <2>2, <2>3 DEF NoSplit, Splits, Running
  <2>. QED  BY <2>2, <2>4
<1>4. CASE Reindex(i, batch)
  <2>1. new = Asked(batch, f, rows)  BY <1>2, <1>4 DEF Reindex
  <2>2. Sound(f) /\ f.known \subseteq Names /\ \A b \in Articles : RowsNamed(f, rows[b])
    BY <1>2 DEF FileIsSound, Sound, Files, ArchiveIsTyped
  <2>3. \A b \in Articles : new[b] = IF b \in batch THEN Document(f, rows[b]) ELSE asked[b]
    BY <2>1, <2>2, AskedAfresh DEF IndexTold
  <2>4. CASE a \notin batch  BY <1>2, <2>3, <2>4
  <2>5. CASE a \in batch
    <3>1. PICK article : article = rows[a]  OBVIOUS
    <3>2. PICK d \in asked[a] : RootOf(f, d.id) = RootOf(f, n)  BY <1>2 DEF FoundIn
    <3>3. Reachable(f, rs, article, d.id, a)  BY <1>2, <3>1, <3>2 DEF IndexTold, Told, ToldOf
    <3>4. NoSplit(rs)
      <4>1. rs \in Seq(Runs) /\ i \in DOMAIN rs  BY <1>2 DEF FileIsSound, FileTypes, ArchiveIsTyped
      <4>2. PICK last : runs' = [runs EXCEPT ![i].phase = "reindex", ![i].after = last,
                                             ![i].status = IF batch = {} THEN "finished" ELSE @]
        BY <1>4 DEF Reindex
      <4>3. PICK run \in Runs : run = rs[i]  BY <4>1
      <4>4. PICK other : other = [run EXCEPT !.phase = "reindex", !.after = last, !.status = run.status]  OBVIOUS
      <4>5. next = [rs EXCEPT ![i] = other]  BY <1>2, <2>5, <4>2, <4>3, <4>4
      <4>6. other.status = run.status /\ other.kind = run.kind  BY <4>4 DEF Runs
      <4>7. DOMAIN next = DOMAIN rs /\ \A j \in DOMAIN rs : next[j].status = rs[j].status /\ next[j].kind = rs[j].kind
        BY <4>1, <4>3, <4>5, <4>6
      <4>. QED  BY <1>2, <4>7 DEF NoSplit
    <3>5. PICK e \in Entities(article) : RootOf(f, e) = RootOf(f, d.id)  BY <3>3, <3>4 DEF Reachable, NoSplit, Ahead
    <3>6. e \in Names  BY <2>2, <3>1 DEF Entities, Current, RowsNamed
    <3>7. FoundIn(f, Document(f, article), n)  BY <1>2, <2>2, <3>2, <3>5, <3>6, FreshIsFound
    <3>. QED  BY <1>2, <2>3, <2>5, <3>1, <3>7
  <2>. QED  BY <2>4, <2>5
<1>. QED  BY <1>1, <1>3, <1>4

LEMMA StepKeepsFinding ==
  ASSUME FileIsSound, ArchiveIsTyped, ArchiveIsTyped', RowsFit, IndexTold, [Next]_vars,
         NEW a \in Articles, NEW n \in Names, FoundIn(file, asked[a], n), reading[a][n] > 0, reading' = reading,
         RootOf(file', n) \notin file'.hidden, NoSplit(runs')
  PROVE  FoundIn(file', asked'[a], n)
<1>1. CASE UNCHANGED vars  BY <1>1 DEF vars
<1>2. CASE Request
  <2>1. PICK f, g, docs : f = file /\ g = file' /\ docs = asked[a]  OBVIOUS
  <2>2. KeepsTies(f, g)  BY <1>2, <2>1, RequestKeepsTies
  <2>3. n \in f.known /\ \A d \in docs : d.id \in f.known  BY <2>1 DEF IndexTold, Told, ToldOf
  <2>4. FoundIn(g, docs, n)  BY <2>1, <2>2, <2>3, StillFound
  <2>5. asked' = asked  BY <1>2, RequestFrame
  <2>. QED  BY <2>1, <2>4, <2>5
<1>3. ASSUME NEW v \in Names, NEW target \in Names, BeginMerge(v, target)
      PROVE  FoundIn(file', asked'[a], n)
  BY <1>3 DEF BeginMerge
<1>4. ASSUME NEW tx \in merging, Rollback(tx)
      PROVE  FoundIn(file', asked'[a], n)
  BY <1>4 DEF Rollback
<1>5. ASSUME NEW v \in Names, Split(v)
      PROVE  FALSE
  BY <1>5, SplitRuns
<1>6. ASSUME NEW b \in Articles, NEW found \in Readings, Publish(b, found)
      PROVE  FoundIn(file', asked'[a], n)
  BY <1>6, PublishKeepsFinding
<1>7. CASE StartCycle  BY <1>7 DEF StartCycle
<1>8. CASE AdvanceRun
  <2>1. file' = file  BY <1>8 DEF AdvanceRun
  <2>. QED  BY <1>8, <2>1, AdvanceRunKeepsFinding
<1>. QED  BY <1>1, <1>2, <1>3, <1>4, <1>5, <1>6, <1>7, <1>8, OneStep

\* An article that a search for one of its names finds is found after every step, a merge's, an
\* import's, a claim's or a batch's: while the archive is moved and reindexed, the widened search
\* finds what is indexed under either name.
THEOREM SearchKeepsFindingArticlesHolds == ASSUME OneRequestAtATime, PatientUser
                                           PROVE  Spec => SearchKeepsFindingArticles
<1>1. ASSUME FileIsSound, FileIsSound', ArchiveIsTyped, ArchiveIsTyped', RowsFit, IndexTold, IndexTold', [Next]_vars,
             NEW a \in Articles, NEW n \in Names, Finds(a, n), reading[a][n] > 0, reading' = reading,
             RootOf(file', n) \notin file'.hidden,
             \A i \in DOMAIN runs' : runs'[i].status = "running" => runs'[i].kind # "split"
      PROVE  Finds(a, n)'
  <2>1. FoundIn(file, asked[a], n)
    <3>1. Sound(file) /\ asked[a] \in SUBSET Entries  BY <1>1 DEF FileIsSound, IndexTold, AskedIsTyped
    <3>. QED  BY <1>1, <3>1, FoundIs DEF Finds
  <2>2. NoSplit(runs')  BY <1>1 DEF NoSplit
  <2>3. FoundIn(file', asked'[a], n)  BY ONLY <1>1, <2>1, <2>2, StepKeepsFinding
  <2>4. Sound(file') /\ asked'[a] \in SUBSET Entries  BY <1>1 DEF FileIsSound, IndexTold, AskedIsTyped
  <2>. QED  BY <2>3, <2>4, FoundIs DEF Finds
<1>2. FileIsSound /\ FileIsSound' /\ ArchiveIsTyped /\ ArchiveIsTyped' /\ RowsFit /\ IndexTold /\ IndexTold'
        /\ [Next]_vars
      => [\A a \in Articles, n \in Names :
            /\ Finds(a, n) /\ reading[a][n] > 0 /\ reading' = reading
            /\ RootOf(file', n) \notin file'.hidden
            /\ \A i \in DOMAIN runs' : runs'[i].status = "running" => runs'[i].kind # "split"
            => Finds(a, n)']_vars
  BY <1>1
<1>. QED  BY <1>2, FileStaysSound, ArchiveStaysTyped, RowsStayFit, IndexStaysTold, PTL
          DEF Spec, SearchKeepsFindingArticles
=============================================================================
