----------------------------- MODULE StoriesProofs -----------------------------
(***************************************************************************)
(* Proofs about Stories for any finite sets of articles, stories and       *)
(* workers, any feeds and events, and any pairs that may be alike.         *)
(***************************************************************************)
EXTENDS Stories, FiniteSetTheorems, TLAPS

Workings == [article : Articles \cup {None}, began : Moments, superseded : BOOLEAN]
Touches == [event : Events, articles : SUBSET Articles]

StoriesAreKept == TypeOK /\ StoriesCountTheirArticles /\ MovedArticlesAreIndexed

\* The part about members, of a step that changes neither them nor a story's facts.
MembersStay ==
  /\ UNCHANGED <<member, indexed>>
  /\ \A s \in Stories :
       /\ story'[s] = None <=> story[s] = None
       /\ story[s] # None => story'[s].facts = story[s].facts

LEMMA StayingKeeps ==
  ASSUME StoriesAreKept, MembersStay
  PROVE  StoriesCountTheirArticles' /\ MovedArticlesAreIndexed'
<1>1. \A s \in Stories : Members(s, member)' = Members(s, member)
  BY DEF MembersStay, Members
<1> QED
  BY <1>1 DEF StoriesAreKept, MembersStay, StoriesCountTheirArticles, MovedArticlesAreIndexed

-----------------------------------------------------------------------------
(* The moments that are compared are not more than there are numbers for.  *)

LEMMA ImageIsSmall ==
  ASSUME NEW S, IsFiniteSet(S), NEW f
  PROVE  /\ IsFiniteSet({f[x] : x \in S})
         /\ Cardinality({f[x] : x \in S}) \in Nat
         /\ Cardinality({f[x] : x \in S}) <= Cardinality(S)
<1> DEFINE T == {f[x] : x \in S}
           g == [x \in S |-> f[x]]
<1>1. g \in Surjection(S, T)
  BY DEF Surjection
<1> HIDE DEF g
<1> QED
  BY <1>1, FS_Surjection, FS_CardinalityType

LEMMA UnionIsSmall ==
  ASSUME NEW S, IsFiniteSet(S), NEW T, IsFiniteSet(T)
  PROVE  /\ IsFiniteSet(S \cup T) /\ Cardinality(S \cup T) \in Nat
         /\ Cardinality(S \cup T) <= Cardinality(S) + Cardinality(T)
<1>1. IsFiniteSet(S \cap T)
  BY FS_Subset
<1>2. /\ IsFiniteSet(S \cup T)
      /\ Cardinality(S \cup T) = Cardinality(S) + Cardinality(T) - Cardinality(S \cap T)
  BY FS_Union
<1>3. /\ Cardinality(S) \in Nat /\ Cardinality(T) \in Nat /\ Cardinality(S \cap T) \in Nat
      /\ Cardinality(S \cup T) \in Nat
  BY <1>1, <1>2, FS_CardinalityType
<1> QED
  BY <1>2, <1>3

LEMMA NumbersSuffice ==
  ASSUME TypeOK
  PROVE  Cardinality(Compared) \in Moments /\ \A moment : Numbered(moment) \in Moments
<1> DEFINE S1 == {s \in Stories : link[s] # None}
           S2 == {s \in Stories : story[s] # None}
           S3 == {w \in Workers : worker[w].article # None}
           f1 == [s \in Stories |-> link[s].seen]
           f2 == [s \in Stories |-> story[s].updated]
           f3 == [w \in Workers |-> worker[w].began]
           T1 == {f1[s] : s \in S1}
           T2 == {f2[s] : s \in S2}
           T3 == {f3[w] : w \in S3}
<1>1. /\ IsFiniteSet(S1) /\ Cardinality(S1) <= Cardinality(Stories)
      /\ IsFiniteSet(S2) /\ Cardinality(S2) <= Cardinality(Stories)
      /\ IsFiniteSet(S3) /\ Cardinality(S3) <= Cardinality(Workers)
  BY StoriesConstants, FS_Subset
<1>2. Cardinality(Stories) \in Nat /\ Cardinality(Workers) \in Nat
  BY StoriesConstants, FS_CardinalityType
<1>3. Compared = (T1 \cup T2) \cup T3
  BY DEF Compared
<1> HIDE DEF f1, f2, f3
<1>4. /\ IsFiniteSet(T1) /\ Cardinality(T1) \in Nat /\ Cardinality(T1) <= Cardinality(S1)
      /\ IsFiniteSet(T2) /\ Cardinality(T2) \in Nat /\ Cardinality(T2) <= Cardinality(S2)
      /\ IsFiniteSet(T3) /\ Cardinality(T3) \in Nat /\ Cardinality(T3) <= Cardinality(S3)
  BY <1>1, ImageIsSmall
<1>5. /\ Cardinality(S1) \in Nat /\ Cardinality(S2) \in Nat /\ Cardinality(S3) \in Nat
  BY <1>1, FS_CardinalityType
<1> HIDE DEF S1, S2, S3, T1, T2, T3
<1>6. /\ IsFiniteSet(T1 \cup T2) /\ Cardinality(T1 \cup T2) \in Nat
      /\ Cardinality(T1 \cup T2) <= Cardinality(T1) + Cardinality(T2)
  BY <1>4, UnionIsSmall
<1>7. /\ IsFiniteSet(Compared) /\ Cardinality(Compared) \in Nat
      /\ Cardinality(Compared) <= Cardinality(T1 \cup T2) + Cardinality(T3)
  BY <1>3, <1>4, <1>6, UnionIsSmall
<1>8. Cardinality(Compared) <= 2 * Cardinality(Stories) + Cardinality(Workers)
  BY <1>1, <1>2, <1>4, <1>5, <1>6, <1>7
<1>9. ASSUME NEW moment PROVE Numbered(moment) \in Moments
  <2> DEFINE earlier == {other \in Compared : other < moment}
  <2>1. Cardinality(earlier) \in Nat /\ Cardinality(earlier) <= Cardinality(Compared)
    BY <1>7, FS_Subset, FS_CardinalityType
  <2> HIDE DEF earlier
  <2>2. Cardinality(earlier) \in Moments
    BY <1>2, <1>7, <1>8, <2>1 DEF Moments
  <2> QED
    BY <2>2 DEF Numbered, earlier
<1> QED
  BY <1>2, <1>7, <1>8, <1>9 DEF Moments

-----------------------------------------------------------------------------
(* An assignment.                                                          *)

LEMMA MembersAreFinite ==
  ASSUME NEW s, NEW members
  PROVE  Members(s, members) \subseteq Articles /\ IsFiniteSet(Members(s, members))
         /\ Cardinality(Members(s, members)) \in Nat
<1>1. Members(s, members) \in SUBSET Articles
  BY DEF Members
<1> QED
  BY <1>1, StoriesConstants, FS_Subset, FS_CardinalityType

\* A stale story is of its members, or gone; the others stay as they are.
LEMMA RefreshedIs ==
  ASSUME TypeOK, NEW members, NEW stale, NEW stamp \in Moments, NEW s \in Stories
  PROVE  LET after == Refreshed(members, stale, stamp)[s] IN
         /\ s \notin stale => after = story[s]
         /\ s \in stale /\ Cardinality(Members(s, members)) < 2 => after = None
         /\ s \in stale /\ ~(Cardinality(Members(s, members)) < 2) =>
              /\ after \in StoryRows /\ after # None
              /\ after.facts.articles = Members(s, members)
<1> DEFINE now == Statistics(Members(s, members), feeds)
           after == Refreshed(members, stale, stamp)[s]
           new == [facts |-> now, updated |-> stamp]
<1>1. after = IF s \notin stale THEN story[s]
              ELSE IF Cardinality(now.articles) < 2 THEN None
              ELSE IF story[s] # None /\ story[s].facts = now THEN story[s]
              ELSE new
  BY DEF Refreshed
<1>2. now \in Facts /\ now.articles = Members(s, members)
  <2>1. feeds \in [Articles -> SUBSET Feeds]
    BY DEF TypeOK
  <2> QED
    BY <2>1, MembersAreFinite DEF Statistics, Facts
<1> HIDE DEF now
<1>3. new \in StoryRows /\ new.facts = now
  BY <1>2 DEF StoryRows
<1>4. new # None /\ (story[s] # None => story[s] \in StoryRows)
  BY <1>3, StoriesConstants DEF TypeOK
<1> HIDE DEF after, new
<1>5. /\ s \notin stale => after = story[s]
      /\ s \in stale /\ Cardinality(Members(s, members)) < 2 => after = None
      /\ s \in stale /\ ~(Cardinality(Members(s, members)) < 2) =>
           /\ after \in StoryRows /\ after # None
           /\ after.facts.articles = Members(s, members)
  BY <1>1, <1>2, <1>3, <1>4
<1> QED
  BY <1>5 DEF after

\* _finish is told of every story whose members changed, and of every article that moved.
IsTold(members, stale, merged, touched, changed) ==
  /\ members \in [Articles -> Stories \cup {None}]
  /\ stale \in SUBSET Stories /\ merged \in SUBSET Stories /\ changed \in BOOLEAN
  /\ \A b \in Articles : members[b] \notin merged
  /\ \A b \in Articles : b \notin touched => members[b] = member[b]
  /\ \A s \in Stories \ (stale \cup merged), b \in Articles : members[b] = s <=> member[b] = s
  /\ ~changed => members = member /\ merged = {}

\* Then what it leaves is right.
Assigned ==
  /\ StoriesCountTheirArticles' /\ MovedArticlesAreIndexed'
  /\ story' \in [Stories -> StoryRows \cup {None}] /\ member' \in Memberships'
  /\ indexed' \in [Articles -> Stories \cup {None}]
  /\ link' = [s \in Stories |-> IF story'[s] = None THEN None ELSE link[s]]

LEMMA FinishKeeps ==
  ASSUME StoriesAreKept, NEW a, NEW stamp \in Moments, NEW members, NEW stale, NEW merged,
         NEW touched, NEW changed,
         Finish(a, stamp, members, stale, merged, touched, changed),
         IsTold(members, stale, merged, touched, changed)
  PROVE  Assigned
<1> USE DEF IsTold
<1> DEFINE fresh == Refreshed(members, stale, stamp)
<1>0. /\ TypeOK /\ StoriesCountTheirArticles /\ MovedArticlesAreIndexed
      /\ \A s \in Stories : s # None
  BY StoriesConstants DEF StoriesAreKept
<1>1. /\ story' = [s \in Stories |-> IF s \in merged THEN None ELSE fresh[s]]
      /\ member' = [b \in Articles |->
           IF members[b] # None /\ story'[members[b]] = None THEN None ELSE members[b]]
      /\ link' = [s \in Stories |-> IF story'[s] = None THEN None ELSE link[s]]
      /\ indexed' = [b \in Articles |->
           IF changed /\ b \in touched \cup {c \in Articles : members[c] \in stale}
           THEN member'[b] ELSE indexed[b]]
  BY DEF Finish, ToReindex
<1> HIDE DEF fresh, Finish
<1>2. \A s \in Stories :
        /\ s \in merged => story'[s] = None
        /\ s \notin merged \cup stale => story'[s] = story[s]
        /\ s \in stale \ merged /\ Cardinality(Members(s, members)) < 2 => story'[s] = None
        /\ s \in stale \ merged /\ ~(Cardinality(Members(s, members)) < 2) =>
             /\ story'[s] \in StoryRows /\ story'[s] # None
             /\ story'[s].facts.articles = Members(s, members)
  BY <1>0, <1>1, RefreshedIs DEF fresh
<1>3. story' \in [Stories -> StoryRows \cup {None}]
  <2>1. \A s \in Stories : story'[s] \in StoryRows \cup {None}
    BY <1>0, <1>2 DEF TypeOK
  <2> QED
    BY <1>1, <2>1
<1>4. member' \in Memberships'
  <2>1. \A b \in Articles : member'[b] \in {s \in Stories : story'[s] # None} \cup {None}
    BY <1>1
  <2>2. member' = [b \in Articles |-> member'[b]]
    BY <1>1
  <2> QED
    BY <2>1, <2>2 DEF Memberships
<1>5. indexed' \in [Articles -> Stories \cup {None}]
  <2>1. \A b \in Articles : member'[b] \in Stories \cup {None}
    BY <1>4 DEF Memberships
  <2>2. indexed \in [Articles -> Stories \cup {None}]
    BY <1>0 DEF TypeOK
  <2> QED
    BY <1>1, <2>1, <2>2
<1>6. ASSUME NEW s \in Stories
      PROVE  /\ story'[s] = None => Members(s, member') = {}
             /\ story'[s] # None => Members(s, member') = Members(s, members)
  <2>1. s # None /\ \A b \in Articles :
          member'[b] = IF members[b] # None /\ story'[members[b]] = None THEN None ELSE members[b]
    BY <1>0, <1>1
  <2> QED
    BY <2>1 DEF Members
<1>7. ASSUME NEW s \in Stories, s \notin stale \cup merged
      PROVE  Members(s, members) = Members(s, member)
  BY <1>7 DEF Members
<1>8. StoriesCountTheirArticles'
  <2> SUFFICES ASSUME NEW s \in Stories
               PROVE  /\ story'[s] = None => Members(s, member') = {}
                      /\ story'[s] # None =>
                           /\ Cardinality(Members(s, member')) >= 2
                           /\ story'[s].facts.articles = Members(s, member')
    BY DEF StoriesCountTheirArticles, Members
  <2>1. CASE story'[s] = None
    BY <1>6, <2>1
  <2>2. CASE story'[s] # None /\ s \in stale
    <3>1. s \notin merged /\ ~(Cardinality(Members(s, members)) < 2)
      BY <1>2, <2>2
    <3>2. Cardinality(Members(s, members)) >= 2
      BY <3>1, MembersAreFinite
    <3> QED
      BY <1>2, <1>6, <2>2, <3>1, <3>2
  <2>3. CASE story'[s] # None /\ s \notin stale
    <3>1. s \notin merged /\ story'[s] = story[s]
      BY <1>2, <2>3
    <3>2. Cardinality(Members(s, member)) >= 2 /\ story[s].facts.articles = Members(s, member)
      BY <1>0, <2>3, <3>1 DEF StoriesCountTheirArticles
    <3> QED
      BY <1>6, <1>7, <2>3, <3>1, <3>2
  <2> QED
    BY <2>1, <2>2, <2>3
<1>9. MovedArticlesAreIndexed'
  <2> SUFFICES ASSUME NEW b \in Articles,
                      ~(changed /\ b \in touched \cup {c \in Articles : members[c] \in stale})
               PROVE  member'[b] = member[b]
    BY <1>0, <1>1 DEF MovedArticlesAreIndexed
  <2>1. members[b] = member[b] /\ members[b] \notin merged
    OBVIOUS
  <2>2. CASE member[b] = None
    BY <1>1, <2>1, <2>2
  <2>3. CASE member[b] # None
    <3>1. member[b] \in Stories /\ story[member[b]] # None
      BY <1>0, <2>3 DEF TypeOK, Memberships
    <3>2. CASE member[b] \notin stale
      BY <1>1, <1>2, <2>1, <3>1, <3>2
    <3>3. CASE member[b] \in stale
      <4>1. members = member /\ member[b] \notin merged
        BY <2>1, <3>3
      <4>2. Cardinality(Members(member[b], member)) >= 2
        BY <1>0, <3>1 DEF StoriesCountTheirArticles
      <4>3. ~(Cardinality(Members(member[b], members)) < 2)
        BY <4>1, <4>2, MembersAreFinite
      <4>4. story'[member[b]] # None
        BY <1>2, <3>1, <3>3, <4>1, <4>3
      <4> QED
        BY <1>1, <2>1, <4>4
    <3> QED
      BY <3>2, <3>3
  <2> QED
    BY <2>2, <2>3
<1> QED
  BY <1>1, <1>3, <1>4, <1>5, <1>8, <1>9 DEF Assigned

LEMMA AloneKeeps ==
  ASSUME StoriesAreKept, NEW a \in Articles, NEW stamp \in Moments, AssignAlone(a, stamp)
  PROVE  Assigned
<1> DEFINE members == [member EXCEPT ![a] = None]
           stale == {member[a]} \ {None}
           changed == member[a] # None
<1>1. Finish(a, stamp, members, stale, {}, {a}, changed)
  BY DEF AssignAlone
<1>2. /\ member \in [Articles -> Stories \cup {None}] /\ \A s \in Stories : s # None
      /\ stale \in SUBSET Stories /\ changed \in BOOLEAN
  BY StoriesConstants DEF StoriesAreKept, TypeOK, Memberships
<1>3. /\ members \in [Articles -> Stories \cup {None}] /\ members[a] = None
      /\ \A b \in Articles : b # a => members[b] = member[b]
  BY <1>2
<1>4. ~changed => members = member
  BY <1>2
<1>5. \A s \in Stories \ (stale \cup {}), b \in Articles : members[b] = s <=> member[b] = s
  BY <1>2, <1>3
<1>6. \A b \in Articles : members[b] \notin {} /\ (b \notin {a} => members[b] = member[b])
  BY <1>3
<1> HIDE DEF members, stale, changed
<1>7. IsTold(members, stale, {}, {a}, changed)
  BY <1>2, <1>3, <1>4, <1>5, <1>6 DEF IsTold
<1> QED
  BY <1>1, <1>7, FinishKeeps

LEMMA WithKeeps ==
  ASSUME StoriesAreKept, NEW a \in Articles, NEW stamp \in Moments, NEW best \in Articles,
         AssignWith(a, stamp, best)
  PROVE  Assigned
<1> DEFINE created == member[best] = None
           new     == Unused(story)
           base    == IF created THEN new ELSE member[best]
           first   == [member EXCEPT ![best] = base]
           stories == Involved(base, Ranked(a), first)
           counts  == [s \in stories |->
             IF story[s] = None THEN 0 ELSE Cardinality(story[s].facts.articles)]
<1>1. /\ member \in [Articles -> Stories \cup {None}] /\ \A s \in Stories : s # None
      /\ DOMAIN story = Stories
      /\ \A b \in Articles : member[b] # None => story[member[b]] # None
  BY StoriesConstants DEF StoriesAreKept, TypeOK, Memberships
<1>2. created => new \in Stories /\ story[new] = None
  <2>1. \E id \in Stories : (\E free \in Stories : story[free] = None) => story[id] = None
    BY StoriesConstants
  <2>2. new \in Stories
    BY <1>1, <2>1 DEF Unused
  <2> QED
    BY <2>2 DEF AssignWith
<1>3. base \in Stories
  BY <1>1, <1>2
<1>4. first \in [Articles -> Stories \cup {None}] /\ first[best] = base
      /\ \A b \in Articles : first[b] = IF b = best /\ created THEN base ELSE member[b]
  BY <1>1, <1>3
<1>5. PICK survivor \in stories :
        LET merged == stories \ {survivor}
            moved  == {b \in Articles : first[b] \in merged}
            joined == [b \in Articles |-> IF b \in moved \cup {a} THEN survivor ELSE first[b]]
        IN Finish(a, stamp, joined, Stale(survivor, member[a], merged), merged,
                  {a} \cup moved \cup (IF created THEN {best} ELSE {}),
                  created \/ merged # {} \/ member[a] # survivor)
  BY DEF AssignWith, Survivors
<1> HIDE DEF new
<1>6. stories \in SUBSET Stories /\ base \in stories
  BY <1>1, <1>3, <1>4 DEF Involved, Ranked, Found
<1> HIDE DEF base, first, stories
<1> DEFINE merged  == stories \ {survivor}
           moved   == {b \in Articles : first[b] \in merged}
           joined  == [b \in Articles |-> IF b \in moved \cup {a} THEN survivor ELSE first[b]]
           stale   == Stale(survivor, member[a], merged)
           touched == {a} \cup moved \cup (IF created THEN {best} ELSE {})
           changed == created \/ merged # {} \/ member[a] # survivor
<1>7. Finish(a, stamp, joined, stale, merged, touched, changed)
  BY <1>5
<1>8. /\ survivor \in Stories /\ merged \in SUBSET Stories /\ changed \in BOOLEAN
      /\ stale \in SUBSET Stories /\ survivor \in stale
      /\ member[a] # None /\ member[a] \notin merged => member[a] \in stale
  BY <1>1, <1>6 DEF Stale
<1>9. joined \in [Articles -> Stories \cup {None}]
      /\ \A b \in Articles : joined[b] = IF b = a \/ first[b] \in merged THEN survivor ELSE first[b]
  BY <1>4, <1>8
<1>10. \A b \in Articles : joined[b] \notin merged
  BY <1>9
<1>11. \A b \in Articles : b \notin touched => joined[b] = member[b]
  BY <1>4, <1>9
<1>12. ASSUME NEW s \in Stories \ (stale \cup merged), NEW b \in Articles
       PROVE  joined[b] = s <=> member[b] = s
  <2>1. s # None /\ s # survivor /\ s \notin stories /\ s # base
    BY <1>1, <1>6, <1>8, <1>12
  <2>2. CASE b = a
    <3>1. joined[b] # s
      BY <1>9, <2>1, <2>2
    <3>2. member[b] # s
      BY <1>8, <1>12, <2>1, <2>2
    <3> QED
      BY <3>1, <3>2
  <2>3. CASE b # a
    <3>1. joined[b] = s <=> first[b] = s
      BY <1>9, <1>12, <2>1, <2>3
    <3> QED
      BY <1>4, <2>1, <3>1
  <2> QED
    BY <2>2, <2>3
<1>13. ~changed => joined = member /\ merged = {}
  <2> SUFFICES ASSUME ~changed PROVE joined = member /\ merged = {}
    OBVIOUS
  <2>1. ~created /\ merged = {} /\ member[a] = survivor
    OBVIOUS
  <2>2. \A b \in Articles : joined[b] = member[b]
    BY <1>4, <1>9, <2>1
  <2> QED
    BY <1>1, <1>9, <2>1, <2>2
<1> HIDE DEF created, merged, moved, joined, stale, touched, changed
<1>14. IsTold(joined, stale, merged, touched, changed)
  BY <1>8, <1>9, <1>10, <1>11, <1>12, <1>13 DEF IsTold
<1> QED
  BY <1>7, <1>14, FinishKeeps

-----------------------------------------------------------------------------
(* The steps.                                                              *)

\* What TypeOK says of each part.
LEMMA TypesAre ==
  TypeOK <=>
    /\ alike \in Similarities /\ feeds \in [Articles -> SUBSET Feeds] /\ left \in 0..Changes
    /\ asked \subseteq Articles /\ failed \subseteq Articles
    /\ story \in [Stories -> StoryRows \cup {None}]
    /\ member \in [Articles -> {s \in Stories : story[s] # None} \cup {None}]
    /\ link \in [Stories -> Decisions \cup {None}]
    /\ \A s \in Stories : link[s] # None => story[s] # None /\ event[link[s].event] # None
    /\ event \in [Events -> (SUBSET Articles) \cup {None}]
    /\ indexed \in [Articles -> Stories \cup {None}]
    /\ worker \in [Workers -> Workings] /\ touch \in Touches \cup {None}
<1>1. link \in [Stories -> LinkRows \cup {None}] <=>
        /\ link \in [Stories -> Decisions \cup {None}]
        /\ \A s \in Stories : link[s] # None => event[link[s].event] # None
  <2>1. LinkRows \subseteq Decisions
    BY DEF LinkRows
  <2>2. ASSUME link \in [Stories -> LinkRows \cup {None}]
        PROVE  /\ link \in [Stories -> Decisions \cup {None}]
               /\ \A s \in Stories : link[s] # None => event[link[s].event] # None
    BY <2>1, <2>2 DEF LinkRows
  <2>3. ASSUME link \in [Stories -> Decisions \cup {None}],
               \A s \in Stories : link[s] # None => event[link[s].event] # None
        PROVE  link \in [Stories -> LinkRows \cup {None}]
    BY <2>3 DEF LinkRows
  <2> QED
    BY <2>2, <2>3
<1> QED
  BY <1>1 DEF TypeOK, Memberships, EventRows, Workings, Touches

LEMMA IdleIs == Idle \in Workings
<1>1. 0 \in Moments
  BY StoriesConstants, FS_CardinalityType DEF Moments
<1> QED
  BY <1>1 DEF Idle, Workings

\* A worker that ends leaves the others as they are.
LEMMA EndsKeepsWorkers ==
  ASSUME TypeOK, NEW w \in Workers, Ends(w)
  PROVE  worker' \in [Workers -> Workings]
<1>1. worker \in [Workers -> Workings]
  BY TypesAre
<1> QED
  BY <1>1, IdleIs DEF Ends

LEMMA RequestKeepsWorkers ==
  ASSUME TypeOK, NEW a \in Articles, RequestClustering(a)
  PROVE  /\ asked' \subseteq Articles /\ failed' \subseteq Articles
         /\ worker' \in [Workers -> Workings]
<1>1. worker \in [Workers -> Workings] /\ asked \subseteq Articles /\ failed \subseteq Articles
  BY TypesAre
<1>2. ASSUME NEW w \in Workers
      PROVE  [worker[w] EXCEPT !.superseded = @ \/ worker[w].article = a] \in Workings
  <2> DEFINE superseded == worker[w].superseded \/ worker[w].article = a
  <2>1. superseded \in BOOLEAN /\ worker[w] \in Workings
    BY <1>1 DEF Workings
  <2> HIDE DEF superseded
  <2>2. [worker[w] EXCEPT !.superseded = superseded] \in Workings
    BY <2>1 DEF Workings
  <2> QED
    BY <2>2 DEF superseded
<1> QED
  BY <1>1, <1>2 DEF RequestClustering

LEMMA ChangingStep == ASSUME StoriesAreKept, Changing PROVE StoriesAreKept'
<1>0. TypeOK
  BY DEF StoriesAreKept
<1>1. UNCHANGED <<grouped, decided, touch>>
  BY DEF Changing, Reread, Carried, Recluster, jobs
<1>2. MembersStay
  BY <1>1 DEF MembersStay, grouped
<1>3. left > 0 /\ left' = left - 1
  BY DEF Changing, Reread, Carried, Recluster
<1>4. left' \in 0..Changes
  BY <1>0, <1>3, StoriesConstants DEF TypeOK
<1>5. /\ alike' \in Similarities /\ feeds' \in [Articles -> SUBSET Feeds]
      /\ asked' \subseteq Articles /\ failed' \subseteq Articles
      /\ worker' \in [Workers -> Workings]
  <2>1. ASSUME NEW a \in Articles, NEW pairs \in Similarities, Reread(a, pairs)
        PROVE  /\ alike' \in Similarities /\ feeds' = feeds /\ RequestClustering(a)
    BY <2>1 DEF Reread
  <2>2. ASSUME NEW a \in Articles, NEW f \in Feeds, Carried(a, f)
        PROVE  /\ feeds' \in [Articles -> SUBSET Feeds]
               /\ UNCHANGED <<alike, asked, failed, worker>>
    BY <1>0, <2>2 DEF Carried, TypeOK, jobs
  <2>3. ASSUME NEW a \in Articles, Recluster(a)
        PROVE  UNCHANGED <<alike, feeds>> /\ RequestClustering(a)
    BY <2>3 DEF Recluster
  <2> QED
    BY <1>0, <2>1, <2>2, <2>3, RequestKeepsWorkers, TypesAre DEF Changing
<1>6. TypeOK'
  BY <1>0, <1>1, <1>4, <1>5 DEF TypeOK, Memberships, LinkRows, EventRows, Workings, grouped, decided
<1> QED
  BY <1>2, <1>6, StayingKeeps DEF StoriesAreKept

LEMMA PublishStep == ASSUME StoriesAreKept, NEW w \in Workers, Publish(w) PROVE StoriesAreKept'
<1> DEFINE a == worker[w].article
<1>0. TypeOK
  BY DEF StoriesAreKept
<1>1. a \in Articles /\ worker[w].began \in Moments
  BY <1>0, TypesAre DEF Publish, Workings
<1>2. Assigned
  BY <1>1, AloneKeeps, WithKeeps DEF Publish
<1>3. /\ asked' = asked \ {a} /\ Ends(w)
      /\ UNCHANGED <<alike, feeds, left, failed, event, touch>>
  BY DEF Publish, archive
<1>4. worker' \in [Workers -> Workings]
  BY <1>0, <1>3, EndsKeepsWorkers
<1>5. /\ link' \in [Stories -> Decisions \cup {None}]
      /\ \A s \in Stories : link'[s] # None =>
           link'[s] = link[s] /\ story'[s] # None /\ event'[link'[s].event] # None
  <2>1. /\ link \in [Stories -> Decisions \cup {None}]
        /\ \A s \in Stories : link[s] # None => event[link[s].event] # None
    BY <1>0, TypesAre
  <2>2. link' = [s \in Stories |-> IF story'[s] = None THEN None ELSE link[s]]
    BY <1>2 DEF Assigned
  <2> QED
    BY <1>3, <2>1, <2>2
<1>6. link' \in [Stories -> LinkRows' \cup {None}]
  BY <1>5 DEF LinkRows
<1>7. TypeOK'
  BY <1>0, <1>2, <1>3, <1>4, <1>5, <1>6 DEF TypeOK, Assigned, EventRows, Workings
<1> QED
  BY <1>2, <1>7 DEF StoriesAreKept, Assigned

LEMMA BeginStep ==
  ASSUME StoriesAreKept, NEW w \in Workers, NEW a \in Articles, Begin(w, a)
  PROVE  StoriesAreKept'
<1>0. TypeOK
  BY DEF StoriesAreKept
<1>1. /\ story' = [s \in Stories |->
           IF story[s] = None THEN None ELSE [story[s] EXCEPT !.updated = Numbered(@)]]
      /\ link' = [s \in Stories |->
           IF link[s] = None THEN None ELSE [link[s] EXCEPT !.seen = Numbered(@)]]
      /\ worker' = [v \in Workers |->
           IF v = w THEN [article |-> a, began |-> Cardinality(Compared), superseded |-> FALSE]
           ELSE IF worker[v].article = None THEN worker[v]
           ELSE [worker[v] EXCEPT !.began = Numbered(@),
                                  !.superseded = @ \/ worker[v].article = a]]
      /\ UNCHANGED <<alike, feeds, left, asked, failed, member, indexed, event, touch>>
  BY DEF Begin, archive, jobs
<1>2. Cardinality(Compared) \in Moments /\ \A moment : Numbered(moment) \in Moments
  BY <1>0, NumbersSuffice
<1>3. ASSUME NEW s \in Stories, story[s] # None
      PROVE  /\ story'[s] \in StoryRows /\ story'[s] # None /\ story'[s].facts = story[s].facts
  <2>1. story[s] \in StoryRows
    BY <1>0, <1>3, TypesAre
  <2>2. story'[s] = [story[s] EXCEPT !.updated = Numbered(story[s].updated)]
    BY <1>1, <1>3
  <2>3. story'[s] \in StoryRows /\ story'[s].facts = story[s].facts
    BY <1>2, <2>1, <2>2 DEF StoryRows
  <2> QED
    BY <2>3, StoriesConstants
<1>4. ASSUME NEW s \in Stories, link[s] # None
      PROVE  /\ link'[s] \in Decisions /\ link'[s] # None /\ link'[s].event = link[s].event
  <2>1. link[s] \in Decisions
    BY <1>0, <1>4, TypesAre
  <2>2. link'[s] = [link[s] EXCEPT !.seen = Numbered(link[s].seen)]
    BY <1>1, <1>4
  <2>3. link'[s] \in Decisions /\ link'[s].event = link[s].event
    BY <1>2, <2>1, <2>2 DEF Decisions
  <2> QED
    BY <2>3, StoriesConstants
<1>5. ASSUME NEW v \in Workers PROVE worker'[v] \in Workings
  <2>1. worker[v] \in Workings
    BY <1>0, TypesAre
  <2>2. [article |-> a, began |-> Cardinality(Compared), superseded |-> FALSE] \in Workings
    BY <1>2 DEF Workings
  <2> DEFINE superseded == worker[v].superseded \/ worker[v].article = a
             began == Numbered(worker[v].began)
  <2>3. superseded \in BOOLEAN /\ began \in Moments
    BY <1>2, <2>1 DEF Workings
  <2> HIDE DEF superseded, began
  <2>4. [worker[v] EXCEPT !.began = began, !.superseded = superseded] \in Workings
    BY <2>1, <2>3 DEF Workings
  <2> QED
    BY <1>1, <2>1, <2>2, <2>4 DEF superseded, began
<1>6. /\ \A s \in Stories : story[s] = None => story'[s] = None
      /\ \A s \in Stories : link[s] = None => link'[s] = None
  BY <1>1
<1>7. MembersStay
  BY <1>1, <1>3, <1>6 DEF MembersStay
<1>8. /\ story' \in [Stories -> StoryRows \cup {None}]
      /\ link' \in [Stories -> Decisions \cup {None}]
      /\ worker' \in [Workers -> Workings]
  BY <1>1, <1>3, <1>4, <1>5, <1>6
<1>9. /\ member' \in Memberships' /\ link' \in [Stories -> LinkRows' \cup {None}]
      /\ \A s \in Stories : link'[s] # None => story'[s] # None
  <2>1. member' \in Memberships'
    <3>1. {s \in Stories : story'[s] # None} = {s \in Stories : story[s] # None}
      BY <1>3, <1>6
    <3> QED
      BY <1>0, <1>1, <3>1 DEF TypeOK, Memberships
  <2>2. \A s \in Stories : link[s] # None => story[s] # None /\ event[link[s].event] # None
    BY <1>0, TypesAre
  <2>3. \A s \in Stories : link'[s] \in LinkRows' \cup {None}
    BY <1>1, <1>4, <1>6, <2>2 DEF LinkRows
  <2> QED
    BY <1>3, <1>4, <1>6, <1>8, <2>1, <2>2, <2>3
<1>10. TypeOK'
  BY <1>0, <1>1, <1>8, <1>9 DEF TypeOK, EventRows, Workings
<1> QED
  BY <1>7, <1>10, StayingKeeps DEF StoriesAreKept

LEMMA StopStep ==
  ASSUME StoriesAreKept, NEW w \in Workers, Abandon(w) \/ Fail(w) PROVE StoriesAreKept'
<1>0. TypeOK
  BY DEF StoriesAreKept
<1>1. UNCHANGED <<archive, grouped, decided, touch>> /\ Ends(w)
  BY DEF Abandon, Fail
<1>2. asked' \subseteq Articles /\ failed' \subseteq Articles
  <2>1. worker[w] \in Workings /\ asked \subseteq Articles /\ failed \subseteq Articles
    BY <1>0, TypesAre
  <2> QED
    BY <2>1 DEF Abandon, Fail, Workings, jobs
<1>3. worker' \in [Workers -> Workings]
  BY <1>0, <1>1, EndsKeepsWorkers
<1>4. MembersStay
  BY <1>1 DEF MembersStay, grouped
<1>5. TypeOK'
  BY <1>0, <1>1, <1>2, <1>3 DEF TypeOK, Memberships, LinkRows, EventRows, Workings, archive,
     grouped, decided
<1> QED
  BY <1>4, <1>5, StayingKeeps DEF StoriesAreKept

-----------------------------------------------------------------------------
(* Events are written from the stories that are there.                     *)

\* An event some story is decided for is there after its refresh.
LEMMA RefreshedEventIs ==
  ASSUME NEW e, NEW links
  PROVE  /\ RefreshedEvent(e, links) \in (SUBSET Articles) \cup {None}
         /\ \A s \in Stories : links[s] # None /\ links[s].event = e =>
              RefreshedEvent(e, links) # None
<1>1. ArticlesOf(e, links) \in SUBSET Articles
  BY DEF ArticlesOf
<1>2. ArticlesOf(e, links) # None
  BY <1>1, StoriesConstants
<1>3. \A s \in Stories : links[s] # None /\ links[s].event = e => StoriesOf(e, links) # {}
  BY DEF StoriesOf
<1> QED
  BY <1>1, <1>2, <1>3 DEF RefreshedEvent

LEMMA DecideStep ==
  ASSUME StoriesAreKept, NEW s \in Stories, NEW e \in Events, Decide(s, e) PROVE StoriesAreKept'
<1> DEFINE row == [event |-> e, seen |-> story[s].updated, on |-> story[s].facts]
           links == [link EXCEPT ![s] = row]
<1>0. /\ TypeOK /\ link \in [Stories -> Decisions \cup {None}]
      /\ event \in [Events -> (SUBSET Articles) \cup {None}]
      /\ \A t \in Stories : link[t] # None => story[t] # None /\ event[link[t].event] # None
  BY TypesAre DEF StoriesAreKept
<1>1. /\ story[s] # None /\ link' = links
      /\ event' = [d \in Events |->
           IF d \in Affected(s, e) THEN RefreshedEvent(d, links) ELSE event[d]]
      /\ UNCHANGED <<archive, jobs, grouped, worker, touch>>
  BY DEF Decide, Dirty
<1>2. row \in Decisions /\ row.event = e
  <2>1. story[s] \in StoryRows
    BY <1>0, <1>1, TypesAre
  <2> QED
    BY <2>1 DEF StoryRows, Decisions
<1> HIDE DEF row
<1>3. /\ links \in [Stories -> Decisions \cup {None}] /\ links[s] = row
      /\ \A t \in Stories : t # s => links[t] = link[t]
  BY <1>0, <1>2
<1> HIDE DEF links
<1>4. event' \in [Events -> (SUBSET Articles) \cup {None}]
  BY <1>0, <1>1, RefreshedEventIs
<1>5. ASSUME NEW t \in Stories, links[t] # None
      PROVE  story[t] # None /\ event'[links[t].event] # None
  <2> DEFINE d == links[t].event
  <2>1. story[t] # None /\ links[t] \in Decisions /\ d \in Events
    BY <1>0, <1>1, <1>3, <1>5 DEF Decisions
  <2>2. CASE d \in Affected(s, e)
    <3>1. event'[d] = RefreshedEvent(d, links)
      BY <1>1, <2>1, <2>2
    <3> QED
      BY <1>5, <2>1, <3>1, RefreshedEventIs
  <2>3. CASE d \notin Affected(s, e)
    <3>1. t # s
      BY <1>2, <1>3, <2>3, StoriesConstants DEF Affected
    <3>2. event'[d] = event[d] /\ link[t] # None /\ d = link[t].event
      BY <1>1, <1>3, <1>5, <2>1, <2>3, <3>1
    <3> QED
      BY <1>0, <2>1, <3>2
  <2> QED
    BY <2>2, <2>3
<1>6. UNCHANGED <<alike, feeds, left, asked, failed, member, story, indexed, worker, touch>>
  BY <1>1 DEF archive, jobs, grouped
<1>7. link' \in [Stories -> LinkRows' \cup {None}]
  BY <1>1, <1>3, <1>5 DEF LinkRows
<1>8. TypeOK'
  BY <1>0, <1>1, <1>4, <1>5, <1>6, <1>7 DEF TypeOK, Memberships, EventRows
<1>9. MembersStay
  BY <1>6 DEF MembersStay
<1> QED
  BY <1>8, <1>9, StayingKeeps DEF StoriesAreKept

LEMMA EventsStep ==
  ASSUME StoriesAreKept, Reconcile \/ WriteEvent \/ \E e \in Events : ReadEvent(e)
  PROVE  StoriesAreKept'
<1>0. /\ TypeOK /\ link \in [Stories -> Decisions \cup {None}]
      /\ event \in [Events -> (SUBSET Articles) \cup {None}] /\ touch \in Touches \cup {None}
      /\ \A t \in Stories : link[t] # None => event[link[t].event] # None
  BY TypesAre DEF StoriesAreKept
<1>1. UNCHANGED <<alike, feeds, left, asked, failed, member, story, indexed, link, worker>>
  BY DEF Reconcile, WriteEvent, ReadEvent, archive, jobs, grouped, decided
<1>2. /\ event' \in [Events -> (SUBSET Articles) \cup {None}] /\ touch' \in Touches \cup {None}
      /\ \A t \in Stories : link[t] # None => event'[link[t].event] # None
  <2>1. CASE Reconcile
    <3>1. /\ event' = [e \in Events |->
               IF event[e] = None THEN None ELSE RefreshedEvent(e, link)]
          /\ touch' = touch
      BY <2>1 DEF Reconcile
    <3>2. \A t \in Stories : link[t] # None => link[t].event \in Events
      BY <1>0 DEF Decisions
    <3>3. event' \in [Events -> (SUBSET Articles) \cup {None}]
      BY <3>1, RefreshedEventIs
    <3>4. \A t \in Stories : link[t] # None => event'[link[t].event] # None
      BY <1>0, <3>1, <3>2, RefreshedEventIs
    <3> QED
      BY <1>0, <3>1, <3>3, <3>4
  <2>2. CASE WriteEvent
    <3>1. /\ touch # None /\ touch' = None
          /\ event' = [e \in Events |->
               IF e = touch.event /\ event[e] # None THEN touch.articles ELSE event[e]]
      BY <2>2 DEF WriteEvent
    <3>2. touch.articles \in SUBSET Articles /\ touch.articles # None
      BY <1>0, <3>1, StoriesConstants DEF Touches
    <3>3. \A t \in Stories : link[t] # None => link[t].event \in Events
      BY <1>0 DEF Decisions
    <3> QED
      BY <1>0, <3>1, <3>2, <3>3
  <2>3. ASSUME NEW e \in Events, ReadEvent(e)
        PROVE  event' = event /\ touch' \in Touches
    <3>1. event' = event /\ touch' = [event |-> e, articles |-> ArticlesOf(e, link)]
      BY <2>3 DEF ReadEvent, decided
    <3>2. ArticlesOf(e, link) \in SUBSET Articles
      BY DEF ArticlesOf
    <3> QED
      BY <3>1, <3>2 DEF Touches
  <2> QED
    BY <1>0, <2>1, <2>2, <2>3
<1>3. link' \in [Stories -> LinkRows' \cup {None}]
  BY <1>0, <1>1, <1>2 DEF LinkRows
<1>4. TypeOK'
  BY <1>0, <1>1, <1>2, <1>3 DEF TypeOK, Memberships, EventRows, Touches
<1>5. MembersStay
  BY <1>1 DEF MembersStay
<1> QED
  BY <1>4, <1>5, StayingKeeps DEF StoriesAreKept

-----------------------------------------------------------------------------
LEMMA KeptInit == Init => StoriesAreKept
<1> SUFFICES ASSUME Init PROVE StoriesAreKept
  OBVIOUS
<1>1. /\ alike = {} /\ feeds \in FirstFeeds /\ left = Changes /\ asked = {} /\ failed = {}
      /\ member = [a \in Articles |-> None] /\ story = [s \in Stories |-> None]
      /\ link = [s \in Stories |-> None] /\ event = [e \in Events |-> None]
      /\ indexed = [a \in Articles |-> None] /\ worker = [w \in Workers |-> Idle] /\ touch = None
  BY DEF Init
<1>2. left \in 0..Changes /\ feeds \in [Articles -> SUBSET Feeds] /\ alike \in Similarities
  BY <1>1, StoriesConstants
<1>3. TypeOK
  BY <1>1, <1>2, IdleIs, TypesAre
<1>4. StoriesCountTheirArticles
  <2>1. \A s \in Stories : s # None
    BY StoriesConstants
  <2> QED
    BY <1>1, <2>1 DEF StoriesCountTheirArticles, Members
<1> QED
  BY <1>1, <1>3, <1>4 DEF StoriesAreKept, MovedArticlesAreIndexed

LEMMA KeptStep == StoriesAreKept /\ [Next]_vars => StoriesAreKept'
<1> SUFFICES ASSUME StoriesAreKept, [Next]_vars PROVE StoriesAreKept'
  OBVIOUS
<1>1. CASE Changing
  BY <1>1, ChangingStep
<1>2. CASE Working
  BY <1>2, BeginStep, PublishStep, StopStep DEF Working
<1>3. CASE Deciding
  BY <1>3, DecideStep, EventsStep DEF Deciding
<1>4. CASE UNCHANGED vars
  <2>1. UNCHANGED <<alike, feeds, left, asked, failed, member, story, indexed, link, event,
                    worker, touch>>
    BY <1>4 DEF vars, archive, jobs, grouped, decided
  <2>2. MembersStay
    BY <2>1 DEF MembersStay
  <2>3. TypeOK'
    BY <2>1 DEF StoriesAreKept, TypeOK, Memberships, LinkRows, EventRows
  <2> QED
    BY <2>2, <2>3, StayingKeeps DEF StoriesAreKept
<1> QED
  BY <1>1, <1>2, <1>3, <1>4 DEF Next

LEMMA StoriesAlwaysKept == Spec => []StoriesAreKept
  BY KeptInit, KeptStep, PTL DEF Spec

\* An article belongs to a story there is, and a story to an event there is, whatever
\* assignments, decisions and sweeps come between each other (_finish, _decide,
\* reconcile_events).
THEOREM TypeCorrect == Spec => []TypeOK
<1>1. StoriesAreKept => TypeOK
  BY DEF StoriesAreKept
<1> QED
  BY <1>1, StoriesAlwaysKept, PTL

\* Each story has two articles or more, and its stored statistics are of its articles: an
\* assignment computes every story again that it took an article from (_refresh_cluster).
THEOREM StoriesCountTheirArticlesHolds == Spec => []StoriesCountTheirArticles
<1>1. StoriesAreKept => StoriesCountTheirArticles
  BY DEF StoriesAreKept
<1> QED
  BY <1>1, StoriesAlwaysKept, PTL

\* No article changes its story without its document being asked for again, the last one of
\* a story that is dissolved included (_finish).
THEOREM MovedArticlesAreIndexedHolds == Spec => []MovedArticlesAreIndexed
<1>1. StoriesAreKept => MovedArticlesAreIndexed
  BY DEF StoriesAreKept
<1> QED
  BY <1>1, StoriesAlwaysKept, PTL
=============================================================================
