------------------------ MODULE SourceRefreshProofs -------------------------
(***************************************************************************)
(* Proofs about SourceRefresh for any number of articles, renames and      *)
(* refreshes and any size of batch.                                        *)
(***************************************************************************)
EXTENDS SourceRefresh, SequenceTheorems, TLAPS

\* Renames of one source wait for each other, so that the bound still holds when
\* one commits.
RenameBounded == rename.open => name < MaxName

LEMMA TypeInit == Init => TypeOK /\ RenameBounded
  BY SourceRefreshConstants DEF Init, TypeOK, RenameBounded, NoRename

\* A batch changes one refresh, which remains the refresh of the same rename.
LEMMA BatchUpdates ==
  ASSUME TypeOK, NEW i \in DOMAIN refreshes, NEW batch \in SUBSET listed, RefreshBatch(i, batch)
  PROVE  \E new \in Refreshes :
           /\ refreshes' = [refreshes EXCEPT ![i] = new]
           /\ new.since = refreshes[i].since
           /\ IsCursor(new.cursor, batch, refreshes[i].cursor)
           /\ new.status = "succeeded" => LastBatch(batch, BatchSize)
<1> PICK last \in 0..LastArticle :
      /\ IsCursor(last, batch, refreshes[i].cursor)
      /\ refreshes' = [refreshes EXCEPT
           ![i].status = IF LastBatch(batch, BatchSize) THEN "succeeded" ELSE "running",
           ![i].cursor = last]
  BY DEF RefreshBatch
<1> DEFINE status == IF LastBatch(batch, BatchSize) THEN "succeeded" ELSE "running"
           new == [refreshes[i] EXCEPT !.status = status, !.cursor = last]
<1>1. status \in {"running", "succeeded"} /\ (status = "succeeded" => LastBatch(batch, BatchSize))
  OBVIOUS
<1>2. refreshes[i] \in Refreshes
  BY ElementOfSeq DEF TypeOK
<1>3. refreshes' = [refreshes EXCEPT ![i] = new]
  OBVIOUS
<1> HIDE DEF status
<1>4. new \in Refreshes /\ new.since = refreshes[i].since
      /\ new.cursor = last /\ new.status = status
  BY <1>1, <1>2 DEF Refreshes
<1> HIDE DEF new
<1> QED
  BY <1>1, <1>3, <1>4

LEMMA RequestTypes ==
  ASSUME TypeOK, NEW articles \in SUBSET Articles, Request(articles)
  PROVE  asked' \in [Articles -> 0..MaxName]
  BY DEF Request, TypeOK

LEMMA TypeStep == TypeOK /\ RenameBounded /\ [Next]_vars => TypeOK' /\ RenameBounded'
<1> SUFFICES ASSUME TypeOK, RenameBounded, [Next]_vars PROVE TypeOK' /\ RenameBounded'
  OBVIOUS
<1> USE SourceRefreshConstants DEF TypeOK, RenameBounded
<1>1. ASSUME NEW a \in Articles, ArticleChanges(a) PROVE TypeOK' /\ RenameBounded'
  <2>1. asked' \in [Articles -> 0..MaxName]
    BY <1>1, RequestTypes DEF ArticleChanges
  <2> QED
    BY <1>1, <2>1 DEF ArticleChanges, Request
<1>2. ASSUME NEW a \in Articles, Deliver(a) PROVE TypeOK' /\ RenameBounded'
  BY <1>2 DEF Deliver
<1>3. CASE BeginRename
  BY <1>3 DEF BeginRename, ActiveRefresh
<1>4. CASE CommitRename
  <2>1. name' \in 1..MaxName
    BY <1>4 DEF CommitRename
  <2> DEFINE new == [status |-> "queued", cursor |-> 0, since |-> name + 1]
  <2>2. new \in Refreshes
    BY <1>4, <2>1 DEF CommitRename, Refreshes
  <2>3. refreshes' = refreshes \/ refreshes' = Append(refreshes, new)
    BY <1>4 DEF CommitRename
  <2> HIDE DEF new
  <2>4. refreshes' \in Seq(Refreshes)
    <3>1. Append(refreshes, new) \in Seq(Refreshes)
      BY <2>2, AppendProperties
    <3> QED
      BY <2>3, <3>1
  <2> QED
    BY <1>4, <2>1, <2>4 DEF CommitRename, NoRename
<1>5. CASE RollBackRename
  BY <1>5 DEF RollBackRename, NoRename
<1>6. CASE RefreshStep
  <2> PICK i \in DOMAIN refreshes, batch \in SUBSET listed : RefreshBatch(i, batch)
    BY <1>6 DEF RefreshStep
  <2>1. asked' \in [Articles -> 0..MaxName] /\ pending' \subseteq listed'
    BY RequestTypes DEF RefreshBatch, Request
  <2>2. PICK new \in Refreshes : refreshes' = [refreshes EXCEPT ![i] = new]
    BY BatchUpdates
  <2>3. refreshes' \in Seq(Refreshes)
    BY <2>2, ExceptSeq
  <2> QED
    BY <2>1, <2>3 DEF RefreshBatch
<1>7. CASE UNCHANGED vars
  BY <1>7 DEF vars
<1> QED
  BY <1>1, <1>2, <1>3, <1>4, <1>5, <1>6, <1>7 DEF Next

\* Every reachable state is well formed.
THEOREM TypeCorrect == Spec => []TypeOK
  BY TypeInit, TypeStep, PTL DEF Spec

-----------------------------------------------------------------------------
(* The inductive invariant: what a refresh has passed was asked for at its
   name, whether by its own batches or by whoever listed the article there. *)

PassedWasAsked ==
  \A i \in DOMAIN refreshes :
    /\ refreshes[i].since <= name
    /\ \A a \in listed :
         a <= refreshes[i].cursor \/ refreshes[i].status = "succeeded"
           => asked[a] >= refreshes[i].since

IndInv == TypeOK /\ RenameBounded /\ PassedWasAsked

LEMMA IndInit == Init => IndInv
  BY TypeInit DEF IndInv, Init, PassedWasAsked

LEMMA IndStep == IndInv /\ [Next]_vars => IndInv'
<1> SUFFICES ASSUME IndInv, [Next]_vars PROVE PassedWasAsked'
  BY TypeStep DEF IndInv
<1>0. TypeOK'
  BY TypeStep DEF IndInv
<1> USE SourceRefreshConstants DEF IndInv, TypeOK, PassedWasAsked
<1>1. ASSUME NEW a \in Articles, ArticleChanges(a) PROVE PassedWasAsked'
  BY <1>1 DEF ArticleChanges, Request, Refreshes
<1>2. ASSUME NEW a \in Articles, Deliver(a) PROVE PassedWasAsked'
  BY <1>2 DEF Deliver
<1>3. CASE BeginRename
  BY <1>3 DEF BeginRename
<1>4. CASE CommitRename
  <2> DEFINE new == [status |-> "queued", cursor |-> 0, since |-> name + 1]
  <2>0. name' = name + 1 /\ listed' = listed /\ asked' = asked /\ name \in Nat
    BY <1>4 DEF CommitRename
  <2>1. CASE refreshes' = refreshes
    <3> SUFFICES ASSUME NEW i \in DOMAIN refreshes
                 PROVE  refreshes[i].since \in Nat
      BY <2>0, <2>1
    <3>1. refreshes[i] \in Refreshes
      BY ElementOfSeq
    <3> QED
      BY <3>1 DEF Refreshes
  <2>2. CASE refreshes' = Append(refreshes, new)
    <3>1. new \in Refreshes /\ new.since = name' /\ new.cursor = 0 /\ new.status = "queued"
      BY <1>4 DEF CommitRename, Refreshes, RenameBounded
    <3> HIDE DEF new
    <3> SUFFICES ASSUME NEW i \in DOMAIN refreshes'
                 PROVE  /\ refreshes'[i].since <= name'
                        /\ \A a \in listed' :
                             a <= refreshes'[i].cursor \/ refreshes'[i].status = "succeeded"
                               => asked'[a] >= refreshes'[i].since
      OBVIOUS
    <3>2. CASE i \in DOMAIN refreshes
      <4>1. refreshes'[i] = refreshes[i] /\ refreshes[i] \in Refreshes
        BY <2>2, <3>1, <3>2, AppendProperties, ElementOfSeq
      <4>2. /\ refreshes[i].since <= name
            /\ \A a \in listed :
                 a <= refreshes[i].cursor \/ refreshes[i].status = "succeeded"
                   => asked[a] >= refreshes[i].since
        BY <3>2
      <4>3. refreshes[i].since <= name'
        BY <2>0, <4>1, <4>2 DEF Refreshes
      <4> QED
        BY ONLY <2>0, <4>1, <4>2, <4>3
    <3>3. CASE i \notin DOMAIN refreshes
      <4>1. refreshes'[i] = new
        BY <1>0, <2>2, <3>1, <3>3, AppendProperties, LenProperties
      <4> QED
        BY <2>0, <3>1, <4>1 DEF Articles
    <3> QED
      BY <3>2, <3>3
  <2> QED
    BY <1>4, <2>1, <2>2 DEF CommitRename
<1>5. CASE RollBackRename
  BY <1>5 DEF RollBackRename
<1>6. CASE RefreshStep
  <2> PICK i \in DOMAIN refreshes, batch \in SUBSET listed : RefreshBatch(i, batch)
    BY <1>6 DEF RefreshStep
  <2>1. PICK new \in Refreshes :
          /\ refreshes' = [refreshes EXCEPT ![i] = new]
          /\ new.since = refreshes[i].since
          /\ IsCursor(new.cursor, batch, refreshes[i].cursor)
          /\ new.status = "succeeded" => LastBatch(batch, BatchSize)
    BY BatchUpdates
  <2>2. refreshes[i] \in Refreshes
    BY ElementOfSeq
  <2>3. \A a \in listed :
          a <= new.cursor \/ new.status = "succeeded"
            => a <= refreshes[i].cursor \/ a \in batch
    <3>1. IsBatch(batch, listed, refreshes[i].cursor, BatchSize)
      BY DEF RefreshBatch
    <3>2. listed \in SUBSET Nat /\ refreshes[i].cursor \in Nat /\ new.cursor \in Nat
      BY <2>2 DEF Articles, Refreshes
    <3>3. ASSUME NEW a \in listed, a <= new.cursor, refreshes[i].cursor < a PROVE a \in batch
      <4>1. a \in Beyond(listed, refreshes[i].cursor) /\ batch # {}
        BY <2>1, <3>2, <3>3 DEF Beyond, IsCursor
      <4> QED
        BY <2>1, <3>1, <3>3, <4>1 DEF IsBatch, IsCursor
    <3>4. ASSUME NEW a \in listed, new.status = "succeeded", refreshes[i].cursor < a
          PROVE  a \in batch
      BY <2>1, <3>1, <3>4 DEF Beyond, IsBatch, LastBatch
    <3> QED
      BY <3>2, <3>3, <3>4
  <2>4. /\ name' = name /\ listed' = listed
        /\ \A a \in listed : asked'[a] = IF a \in batch THEN name ELSE asked[a]
    BY DEF RefreshBatch, Request
  <2> SUFFICES ASSUME NEW k \in DOMAIN refreshes
               PROVE  /\ refreshes'[k].since <= name
                      /\ \A a \in listed :
                           a <= refreshes'[k].cursor \/ refreshes'[k].status = "succeeded"
                             => asked'[a] >= refreshes'[k].since
    BY <2>1, <2>4
  <2>5. CASE k = i
    <3>1. refreshes'[k] = new
      BY <2>1, <2>5
    <3>2. name >= new.since
      BY <2>1
    <3> QED
      BY <2>1, <2>2, <2>3, <2>4, <3>1, <3>2 DEF Refreshes
  <2>6. CASE k # i
    <3>1. refreshes'[k] = refreshes[k] /\ refreshes[k] \in Refreshes
      BY <2>1, <2>6, ElementOfSeq
    <3> QED
      BY <2>4, <3>1 DEF Refreshes
  <2> QED
    BY <2>5, <2>6
<1>7. CASE UNCHANGED vars
  BY <1>7 DEF vars
<1> QED
  BY <1>1, <1>2, <1>3, <1>4, <1>5, <1>6, <1>7 DEF Next

\* A refresh that succeeded has asked for every article of the source, at the name
\* it was created for: also for those that ingestion put behind its cursor, which
\* were requested when they were listed (process_source_refresh).
THEOREM FinishedRefreshAskedForAllHolds == Spec => []FinishedRefreshAskedForAll
<1>1. IndInv => FinishedRefreshAskedForAll
  BY DEF IndInv, PassedWasAsked, FinishedRefreshAskedForAll
<1> QED
  BY <1>1, IndInit, IndStep, PTL DEF Spec
=============================================================================
