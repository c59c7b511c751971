------------------------ MODULE SearchRebuildProofs -------------------------
(***************************************************************************)
(* Proofs about SearchRebuild for any number of indices, articles and      *)
(* revisions and any size of batch; and that each row of its queue, of     *)
(* which it takes steps of IndexDelivery among its own, is a delivery as   *)
(* IndexDelivery promises it.                                              *)
(***************************************************************************)
EXTENDS SearchRebuild, FiniteSetTheorems, TLAPS

\* Up to its last id a batch leaves no row out, and a batch that is not full leaves
\* none at all (the cursor scan of search/rebuild.py).
LEMMA BatchLeavesNothing ==
  ASSUME NEW rows \in SUBSET Nat, NEW cursor \in Nat, NEW size \in Nat,
         NEW batch, IsBatch(batch, rows, cursor, size),
         NEW last \in Nat, IsCursor(last, batch, cursor)
  PROVE  /\ \A id \in rows : cursor < id /\ id <= last => id \in batch
         /\ LastBatch(batch, size) => \A id \in rows : cursor < id => id \in batch
<1>1. ASSUME NEW id \in rows, cursor < id, id <= last PROVE id \in batch
  <2>1. id \in Beyond(rows, cursor)
    BY <1>1 DEF Beyond
  <2>2. CASE batch = {}
    BY <1>1, <2>2 DEF IsCursor
  <2>3. CASE batch # {}
    BY <1>1, <2>1, <2>3 DEF IsCursor, IsBatch
  <2> QED
    BY <2>2, <2>3
<1>2. ASSUME LastBatch(batch, size), NEW id \in rows, cursor < id PROVE id \in batch
  <2>1. batch = Beyond(rows, cursor)
    BY <1>2 DEF IsBatch, LastBatch
  <2> QED
    BY <1>2, <2>1 DEF Beyond
<1> QED
  BY <1>1, <1>2

Coordinating ==
  [pc : {"scan", "decide", "switch", "commit"}, index : Indices,
   previous : SUBSET Indices, promised : [Articles -> Nat]]

\* A coordinator that is doing something has an index to do it to.
LEMMA BusyCoordinator ==
  ASSUME TypeOK, NEW c \in Coordinators, coordinator[c].pc # "free"
  PROVE  coordinator[c] \in Coordinating
  BY DEF TypeOK, Free, Coordinating

\* One batch changes the rebuild of one index, and only where it was scanning.
LEMMA BatchUpdates ==
  ASSUME TypeOK, NEW c \in Coordinators, NEW batch \in SUBSET Articles, ScanBatch(c, batch)
  PROVE  \E t \in Indices, new \in [status : {"scanning", "catching_up"}, cursor : 0..LastArticle] :
           /\ t = coordinator[c].index
           /\ rebuild[t].status = "scanning"
           /\ rebuild' = [rebuild EXCEPT ![t] = new]
           /\ IsBatch(batch, Existing, rebuild[t].cursor, BatchSize)
           /\ IsCursor(new.cursor, batch, rebuild[t].cursor)
           /\ new.status = "catching_up" => LastBatch(batch, BatchSize)
<1> DEFINE t == coordinator[c].index
           status == IF LastBatch(batch, BatchSize) THEN "catching_up" ELSE "scanning"
<1>1. t \in Indices
  BY BusyCoordinator DEF ScanBatch, Coordinating
<1> PICK last \in 0..LastArticle :
      /\ IsCursor(last, batch, rebuild[t].cursor)
      /\ rebuild' = [rebuild EXCEPT ![t] = [status |-> status, cursor |-> last]]
  BY DEF ScanBatch
<1>2. status \in {"scanning", "catching_up"}
      /\ (status = "catching_up" => LastBatch(batch, BatchSize))
  OBVIOUS
<1>3. rebuild[t].status = "scanning" /\ IsBatch(batch, Existing, rebuild[t].cursor, BatchSize)
  BY DEF ScanBatch
<1> HIDE DEF status, t
<1> DEFINE new == [status |-> status, cursor |-> last]
<1>4. /\ new \in [status : {"scanning", "catching_up"}, cursor : 0..LastArticle]
      /\ new.status = status /\ new.cursor = last
  BY <1>2
<1> HIDE DEF new
<1>5. t = coordinator[c].index /\ rebuild' = [rebuild EXCEPT ![t] = new]
  BY DEF t, new
<1> QED
  BY <1>1, <1>2, <1>3, <1>4, <1>5

LEMMA DeliveryPairs ==
  /\ \A t \in Indices, a \in Articles : <<t, a>> \in Deliveries
  /\ \A d \in Deliveries : d[1] \in Indices /\ d[2] \in Articles /\ d = <<d[1], d[2]>>
  BY DEF Deliveries

\* What a step of the queue does to one delivery, and that it does nothing else.
LEMMA QueueSteps ==
  ASSUME TypeOK, NEW d \in Deliveries, QueueStep(d)
  PROVE  /\ requested' = requested
         /\ indexed' \in [Deliveries -> Nat] /\ stored' \in [Deliveries -> Nat]
         /\ outcome' \in [Deliveries -> {"none", "open", "done", "failed"}]
         /\ \A e \in Deliveries :
              /\ outcome'[e] = "none" <=> outcome[e] = "none"
              /\ stored'[e] >= stored[e]
              /\ indexed[e] <= stored[e] => indexed'[e] <= stored'[e]
<1> USE DEF TypeOK
<1>1. CASE Queue!Land(d)
  <2>1. PICK r \in (stored[d] + 1)..requested[d] : stored' = [stored EXCEPT ![d] = r]
    BY <1>1 DEF Queue!Land
  <2>2. r \in Nat /\ r > stored[d]
    BY <2>1
  <2>3. requested' = requested /\ indexed' = indexed /\ outcome' = outcome
    BY <1>1 DEF Queue!Land
  <2> QED
    BY <2>1, <2>2, <2>3
<1>2. CASE Queue!Done(d)
  <2>1. /\ requested' = requested /\ stored' = stored
        /\ stored[d] = requested[d] /\ outcome[d] = "open"
        /\ indexed' = [indexed EXCEPT ![d] = requested[d]]
        /\ outcome' = [outcome EXCEPT ![d] = "done"]
    BY <1>2 DEF Queue!Done
  <2> QED
    BY <2>1
<1>3. CASE Queue!GiveUp(d)
  BY <1>3 DEF Queue!GiveUp
<1>4. CASE Queue!Retry(d)
  BY <1>4 DEF Queue!Retry
<1> QED
  BY <1>1, <1>2, <1>3, <1>4 DEF QueueStep

\* Which deliveries a change asks for, and which a batch of the scan does.
LEMMA ChangeRequests ==
  ASSUME NEW a \in Articles, CommitChange(a), NEW t \in Indices, NEW b \in Articles
  PROVE  IF b = a /\ t \in change[a].sees
         THEN requested'[<<t, b>>] = revision[a] + 1 /\ outcome'[<<t, b>>] = "open"
         ELSE requested'[<<t, b>>] = requested[<<t, b>>] /\ outcome'[<<t, b>>] = outcome[<<t, b>>]
<1>1. <<t, b>> \in Deliveries
  BY DEF Deliveries
<1>2. <<t, b>> \in change[a].sees \X {a} <=> b = a /\ t \in change[a].sees
  OBVIOUS
<1> QED
  BY <1>1, <1>2 DEF CommitChange

LEMMA BatchRequests ==
  ASSUME NEW c \in Coordinators, NEW batch \in SUBSET Articles, ScanBatch(c, batch),
         NEW t \in Indices, NEW b \in Articles
  PROVE  IF t = coordinator[c].index /\ b \in batch /\ outcome[<<t, b>>] = "none"
         THEN requested'[<<t, b>>] = revision[b] /\ outcome'[<<t, b>>] = "open"
         ELSE requested'[<<t, b>>] = requested[<<t, b>>] /\ outcome'[<<t, b>>] = outcome[<<t, b>>]
<1>1. <<t, b>> \in Deliveries
  BY DEF Deliveries
<1>2. <<t, b>> \in {coordinator[c].index} \X batch <=> t = coordinator[c].index /\ b \in batch
  OBVIOUS
<1> QED
  BY <1>1, <1>2 DEF ScanBatch

-----------------------------------------------------------------------------
LEMMA TypeInit == Init => TypeOK
<1> SUFFICES ASSUME Init PROVE TypeOK
  OBVIOUS
<1> USE RebuildConstants DEF Init
<1>1. change \in [Articles -> [open : BOOLEAN, sees : SUBSET Indices]]
  BY DEF NoChange
<1>2. rebuild \in [Indices -> [status : Statuses, cursor : 0..LastArticle]]
  BY DEF Statuses
<1> QED
  BY <1>1, <1>2 DEF TypeOK, Roles

LEMMA TypeStep == TypeOK /\ [Next]_vars => TypeOK'
<1> SUFFICES ASSUME TypeOK, [Next]_vars PROVE TypeOK'
  OBVIOUS
<1> USE RebuildConstants DEF TypeOK
<1>1. ASSUME NEW a \in Articles, BeginChange(a) PROVE TypeOK'
  BY <1>1 DEF BeginChange, Fed, queueVars
<1>2. ASSUME NEW a \in Articles, CommitChange(a) PROVE TypeOK'
  <2>1. revision' \in [Articles -> Nat] /\ change' \in [Articles -> [open : BOOLEAN, sees : SUBSET Indices]]
    BY <1>2 DEF CommitChange, NoChange
  <2>2. /\ requested' \in [Deliveries -> Nat]
        /\ outcome' \in [Deliveries -> {"none", "open", "done", "failed"}]
    BY <1>2 DEF CommitChange
  <2> QED
    BY <1>2, <2>1, <2>2 DEF CommitChange
<1>3. ASSUME NEW a \in Articles, RollBackChange(a) PROVE TypeOK'
  BY <1>3 DEF RollBackChange, NoChange, queueVars
<1>4. ASSUME NEW d \in Deliveries, QueueStep(d) PROVE TypeOK'
  BY <1>4, QueueSteps DEF QueueStep
<1>5. CASE SourceRefreshes
  BY <1>5 DEF SourceRefreshes, queueVars
<1>6. ASSUME NEW c \in Coordinators, NEW t \in Indices, CreateRebuild(c, t) \/ ResumeRebuild(c, t)
      PROVE  TypeOK'
  <2>1. coordinator' \in [Coordinators -> {Free} \cup Coordinating]
    BY <1>6 DEF CreateRebuild, ResumeRebuild, Enter, Free, Coordinating
  <2>2. role' \in [Indices -> Roles]
    BY <1>6 DEF CreateRebuild, ResumeRebuild, Roles
  <2>3. rebuild' \in [Indices -> [status : Statuses, cursor : 0..LastArticle]]
    BY <1>6 DEF CreateRebuild, ResumeRebuild, Statuses, queueVars
  <2> QED
    BY <1>6, <2>1, <2>2, <2>3 DEF CreateRebuild, ResumeRebuild, Coordinating, queueVars
<1>7. ASSUME NEW c \in Coordinators, NEW batch \in SUBSET Articles, ScanBatch(c, batch)
      PROVE  TypeOK'
  <2>1. /\ requested' \in [Deliveries -> Nat]
        /\ outcome' \in [Deliveries -> {"none", "open", "done", "failed"}]
    BY <1>7, DeliveryPairs DEF ScanBatch
  <2>2. rebuild' \in [Indices -> [status : Statuses, cursor : 0..LastArticle]]
    BY <1>7, BatchUpdates DEF Statuses
  <2> QED
    BY <1>7, <2>1, <2>2 DEF ScanBatch
<1>8. ASSUME NEW c \in Coordinators, ReadAlias(c) PROVE TypeOK'
  <2>1. coordinator[c] \in Coordinating
    BY <1>8, BusyCoordinator DEF ReadAlias
  <2> QED
    BY <1>8, <2>1 DEF ReadAlias, Coordinating, queueVars
<1>9. ASSUME NEW c \in Coordinators, DecideCutover(c) PROVE TypeOK'
  <2>1. coordinator[c] \in Coordinating
    BY <1>9, BusyCoordinator DEF DecideCutover
  <2> QED
    BY <1>9, <2>1 DEF DecideCutover, Coordinating, queueVars
<1>10. ASSUME NEW c \in Coordinators, SwitchAlias(c) PROVE TypeOK'
  <2>1. coordinator[c] \in Coordinating
    BY <1>10, BusyCoordinator DEF SwitchAlias
  <2> QED
    BY <1>10, <2>1 DEF SwitchAlias, Coordinating, queueVars
<1>11. ASSUME NEW c \in Coordinators, CompleteCutover(c) PROVE TypeOK'
  <2>1. role' \in [Indices -> Roles]
    BY <1>11 DEF CompleteCutover, Promoted, Roles
  <2>2. rebuild' \in [Indices -> [status : Statuses, cursor : 0..LastArticle]]
    BY <1>11 DEF CompleteCutover, Statuses
  <2> QED
    BY <1>11, <2>1, <2>2 DEF CompleteCutover, Leave, queueVars
<1>12. ASSUME NEW c \in Coordinators, DeclineCutover(c) \/ PostponeCutover(c) \/ Crash(c)
       PROVE  TypeOK'
  BY <1>12 DEF DeclineCutover, PostponeCutover, Crash, Leave, queueVars
<1>13. CASE UNCHANGED vars
  BY <1>13 DEF vars, queueVars
<1> QED
  BY <1>1, <1>2, <1>3, <1>4, <1>5, <1>6, <1>7, <1>8, <1>9, <1>10, <1>11, <1>12, <1>13
  DEF Next

\* Every reachable state is well formed.
THEOREM TypeCorrect == Spec => []TypeOK
  BY TypeInit, TypeStep, PTL DEF Spec

-----------------------------------------------------------------------------
(* The invariant for any number of coordinators.  It says of an index whose
   rebuild is under way what it says of one that is fed: several coordinators
   may spoil the second, but not before the rebuild has completed. *)

\* A target has a role from its creation on, and is the replacement until its
\* rebuild completes.
RolesFollow ==
  \A t \in Indices :
    /\ role[t] = "none" <=> rebuild[t].status = "none"
    /\ rebuild[t].status \in {"scanning", "catching_up"} <=> role[t] = "replacement"
    /\ rebuild[t].status = "none" =>
         rebuild[t].cursor = 0 /\ \A a \in Articles : outcome[<<t, a>>] = "none"

\* What an open transaction has read of the targets is what they are: the
\* advisory lock keeps the coordinator out.
OpenChangesSeeFed == \A a \in Articles : change[a].open => change[a].sees = Fed

\* A coordinator gets beyond the scan only when the rebuild has.
CoordinatorsFollow ==
  \A c \in Coordinators :
    /\ coordinator[c].pc # "free" => rebuild[coordinator[c].index].status # "none"
    /\ coordinator[c].pc \in {"decide", "switch", "commit"} =>
         rebuild[coordinator[c].index].status \in {"catching_up", "completed"}

\* Each article has been requested at its newest revision, or the scan has yet to
\* come to it.
BuildingMissesNothing ==
  \A t \in Indices, a \in Existing :
    rebuild[t].status \in {"scanning", "catching_up"} =>
      IF outcome[<<t, a>>] = "none"
      THEN rebuild[t].status = "scanning" /\ rebuild[t].cursor < a
      ELSE requested[<<t, a>>] = revision[a]

IndexedIsStored == \A d \in Deliveries : indexed[d] <= stored[d]

IndInv ==
  /\ TypeOK
  /\ RolesFollow
  /\ OpenChangesSeeFed
  /\ CoordinatorsFollow
  /\ BuildingMissesNothing
  /\ IndexedIsStored
  /\ CaughtUpBeforeCutover

LEMMA IndInit == Init => IndInv
  BY TypeInit, DeliveryPairs
  DEF IndInv, Init, RolesFollow, OpenChangesSeeFed, CoordinatorsFollow, BuildingMissesNothing,
      IndexedIsStored, CaughtUpBeforeCutover, Free, NoChange, Existing

LEMMA RolesStep == IndInv /\ [Next]_vars => RolesFollow'
<1> SUFFICES ASSUME IndInv, [Next]_vars PROVE RolesFollow'
  OBVIOUS
<1> USE DEF IndInv, TypeOK, RolesFollow
<1>1. ASSUME NEW a \in Articles, BeginChange(a) \/ RollBackChange(a) PROVE RolesFollow'
  BY <1>1 DEF BeginChange, RollBackChange, queueVars
<1>2. ASSUME NEW a \in Articles, CommitChange(a) PROVE RolesFollow'
  <2>1. \A t \in change[a].sees : rebuild[t].status # "none"
    BY <1>2 DEF CommitChange, OpenChangesSeeFed, Fed
  <2>2. \A t \in Indices, b \in Articles :
          rebuild[t].status = "none" => outcome'[<<t, b>>] = outcome[<<t, b>>]
    BY <1>2, <2>1, ChangeRequests
  <2>3. role' = role /\ rebuild' = rebuild
    BY <1>2 DEF CommitChange
  <2> QED
    BY <2>2, <2>3
<1>3. ASSUME NEW d \in Deliveries, QueueStep(d) PROVE RolesFollow'
  BY <1>3, QueueSteps, DeliveryPairs DEF QueueStep
<1>4. CASE SourceRefreshes
  BY <1>4 DEF SourceRefreshes, queueVars
<1>5. ASSUME NEW c \in Coordinators, NEW t \in Indices, CreateRebuild(c, t) PROVE RolesFollow'
  <2>1. /\ role' = [role EXCEPT ![t] = "replacement"]
        /\ rebuild' = [rebuild EXCEPT ![t].status = "scanning"]
        /\ outcome' = outcome
    BY <1>5 DEF CreateRebuild, queueVars
  <2> QED
    BY <2>1
<1>6. ASSUME NEW c \in Coordinators, NEW batch \in SUBSET Articles, ScanBatch(c, batch)
      PROVE  RolesFollow'
  <2>1. PICK t \in Indices, new \in [status : {"scanning", "catching_up"}, cursor : 0..LastArticle] :
          /\ t = coordinator[c].index /\ rebuild[t].status = "scanning"
          /\ rebuild' = [rebuild EXCEPT ![t] = new]
    BY <1>6, BatchUpdates
  <2>2. \A u \in Indices, a \in Articles : u # t => outcome'[<<u, a>>] = outcome[<<u, a>>]
    BY <1>6, <2>1, BatchRequests
  <2>3. role' = role
    BY <1>6 DEF ScanBatch
  <2> QED
    BY <2>1, <2>2, <2>3
<1>7. ASSUME NEW c \in Coordinators, CompleteCutover(c) PROVE RolesFollow'
  <2> DEFINE t == coordinator[c].index
  <2>1. t \in Indices
    BY <1>7, BusyCoordinator DEF CompleteCutover, Coordinating
  <2>2. rebuild[t].status # "none"
    BY <1>7 DEF CompleteCutover, CoordinatorsFollow
  <2>3. /\ \A x \in Indices : role'[x] = IF role[x] = "current" THEN "retained"
                                         ELSE IF x = t THEN "current" ELSE role[x]
        /\ rebuild' = [rebuild EXCEPT ![t].status = "completed"]
        /\ outcome' = outcome
    BY <1>7 DEF CompleteCutover, Promoted, queueVars
  <2> HIDE DEF t
  <2> QED
    BY <2>1, <2>2, <2>3
<1>8. ASSUME NEW c \in Coordinators,
             \/ \E t \in Indices : ResumeRebuild(c, t)
             \/ ReadAlias(c) \/ DecideCutover(c) \/ DeclineCutover(c) \/ SwitchAlias(c)
             \/ PostponeCutover(c) \/ Crash(c)
      PROVE  RolesFollow'
  BY <1>8 DEF ResumeRebuild, ReadAlias, DecideCutover, DeclineCutover, SwitchAlias, PostponeCutover,
     Crash, queueVars
<1>9. CASE UNCHANGED vars
  BY <1>9 DEF vars, queueVars
<1> QED
  BY <1>1, <1>2, <1>3, <1>4, <1>5, <1>6, <1>7, <1>8, <1>9 DEF Next

LEMMA OpenChangesStep == IndInv /\ [Next]_vars => OpenChangesSeeFed'
<1> SUFFICES ASSUME IndInv, [Next]_vars PROVE OpenChangesSeeFed'
  OBVIOUS
<1> USE DEF IndInv, TypeOK, OpenChangesSeeFed
<1>1. ASSUME NEW a \in Articles, BeginChange(a) PROVE OpenChangesSeeFed'
  BY <1>1 DEF BeginChange, Fed
<1>2. ASSUME NEW a \in Articles, CommitChange(a) \/ RollBackChange(a) PROVE OpenChangesSeeFed'
  BY <1>2 DEF CommitChange, RollBackChange, NoChange, Fed
<1>3. ASSUME LockFree, change' = change PROVE OpenChangesSeeFed'
  BY <1>3 DEF LockFree
<1>4. ASSUME role' = role, change' = change PROVE OpenChangesSeeFed'
  BY <1>4 DEF Fed
<1>5. ASSUME NEW c \in Coordinators, CompleteCutover(c) \/ \E t \in Indices : CreateRebuild(c, t)
      PROVE  OpenChangesSeeFed'
  BY <1>3, <1>5 DEF CompleteCutover, CreateRebuild
<1>6. ASSUME NEW c \in Coordinators,
             \/ \E t \in Indices : ResumeRebuild(c, t)
             \/ \E batch \in SUBSET Articles : ScanBatch(c, batch)
             \/ ReadAlias(c) \/ DecideCutover(c) \/ DeclineCutover(c) \/ SwitchAlias(c)
             \/ PostponeCutover(c) \/ Crash(c)
      PROVE  OpenChangesSeeFed'
  BY <1>4, <1>6 DEF ResumeRebuild, ScanBatch, ReadAlias, DecideCutover, DeclineCutover, SwitchAlias,
     PostponeCutover, Crash
<1>7. ASSUME NEW d \in Deliveries, QueueStep(d) PROVE OpenChangesSeeFed'
  BY <1>4, <1>7 DEF QueueStep
<1>8. CASE SourceRefreshes \/ UNCHANGED vars
  BY <1>4, <1>8 DEF SourceRefreshes, vars
<1> QED
  BY <1>1, <1>2, <1>5, <1>6, <1>7, <1>8 DEF Next

LEMMA CoordinatorsStep == IndInv /\ [Next]_vars => CoordinatorsFollow'
<1> SUFFICES ASSUME IndInv, [Next]_vars PROVE CoordinatorsFollow'
  OBVIOUS
<1> USE DEF IndInv, TypeOK, CoordinatorsFollow
<1>1. ASSUME NEW c \in Coordinators, NEW t \in Indices, CreateRebuild(c, t) PROVE CoordinatorsFollow'
  <2>1. rebuild[t].status = "none"
    BY <1>1 DEF CreateRebuild, RolesFollow
  <2>2. /\ rebuild' = [rebuild EXCEPT ![t].status = "scanning"]
        /\ coordinator' = [coordinator EXCEPT ![c].pc = "scan", ![c].index = t]
        /\ coordinator[c].pc = "free"
    BY <1>1 DEF CreateRebuild, Enter, Free
  <2> SUFFICES ASSUME NEW e \in Coordinators
               PROVE  /\ coordinator'[e].pc # "free" =>
                           rebuild'[coordinator'[e].index].status # "none"
                      /\ coordinator'[e].pc \in {"decide", "switch", "commit"} =>
                           rebuild'[coordinator'[e].index].status \in {"catching_up", "completed"}
    OBVIOUS
  <2>3. CASE e = c
    <3>1. coordinator'[e].pc = "scan" /\ coordinator'[e].index = t
      BY <2>2, <2>3, <1>1 DEF CreateRebuild, Free
    <3> QED
      BY <2>2, <3>1
  <2>4. CASE e # c /\ coordinator[e].pc # "free"
    <3>1. coordinator[e].index \in Indices
      BY <2>4, BusyCoordinator DEF Coordinating
    <3> QED
      BY <2>1, <2>2, <2>4, <3>1
  <2>5. CASE e # c /\ coordinator[e].pc = "free"
    BY <2>2, <2>5
  <2> QED
    BY <2>3, <2>4, <2>5
<1>2. ASSUME NEW c \in Coordinators, NEW t \in Indices, ResumeRebuild(c, t) PROVE CoordinatorsFollow'
  BY <1>2 DEF ResumeRebuild, Enter, Free
<1>3. ASSUME NEW c \in Coordinators, NEW batch \in SUBSET Articles, ScanBatch(c, batch)
      PROVE  CoordinatorsFollow'
  <2>1. PICK t \in Indices, new \in [status : {"scanning", "catching_up"}, cursor : 0..LastArticle] :
          /\ t = coordinator[c].index /\ rebuild[t].status = "scanning"
          /\ rebuild' = [rebuild EXCEPT ![t] = new]
    BY <1>3, BatchUpdates
  <2>2. coordinator' = coordinator
    BY <1>3 DEF ScanBatch
  <2>3. \A e \in Coordinators : coordinator[e].pc # "free" => coordinator[e].index \in Indices
    BY BusyCoordinator DEF Coordinating
  <2> QED
    BY <2>1, <2>2, <2>3
<1>4. ASSUME NEW c \in Coordinators, ReadAlias(c) PROVE CoordinatorsFollow'
  <2>1. coordinator[c] \in Coordinating
    BY <1>4, BusyCoordinator DEF ReadAlias
  <2>2. rebuild[coordinator[c].index].status \in {"catching_up", "completed"}
    BY <1>4, <2>1 DEF ReadAlias, Coordinating, Statuses
  <2> QED
    BY <1>4, <2>2 DEF ReadAlias
<1>5. ASSUME NEW c \in Coordinators, DecideCutover(c) \/ SwitchAlias(c) PROVE CoordinatorsFollow'
  <2>1. rebuild' = rebuild /\ coordinator[c].pc \in {"decide", "switch"}
    BY <1>5 DEF DecideCutover, SwitchAlias
  <2>2. /\ \A e \in Coordinators \ {c} : coordinator'[e] = coordinator[e]
        /\ coordinator'[c].index = coordinator[c].index
    <3>1. CASE DecideCutover(c)
      BY <3>1, BusyCoordinator DEF DecideCutover, Coordinating
    <3>2. CASE SwitchAlias(c)
      BY <3>2, BusyCoordinator DEF SwitchAlias, Coordinating
    <3> QED
      BY <1>5, <3>1, <3>2
  <2> QED
    BY <2>1, <2>2
<1>6. ASSUME NEW c \in Coordinators, DeclineCutover(c) \/ PostponeCutover(c) \/ Crash(c)
      PROVE  CoordinatorsFollow'
  <2>1. rebuild' = rebuild /\ coordinator' = [coordinator EXCEPT ![c] = Free]
    BY <1>6 DEF DeclineCutover, PostponeCutover, Crash, Leave
  <2> QED
    BY <2>1 DEF Free
<1>7. ASSUME NEW c \in Coordinators, CompleteCutover(c) PROVE CoordinatorsFollow'
  <2>1. rebuild' = [rebuild EXCEPT ![coordinator[c].index].status = "completed"]
    BY <1>7 DEF CompleteCutover
  <2>2. coordinator' = [coordinator EXCEPT ![c] = Free]
    BY <1>7 DEF CompleteCutover, Leave
  <2>3. \A e \in Coordinators : coordinator[e].pc # "free" => coordinator[e].index \in Indices
    BY BusyCoordinator DEF Coordinating
  <2> QED
    BY <2>1, <2>2, <2>3 DEF Free
<1>8. ASSUME rebuild' = rebuild, coordinator' = coordinator PROVE CoordinatorsFollow'
  BY <1>8
<1>9. ASSUME NEW a \in Articles, BeginChange(a) \/ CommitChange(a) \/ RollBackChange(a)
      PROVE  CoordinatorsFollow'
  BY <1>8, <1>9 DEF BeginChange, CommitChange, RollBackChange
<1>10. ASSUME NEW d \in Deliveries, QueueStep(d) PROVE CoordinatorsFollow'
  BY <1>8, <1>10 DEF QueueStep
<1>11. CASE SourceRefreshes \/ UNCHANGED vars
  BY <1>8, <1>11 DEF SourceRefreshes, vars
<1> QED
  BY <1>1, <1>2, <1>3, <1>4, <1>5, <1>6, <1>7, <1>9, <1>10, <1>11 DEF Next

LEMMA BuildingStep == IndInv /\ [Next]_vars => BuildingMissesNothing'
<1> SUFFICES ASSUME IndInv, [Next]_vars PROVE BuildingMissesNothing'
  OBVIOUS
<1>0. TypeOK'
  BY TypeStep DEF IndInv
<1> USE DEF IndInv, TypeOK, BuildingMissesNothing, Existing
<1>1. ASSUME revision' = revision, rebuild' = rebuild, requested' = requested,
             \A d \in Deliveries : outcome'[d] = "none" <=> outcome[d] = "none"
      PROVE  BuildingMissesNothing'
  BY <1>1, DeliveryPairs
<1>2. ASSUME NEW a \in Articles, BeginChange(a) \/ RollBackChange(a) PROVE BuildingMissesNothing'
  BY <1>1, <1>2 DEF BeginChange, RollBackChange, queueVars
<1>3. ASSUME NEW a \in Articles, CommitChange(a) PROVE BuildingMissesNothing'
  <2> SUFFICES ASSUME NEW t \in Indices, NEW b \in Existing',
                      rebuild'[t].status \in {"scanning", "catching_up"}
               PROVE  IF outcome'[<<t, b>>] = "none"
                      THEN rebuild'[t].status = "scanning" /\ rebuild'[t].cursor < b
                      ELSE requested'[<<t, b>>] = revision'[b]
    OBVIOUS
  <2>1. rebuild' = rebuild /\ revision' = [revision EXCEPT ![a] = @ + 1]
    BY <1>3 DEF CommitChange
  <2>2. t \in change[a].sees
    BY <1>3, <2>1 DEF CommitChange, OpenChangesSeeFed, RolesFollow, Fed
  <2>3. CASE b = a
    BY <1>3, <2>1, <2>2, <2>3, ChangeRequests
  <2>4. CASE b # a
    <3>1. b \in Existing /\ revision'[b] = revision[b]
      BY <2>1, <2>4
    <3>2. requested'[<<t, b>>] = requested[<<t, b>>] /\ outcome'[<<t, b>>] = outcome[<<t, b>>]
      BY <1>3, <2>4, ChangeRequests
    <3> QED
      BY <2>1, <3>1, <3>2
  <2> QED
    BY <2>3, <2>4
<1>4. ASSUME NEW d \in Deliveries, QueueStep(d) PROVE BuildingMissesNothing'
  BY <1>1, <1>4, QueueSteps DEF QueueStep
<1>5. ASSUME NEW c \in Coordinators, NEW t \in Indices, CreateRebuild(c, t)
      PROVE  BuildingMissesNothing'
  <2>1. rebuild[t].status = "none"
    BY <1>5 DEF CreateRebuild, RolesFollow
  <2>2. rebuild[t].cursor = 0 /\ \A a \in Articles : outcome[<<t, a>>] = "none"
    BY <2>1 DEF RolesFollow
  <2>3. /\ rebuild' = [rebuild EXCEPT ![t].status = "scanning"]
        /\ revision' = revision /\ requested' = requested /\ outcome' = outcome
    BY <1>5 DEF CreateRebuild, queueVars
  <2> QED
    BY <2>2, <2>3 DEF Articles
<1>6. ASSUME NEW c \in Coordinators, NEW batch \in SUBSET Articles, ScanBatch(c, batch)
      PROVE  BuildingMissesNothing'
  <2>1. PICK t \in Indices, new \in [status : {"scanning", "catching_up"}, cursor : 0..LastArticle] :
          /\ t = coordinator[c].index
          /\ rebuild[t].status = "scanning"
          /\ rebuild' = [rebuild EXCEPT ![t] = new]
          /\ IsBatch(batch, Existing, rebuild[t].cursor, BatchSize)
          /\ IsCursor(new.cursor, batch, rebuild[t].cursor)
          /\ new.status = "catching_up" => LastBatch(batch, BatchSize)
    BY <1>6, BatchUpdates
  <2>2. Existing' = Existing /\ revision' = revision
    BY <1>6 DEF ScanBatch
  <2>3. ASSUME NEW a \in Existing, a \notin batch, rebuild[t].cursor < a
        PROVE  new.status = "scanning" /\ new.cursor < a
    <3>1. /\ Existing \in SUBSET Nat /\ rebuild[t].cursor \in Nat /\ new.cursor \in Nat
          /\ BatchSize \in Nat
      BY RebuildConstants DEF Articles
    <3>2. ~(a <= new.cursor) /\ ~LastBatch(batch, BatchSize)
      BY <2>1, <2>3, <3>1, BatchLeavesNothing
    <3> QED
      BY <2>1, <3>1, <3>2
  <2> SUFFICES ASSUME NEW u \in Indices, NEW a \in Existing,
                      rebuild'[u].status \in {"scanning", "catching_up"}
               PROVE  IF outcome'[<<u, a>>] = "none"
                      THEN rebuild'[u].status = "scanning" /\ rebuild'[u].cursor < a
                      ELSE requested'[<<u, a>>] = revision[a]
    BY <2>2
  <2>4. CASE u # t
    <3>1. requested'[<<u, a>>] = requested[<<u, a>>] /\ outcome'[<<u, a>>] = outcome[<<u, a>>]
      BY <1>6, <2>1, <2>4, BatchRequests
    <3>2. rebuild'[u] = rebuild[u]
      BY <2>1, <2>4
    <3> QED
      BY <3>1, <3>2
  <2>5. CASE u = t /\ a \in batch
    <3>1. CASE outcome[<<u, a>>] = "none"
      <4>1. requested'[<<u, a>>] = revision[a] /\ outcome'[<<u, a>>] = "open"
        BY <1>6, <2>1, <2>5, <3>1, BatchRequests
      <4> QED
        BY <4>1
    <3>2. CASE outcome[<<u, a>>] # "none"
      <4>1. requested'[<<u, a>>] = requested[<<u, a>>] /\ outcome'[<<u, a>>] = outcome[<<u, a>>]
        BY <1>6, <3>2, BatchRequests
      <4>2. requested[<<u, a>>] = revision[a]
        BY <2>1, <2>5, <3>2
      <4> QED
        BY <3>2, <4>1, <4>2
    <3> QED
      BY <3>1, <3>2
  <2>6. CASE u = t /\ a \notin batch
    <3>1. requested'[<<u, a>>] = requested[<<u, a>>] /\ outcome'[<<u, a>>] = outcome[<<u, a>>]
      BY <1>6, <2>6, BatchRequests
    <3>2. rebuild'[u] = new
      BY <2>1, <2>6
    <3> QED
      BY <2>1, <2>3, <2>6, <3>1, <3>2
  <2> QED
    BY <2>4, <2>5, <2>6
<1>7. ASSUME NEW c \in Coordinators, CompleteCutover(c) PROVE BuildingMissesNothing'
  <2>1. /\ rebuild' = [rebuild EXCEPT ![coordinator[c].index].status = "completed"]
        /\ revision' = revision /\ requested' = requested /\ outcome' = outcome
    BY <1>7 DEF CompleteCutover, queueVars
  <2> QED
    BY <2>1
<1>8. ASSUME NEW c \in Coordinators,
             \/ \E t \in Indices : ResumeRebuild(c, t)
             \/ ReadAlias(c) \/ DecideCutover(c) \/ DeclineCutover(c) \/ SwitchAlias(c)
             \/ PostponeCutover(c) \/ Crash(c)
      PROVE  BuildingMissesNothing'
  BY <1>1, <1>8 DEF ResumeRebuild, ReadAlias, DecideCutover, DeclineCutover, SwitchAlias,
     PostponeCutover, Crash, queueVars
<1>9. CASE SourceRefreshes \/ UNCHANGED vars
  BY <1>1, <1>9 DEF SourceRefreshes, vars, queueVars
<1> QED
  BY <1>2, <1>3, <1>4, <1>5, <1>6, <1>7, <1>8, <1>9 DEF Next

LEMMA StoredStep == IndInv /\ [Next]_vars =>
  IndexedIsStored' /\ \A d \in Deliveries : stored'[d] >= stored[d]
<1> SUFFICES ASSUME IndInv, [Next]_vars
             PROVE  IndexedIsStored' /\ \A d \in Deliveries : stored'[d] >= stored[d]
  OBVIOUS
<1> USE DEF IndInv, TypeOK, IndexedIsStored
<1>1. ASSUME NEW d \in Deliveries, QueueStep(d)
      PROVE  IndexedIsStored' /\ \A e \in Deliveries : stored'[e] >= stored[e]
  BY <1>1, QueueSteps
<1>2. CASE indexed' = indexed /\ stored' = stored
  BY <1>2
<1>3. ASSUME ~ \E d \in Deliveries : QueueStep(d) PROVE indexed' = indexed /\ stored' = stored
  BY <1>3 DEF Next, BeginChange, CommitChange, RollBackChange, SourceRefreshes, CreateRebuild,
     ResumeRebuild, ScanBatch, ReadAlias, DecideCutover, DeclineCutover, SwitchAlias,
     CompleteCutover, PostponeCutover, Crash, vars, queueVars
<1> QED
  BY <1>1, <1>2, <1>3

LEMMA CaughtUpStep == IndInv /\ [Next]_vars => CaughtUpBeforeCutover'
<1> SUFFICES ASSUME IndInv, [Next]_vars PROVE CaughtUpBeforeCutover'
  OBVIOUS
<1>0. \A d \in Deliveries : stored'[d] >= stored[d] /\ stored'[d] \in Nat /\ stored[d] \in Nat
  BY StoredStep, TypeStep DEF IndInv, TypeOK
<1> USE DEF IndInv, CaughtUpBeforeCutover
<1>1. ASSUME NEW e \in Coordinators,
             \/ coordinator'[e].pc \notin {"switch", "commit"}
             \/ /\ coordinator[e].pc \in {"switch", "commit"}
                /\ coordinator'[e].index = coordinator[e].index
                /\ coordinator'[e].promised = coordinator[e].promised
      PROVE  \A a \in Articles :
               coordinator'[e].pc \in {"switch", "commit"} =>
                 stored'[<<coordinator'[e].index, a>>] >= coordinator'[e].promised[a]
  <2> SUFFICES ASSUME NEW a \in Articles, coordinator'[e].pc \in {"switch", "commit"}
               PROVE  stored'[<<coordinator'[e].index, a>>] >= coordinator'[e].promised[a]
    OBVIOUS
  <2>1. coordinator[e] \in Coordinating
    BY <1>1, BusyCoordinator
  <2>2. /\ <<coordinator[e].index, a>> \in Deliveries
        /\ coordinator[e].promised[a] \in Nat
    BY <2>1, DeliveryPairs DEF Coordinating
  <2>3. stored[<<coordinator[e].index, a>>] >= coordinator[e].promised[a]
    BY <1>1
  <2> QED
    BY <1>0, <1>1, <2>2, <2>3
<1>2. ASSUME NEW c \in Coordinators, DecideCutover(c) PROVE CaughtUpBeforeCutover'
  <2> DEFINE t == coordinator[c].index
  <2>1. coordinator[c] \in Coordinating
    BY <1>2, BusyCoordinator DEF DecideCutover
  <2>2. t \in Indices /\ rebuild[t].status = "catching_up" /\ ~Outstanding(t)
    BY <1>2, <2>1 DEF DecideCutover, NotCaughtUp, Coordinating
  <2>3. coordinator'[c].index = t /\ coordinator'[c].promised = revision
        /\ \A e \in Coordinators \ {c} : coordinator'[e] = coordinator[e]
    BY <1>2, <2>1 DEF DecideCutover, TypeOK, Coordinating
  <2> HIDE DEF t
  <2>4. ASSUME NEW a \in Articles PROVE stored'[<<t, a>>] >= revision[a]
    <3>1. <<t, a>> \in Deliveries /\ revision[a] \in Nat
      BY <2>2, DeliveryPairs DEF TypeOK
    <3>2. CASE a \in Existing
      <4>1. requested[<<t, a>>] = revision[a]
        BY <2>2, <3>2 DEF BuildingMissesNothing
      <4>2. ~(indexed[<<t, a>>] < requested[<<t, a>>])
        BY <2>2 DEF Outstanding
      <4>3. stored[<<t, a>>] >= revision[a]
        BY <3>1, <4>1, <4>2 DEF IndexedIsStored, TypeOK
      <4> QED
        BY <1>0, <3>1, <4>3
    <3>3. CASE a \notin Existing
      BY <1>0, <3>1, <3>3 DEF Existing
    <3> QED
      BY <3>2, <3>3
  <2>5. ASSUME NEW e \in Coordinators \ {c}
        PROVE  \A a \in Articles :
                 coordinator'[e].pc \in {"switch", "commit"} =>
                   stored'[<<coordinator'[e].index, a>>] >= coordinator'[e].promised[a]
    BY <1>1, <2>3
  <2> QED
    BY <2>3, <2>4, <2>5
<1>3. ASSUME NEW c \in Coordinators, SwitchAlias(c) PROVE CaughtUpBeforeCutover'
  <2>1. /\ coordinator[c].pc = "switch"
        /\ coordinator'[c].index = coordinator[c].index
        /\ coordinator'[c].promised = coordinator[c].promised
        /\ \A e \in Coordinators \ {c} : coordinator'[e] = coordinator[e]
    BY <1>3 DEF SwitchAlias, TypeOK
  <2> QED
    BY <1>1, <2>1
<1>4. ASSUME NEW c \in Coordinators,
             coordinator'[c].pc \notin {"switch", "commit"},
             \A e \in Coordinators \ {c} : coordinator'[e] = coordinator[e]
      PROVE  CaughtUpBeforeCutover'
  BY <1>1, <1>4
<1>5. ASSUME NEW c \in Coordinators,
             \/ \E t \in Indices : CreateRebuild(c, t) \/ ResumeRebuild(c, t)
             \/ ReadAlias(c)
      PROVE  CaughtUpBeforeCutover'
  <2>1. \A e \in Coordinators \ {c} : coordinator'[e] = coordinator[e]
    BY <1>5 DEF CreateRebuild, ResumeRebuild, ReadAlias, Enter, TypeOK
  <2>2. CASE ReadAlias(c)
    <3>1. coordinator[c] \in Coordinating
      BY <2>2, BusyCoordinator DEF ReadAlias
    <3>2. coordinator'[c].pc = "decide"
      BY <2>2, <3>1 DEF ReadAlias, TypeOK, Coordinating
    <3> QED
      BY <1>4, <2>1, <3>2
  <2>3. ASSUME NEW t \in Indices, CreateRebuild(c, t) \/ ResumeRebuild(c, t)
        PROVE  CaughtUpBeforeCutover'
    <3>1. coordinator'[c].pc = "scan"
      BY <2>3 DEF CreateRebuild, ResumeRebuild, Enter, TypeOK, Free
    <3> QED
      BY <1>4, <2>1, <3>1
  <2> QED
    BY <1>5, <2>2, <2>3
<1>6. ASSUME NEW c \in Coordinators,
             DeclineCutover(c) \/ CompleteCutover(c) \/ PostponeCutover(c) \/ Crash(c)
      PROVE  CaughtUpBeforeCutover'
  <2>1. coordinator' = [coordinator EXCEPT ![c] = Free]
    BY <1>6 DEF DeclineCutover, CompleteCutover, PostponeCutover, Crash, Leave
  <2> QED
    BY <1>4, <2>1 DEF TypeOK, Free
<1>7. CASE coordinator' = coordinator
  BY <1>1, <1>7
<1>8. ASSUME \/ \E a \in Articles : BeginChange(a) \/ CommitChange(a) \/ RollBackChange(a)
             \/ \E d \in Deliveries : QueueStep(d)
             \/ SourceRefreshes
             \/ \E c \in Coordinators, batch \in SUBSET Articles : ScanBatch(c, batch)
             \/ UNCHANGED vars
      PROVE  coordinator' = coordinator
  BY <1>8 DEF BeginChange, CommitChange, RollBackChange, QueueStep, SourceRefreshes, ScanBatch, vars
<1> QED
  BY <1>2, <1>3, <1>5, <1>6, <1>7, <1>8 DEF Next

LEMMA IndStep == IndInv /\ [Next]_vars => IndInv'
  BY TypeStep, RolesStep, OpenChangesStep, CoordinatorsStep, BuildingStep, StoredStep, CaughtUpStep
  DEF IndInv

\* The alias moves only to an index that holds every revision which existed when
\* the coordinator decided to move it, however many of them work at the same
\* rebuild (try_cutover).
THEOREM CaughtUpBeforeCutoverHolds == Spec => []CaughtUpBeforeCutover
<1>1. IndInv => CaughtUpBeforeCutover
  BY DEF IndInv
<1> QED
  BY <1>1, IndInit, IndStep, PTL DEF Spec

\* A scanned index has been asked for every article at its newest revision,
\* wherever the cursor was when the article came or changed, and however many
\* processes scan (request_indexing and scan_rebuild).
THEOREM ScannedIndexMissesNothingHolds == Spec => []ScannedIndexMissesNothing
<1>1. IndInv => ScannedIndexMissesNothing
  BY DEF IndInv, BuildingMissesNothing, ScannedIndexMissesNothing
<1> QED
  BY <1>1, IndInit, IndStep, PTL DEF Spec

-----------------------------------------------------------------------------
(* One coordinator at a time, as an operator runs the command (README.md:203).
   Nothing in the code sees to it, and without it the next theorem does not hold:
   of three that complete one rebuild the second makes the index retained, and the
   third makes it current again. *)

OneAtATime == \A c, e \in Coordinators : c = e

CurrentMissesNothing ==
  /\ \A t \in Indices : role[t] = "current" => rebuild[t].status = "completed"
  /\ \A t \in Indices, a \in Existing : role[t] = "current" => requested[<<t, a>>] = revision[a]
  /\ \A c \in Coordinators :
       coordinator[c].pc \in {"switch", "commit"} =>
         rebuild[coordinator[c].index].status = "catching_up"

LEMMA AloneInit == Init => CurrentMissesNothing
  BY DEF Init, CurrentMissesNothing, Free

LEMMA AloneStep ==
  ASSUME OneAtATime PROVE IndInv /\ CurrentMissesNothing /\ [Next]_vars => CurrentMissesNothing'
<1> SUFFICES ASSUME IndInv, CurrentMissesNothing, [Next]_vars PROVE CurrentMissesNothing'
  OBVIOUS
<1>0. TypeOK /\ TypeOK'
  BY TypeStep DEF IndInv
<1> USE DEF CurrentMissesNothing, Existing
<1>1. ASSUME role' = role, rebuild' = rebuild, requested' = requested, revision' = revision,
             coordinator' = coordinator
      PROVE  CurrentMissesNothing'
  BY <1>1
<1>2. ASSUME NEW c \in Coordinators, role' = role, rebuild' = rebuild, requested' = requested,
             revision' = revision, coordinator'[c].pc \notin {"switch", "commit"}
      PROVE  CurrentMissesNothing'
  BY <1>2 DEF OneAtATime
<1>3. ASSUME NEW a \in Articles, CommitChange(a) PROVE CurrentMissesNothing'
  <2>1. /\ role' = role /\ rebuild' = rebuild /\ coordinator' = coordinator
        /\ revision' = [revision EXCEPT ![a] = @ + 1]
    BY <1>3 DEF CommitChange
  <2>2. ASSUME NEW t \in Indices, NEW b \in Existing', role[t] = "current"
        PROVE  requested'[<<t, b>>] = revision'[b]
    <3>1. t \in change[a].sees
      BY <1>3, <2>2 DEF CommitChange, IndInv, OpenChangesSeeFed, Fed
    <3>2. CASE b = a
      BY <1>0, <1>3, <2>1, <3>1, <3>2, ChangeRequests DEF TypeOK
    <3>3. CASE b # a
      <4>1. b \in Existing /\ revision'[b] = revision[b]
        BY <1>0, <2>1, <3>3 DEF TypeOK
      <4>2. requested'[<<t, b>>] = requested[<<t, b>>]
        BY <1>3, <3>3, ChangeRequests
      <4> QED
        BY <2>2, <4>1, <4>2
    <3> QED
      BY <3>2, <3>3
  <2> QED
    BY <2>1, <2>2
<1>4. ASSUME NEW d \in Deliveries, QueueStep(d) PROVE CurrentMissesNothing'
  BY <1>0, <1>1, <1>4, QueueSteps DEF QueueStep
<1>5. ASSUME NEW c \in Coordinators, NEW t \in Indices, CreateRebuild(c, t)
      PROVE  CurrentMissesNothing'
  <2>1. /\ role' = [role EXCEPT ![t] = "replacement"]
        /\ rebuild' = [rebuild EXCEPT ![t].status = "scanning"]
        /\ requested' = requested /\ revision' = revision
    BY <1>5 DEF CreateRebuild, queueVars
  <2>2. coordinator'[c].pc = "scan"
    BY <1>0, <1>5 DEF CreateRebuild, Enter, TypeOK, Free
  <2>3. \A e \in Coordinators : coordinator'[e].pc \notin {"switch", "commit"}
    BY <2>2 DEF OneAtATime
  <2> QED
    BY <1>0, <2>1, <2>3 DEF TypeOK
<1>6. ASSUME NEW c \in Coordinators, NEW batch \in SUBSET Articles, ScanBatch(c, batch)
      PROVE  CurrentMissesNothing'
  <2>1. PICK t \in Indices, new \in [status : {"scanning", "catching_up"}, cursor : 0..LastArticle] :
          /\ t = coordinator[c].index
          /\ rebuild[t].status = "scanning"
          /\ rebuild' = [rebuild EXCEPT ![t] = new]
    <3> HIDE DEF Existing, CurrentMissesNothing
    <3>1. TypeOK
      BY <1>0
    <3> QED
      BY <1>6, <3>1, BatchUpdates
  <2>2. role[t] # "current"
    BY <2>1
  <2>3. role' = role /\ revision' = revision /\ coordinator' = coordinator /\ coordinator[c].pc = "scan"
    BY <1>6 DEF ScanBatch
  <2>4. \A u \in Indices, a \in Articles : u # t => requested'[<<u, a>>] = requested[<<u, a>>]
    BY <1>6, <2>1, BatchRequests
  <2>5. \A e \in Coordinators : coordinator'[e].pc \notin {"switch", "commit"}
    BY <2>3 DEF OneAtATime
  <2> QED
    BY <1>0, <2>1, <2>2, <2>3, <2>4, <2>5 DEF TypeOK
<1>7. ASSUME NEW c \in Coordinators, DecideCutover(c) PROVE CurrentMissesNothing'
  <2>1. coordinator'[c].index = coordinator[c].index /\ rebuild[coordinator[c].index].status = "catching_up"
    BY <1>0, <1>7, BusyCoordinator DEF DecideCutover, TypeOK, Coordinating
  <2>2. role' = role /\ rebuild' = rebuild /\ requested' = requested /\ revision' = revision
    BY <1>7 DEF DecideCutover, queueVars
  <2>3. \A e \in Coordinators : e = c
    BY DEF OneAtATime
  <2> QED
    BY <2>1, <2>2, <2>3
<1>8. ASSUME NEW c \in Coordinators, SwitchAlias(c) PROVE CurrentMissesNothing'
  <2>1. coordinator'[c].index = coordinator[c].index /\ coordinator[c].pc = "switch"
    BY <1>0, <1>8 DEF SwitchAlias, TypeOK
  <2>2. role' = role /\ rebuild' = rebuild /\ requested' = requested /\ revision' = revision
    BY <1>8 DEF SwitchAlias, queueVars
  <2>3. \A e \in Coordinators : e = c
    BY DEF OneAtATime
  <2> QED
    BY <2>1, <2>2, <2>3
<1>9. ASSUME NEW c \in Coordinators, CompleteCutover(c) PROVE CurrentMissesNothing'
  <2> DEFINE t == coordinator[c].index
  <2>1. t \in Indices /\ rebuild[t].status = "catching_up" /\ role[t] = "replacement"
    BY <1>0, <1>9, BusyCoordinator DEF CompleteCutover, Coordinating, IndInv, RolesFollow
  <2>2. /\ \A x \in Indices : role'[x] = IF role[x] = "current" THEN "retained"
                                         ELSE IF x = t THEN "current" ELSE role[x]
        /\ rebuild' = [rebuild EXCEPT ![t].status = "completed"]
        /\ requested' = requested /\ revision' = revision
        /\ coordinator' = [coordinator EXCEPT ![c] = Free]
    BY <1>9 DEF CompleteCutover, Promoted, Leave, queueVars
  <2> HIDE DEF t
  <2>3. \A x \in Indices : role'[x] = "current" => x = t
    BY <2>2
  <2>4. \A a \in Existing : requested[<<t, a>>] = revision[a]
    BY <2>1 DEF IndInv, BuildingMissesNothing
  <2>5. \A e \in Coordinators : coordinator'[e].pc \notin {"switch", "commit"}
    BY <1>0, <2>2 DEF OneAtATime, TypeOK, Free
  <2> QED
    BY <1>0, <2>1, <2>2, <2>3, <2>4, <2>5 DEF TypeOK
<1>10. ASSUME NEW c \in Coordinators,
              \/ \E t \in Indices : ResumeRebuild(c, t)
              \/ ReadAlias(c) \/ DeclineCutover(c) \/ PostponeCutover(c) \/ Crash(c)
       PROVE  CurrentMissesNothing'
  <2>1. coordinator'[c].pc \notin {"switch", "commit"}
    <3>1. CASE ReadAlias(c)
      BY <1>0, <3>1, BusyCoordinator DEF ReadAlias, TypeOK, Coordinating
    <3>2. ASSUME NEW t \in Indices, ResumeRebuild(c, t)
          PROVE  coordinator'[c].pc \notin {"switch", "commit"}
      BY <1>0, <3>2 DEF ResumeRebuild, Enter, TypeOK, Free
    <3>3. CASE DeclineCutover(c) \/ PostponeCutover(c) \/ Crash(c)
      <4>1. coordinator' = [coordinator EXCEPT ![c] = Free]
        BY <3>3 DEF DeclineCutover, PostponeCutover, Crash, Leave
      <4> QED
        BY <1>0, <4>1 DEF TypeOK, Free
    <3> QED
      BY <1>10, <3>1, <3>2, <3>3
  <2>2. role' = role /\ rebuild' = rebuild /\ requested' = requested /\ revision' = revision
    BY <1>10 DEF ResumeRebuild, ReadAlias, DeclineCutover, PostponeCutover, Crash, queueVars
  <2> QED
    BY <1>2, <2>1, <2>2
<1>11. ASSUME \/ \E a \in Articles : BeginChange(a) \/ RollBackChange(a)
              \/ SourceRefreshes \/ UNCHANGED vars
       PROVE  CurrentMissesNothing'
  BY <1>1, <1>11 DEF BeginChange, RollBackChange, SourceRefreshes, vars, queueVars
<1> QED
  BY <1>3, <1>4, <1>5, <1>6, <1>7, <1>8, <1>9, <1>10, <1>11 DEF Next

\* An index that is fed goes on missing no change after its cutover, and until the
\* next one (request_indexing and try_cutover).
THEOREM FedIndexMissesNothingHolds ==
  ASSUME OneAtATime PROVE Spec => []FedIndexMissesNothing
<1>1. IndInv /\ CurrentMissesNothing => FedIndexMissesNothing
  BY DEF IndInv, CurrentMissesNothing, FedIndexMissesNothing, BuildingMissesNothing, RolesFollow, Fed
<1> QED
  BY <1>1, IndInit, IndStep, AloneInit, AloneStep, PTL DEF Spec

-----------------------------------------------------------------------------
(* What Search reads, again with one coordinator at a time: with two, the run
   SearchRebuild_two finds SearchedIndexIsFed violated. *)

\* The alias names at most one index, which is fed; at most one rebuild is active and
\* at most one target current; what a coordinator has read of the alias is what it is,
\* and once it has moved it, it names the coordinator's index.
AliasFollows ==
  /\ SearchedIndexIsFed
  /\ \A x, y \in alias : x = y
  /\ \A x, y \in Active : x = y
  /\ \A x, y \in Indices : role[x] = "current" /\ role[y] = "current" => x = y
  /\ (\E t \in Indices : rebuild[t].status = "completed") => \E t \in Indices : role[t] = "current"
  /\ \A c \in Coordinators :
       /\ coordinator[c].pc \in {"decide", "switch"} => coordinator[c].previous = alias
       /\ coordinator[c].pc = "commit" => alias = {coordinator[c].index}

LEMMA AliasInit == Init => AliasFollows
  BY DEF Init, AliasFollows, SearchedIndexIsFed, Active, Free

LEMMA AliasStep ==
  ASSUME OneAtATime
  PROVE  IndInv /\ CurrentMissesNothing /\ AliasFollows /\ [Next]_vars => AliasFollows'
<1> SUFFICES ASSUME IndInv, CurrentMissesNothing, AliasFollows, [Next]_vars PROVE AliasFollows'
  OBVIOUS
<1>0. TypeOK /\ TypeOK'
  BY TypeStep DEF IndInv
<1> USE DEF AliasFollows, SearchedIndexIsFed, Fed, Active
<1>1. ASSUME role' = role, rebuild' = rebuild, alias' = alias, coordinator' = coordinator
      PROVE  AliasFollows'
  BY <1>1
<1>2. ASSUME NEW c \in Coordinators, role' = role, rebuild' = rebuild, alias' = alias,
             coordinator'[c].pc \in {"free", "scan"}
      PROVE  AliasFollows'
  BY <1>2 DEF OneAtATime
<1>3. ASSUME NEW c \in Coordinators, NEW t \in Indices, CreateRebuild(c, t) PROVE AliasFollows'
  <2>1. /\ role' = [role EXCEPT ![t] = "replacement"] /\ role[t] = "none"
        /\ rebuild' = [rebuild EXCEPT ![t].status = "scanning"]
        /\ alias' = alias /\ Active = {}
    BY <1>3 DEF CreateRebuild
  <2>2. rebuild[t].status = "none"
    BY <2>1 DEF IndInv, RolesFollow
  <2>3. \A e \in Coordinators : coordinator'[e].pc = "scan"
    BY <1>0, <1>3 DEF CreateRebuild, Enter, TypeOK, Free, OneAtATime
  <2> QED
    BY <1>0, <2>1, <2>2, <2>3 DEF TypeOK
<1>4. ASSUME NEW c \in Coordinators, NEW t \in Indices, ResumeRebuild(c, t) PROVE AliasFollows'
  <2>1. coordinator'[c].pc = "scan"
    BY <1>0, <1>4 DEF ResumeRebuild, Enter, TypeOK, Free
  <2> QED
    BY <1>2, <1>4, <2>1 DEF ResumeRebuild
<1>5. ASSUME NEW c \in Coordinators, NEW batch \in SUBSET Articles, ScanBatch(c, batch)
      PROVE  AliasFollows'
  <2>1. PICK t \in Indices, new \in [status : {"scanning", "catching_up"}, cursor : 0..LastArticle] :
          /\ t = coordinator[c].index
          /\ rebuild[t].status = "scanning"
          /\ rebuild' = [rebuild EXCEPT ![t] = new]
    <3> HIDE DEF AliasFollows, SearchedIndexIsFed, Fed, Active
    <3>1. TypeOK
      BY <1>0
    <3> QED
      BY <1>5, <3>1, BatchUpdates
  <2>2. role' = role /\ alias' = alias /\ coordinator' = coordinator
    BY <1>5 DEF ScanBatch
  <2>3. \A x \in Indices : x \in Active' => x \in Active
    BY <1>0, <2>1 DEF TypeOK
  <2>4. \A x \in Indices : rebuild'[x].status = "completed" => rebuild[x].status = "completed"
    BY <1>0, <2>1 DEF TypeOK
  <2> QED
    BY <2>2, <2>3, <2>4
<1>6. ASSUME NEW c \in Coordinators, ReadAlias(c) PROVE AliasFollows'
  <2>1. coordinator'[c].pc = "decide" /\ coordinator'[c].previous = alias
    BY <1>0, <1>6, BusyCoordinator DEF ReadAlias, TypeOK, Coordinating
  <2>2. role' = role /\ rebuild' = rebuild /\ alias' = alias
    BY <1>6 DEF ReadAlias
  <2>3. \A e \in Coordinators : e = c
    BY DEF OneAtATime
  <2> QED
    BY <2>1, <2>2, <2>3
<1>7. ASSUME NEW c \in Coordinators, DecideCutover(c) PROVE AliasFollows'
  <2> DEFINE t == coordinator[c].index
  <2>1. coordinator[c] \in Coordinating /\ coordinator[c].previous = alias
    BY <1>0, <1>7, BusyCoordinator DEF DecideCutover
  <2>2. /\ coordinator'[c].pc = IF t \in alias THEN "commit" ELSE "switch"
        /\ coordinator'[c].previous = alias /\ coordinator'[c].index = t
    BY <1>0, <1>7, <2>1 DEF DecideCutover, TypeOK, Coordinating
  <2>3. role' = role /\ rebuild' = rebuild /\ alias' = alias
    BY <1>7 DEF DecideCutover
  <2>4. \A e \in Coordinators : e = c
    BY DEF OneAtATime
  <2>5. t \in alias => alias = {t}
    OBVIOUS
  <2> QED
    BY <2>2, <2>3, <2>4, <2>5
<1>8. ASSUME NEW c \in Coordinators, SwitchAlias(c) PROVE AliasFollows'
  <2> DEFINE t == coordinator[c].index
  <2>1. /\ coordinator[c] \in Coordinating /\ coordinator[c].pc = "switch"
        /\ coordinator[c].previous = alias
    BY <1>0, <1>8, BusyCoordinator DEF SwitchAlias
  <2>2. alias' = {t}
    BY <1>8, <2>1 DEF SwitchAlias
  <2>3. coordinator'[c].pc = "commit" /\ coordinator'[c].index = t
    BY <1>0, <1>8, <2>1 DEF SwitchAlias, TypeOK, Coordinating
  <2>4. role' = role /\ rebuild' = rebuild
    BY <1>8 DEF SwitchAlias
  <2>5. t \in Indices /\ role[t] = "replacement"
    BY <2>1 DEF Coordinating, CurrentMissesNothing, IndInv, RolesFollow
  <2>6. \A e \in Coordinators : e = c
    BY DEF OneAtATime
  <2> QED
    BY <2>2, <2>3, <2>4, <2>5, <2>6
<1>9. ASSUME NEW c \in Coordinators, CompleteCutover(c) PROVE AliasFollows'
  <2> DEFINE t == coordinator[c].index
  <2>1. t \in Indices /\ rebuild[t].status = "catching_up" /\ role[t] = "replacement" /\ alias = {t}
    BY <1>0, <1>9, BusyCoordinator
    DEF CompleteCutover, Coordinating, CurrentMissesNothing, IndInv, RolesFollow
  <2>2. /\ \A x \in Indices : role'[x] = IF role[x] = "current" THEN "retained"
                                         ELSE IF x = t THEN "current" ELSE role[x]
        /\ rebuild' = [rebuild EXCEPT ![t].status = "completed"]
        /\ coordinator' = [coordinator EXCEPT ![c] = Free]
        /\ alias' = alias
    BY <1>9 DEF CompleteCutover, Promoted, Leave
  <2> HIDE DEF t
  <2>3. role'[t] = "current" /\ \A x \in Indices : role'[x] = "current" => x = t
    BY <2>1, <2>2
  <2>4. \A x \in Indices : x \in Active' => x \in Active
    BY <1>0, <2>2 DEF TypeOK
  <2>5. \A e \in Coordinators : coordinator'[e].pc = "free"
    BY <1>0, <2>2 DEF TypeOK, Free, OneAtATime
  <2> QED
    BY <2>1, <2>2, <2>3, <2>4, <2>5
<1>10. ASSUME NEW c \in Coordinators, DeclineCutover(c) \/ PostponeCutover(c) \/ Crash(c)
       PROVE  AliasFollows'
  <2>1. coordinator' = [coordinator EXCEPT ![c] = Free]
    BY <1>10 DEF DeclineCutover, PostponeCutover, Crash, Leave
  <2>2. coordinator'[c].pc = "free"
    BY <1>0, <2>1 DEF TypeOK, Free
  <2> QED
    BY <1>2, <1>10, <2>2 DEF DeclineCutover, PostponeCutover, Crash
<1>11. ASSUME \/ \E a \in Articles : BeginChange(a) \/ CommitChange(a) \/ RollBackChange(a)
              \/ \E d \in Deliveries : QueueStep(d)
              \/ SourceRefreshes \/ UNCHANGED vars
       PROVE  AliasFollows'
  BY <1>1, <1>11 DEF BeginChange, CommitChange, RollBackChange, QueueStep, SourceRefreshes, vars
<1> QED
  BY <1>3, <1>4, <1>5, <1>6, <1>7, <1>8, <1>9, <1>10, <1>11 DEF Next

\* A set without two different elements has at most one.
LEMMA AtMostOne ==
  ASSUME NEW S, \A x, y \in S : x = y
  PROVE  Cardinality(S) <= 1
<1>1. CASE S = {}
  BY <1>1, FS_EmptySet
<1>2. ASSUME NEW x \in S PROVE Cardinality(S) <= 1
  <2>1. S = {x}
    BY <1>2
  <2> QED
    BY <2>1, FS_Singleton
<1> QED
  BY <1>1, <1>2

\* Search reads one index, to which every change still goes, however often the
\* coordinator dies between moving the alias and recording it, as long as no second one
\* runs beside it (try_cutover and request_indexing).
THEOREM SearchIsServedHolds ==
  ASSUME OneAtATime PROVE Spec => []SearchIsServed
<1>1. AliasFollows => SearchIsServed
  <2> SUFFICES ASSUME AliasFollows PROVE OneLiveIndex
    BY DEF SearchIsServed, AliasFollows
  <2>1. Cardinality(alias) <= 1
    BY AtMostOne DEF AliasFollows
  <2>2. Cardinality({t \in Indices : role[t] = "current"}) <= 1
    <3>1. \A x, y \in {t \in Indices : role[t] = "current"} : x = y
      BY DEF AliasFollows
    <3> QED
      BY <3>1, AtMostOne
  <2> QED
    BY <2>1, <2>2 DEF OneLiveIndex, AliasFollows
<1> QED
  BY <1>1, IndInit, IndStep, AloneInit, AloneStep, AliasInit, AliasStep, PTL DEF Spec

-----------------------------------------------------------------------------
(* The queue's promise, taken up again at the other end: SearchRebuild lets the
   queue do what IndexDelivery allows, and inserts and requests rows itself.  What
   then happens to one row is again IndexDelivery: a request never jumps over a
   revision, and no row is ever asked to go back.  This too needs one coordinator
   at a time: an index that becomes current again has revisions to catch up with
   that nobody asked for. *)

CONSTANT Followed     \* one index and article

\* A row that is not there yet is owed the revision that a request or the scan
\* would insert it with.
AskedFor ==
  [d \in {Followed} |->
     IF outcome[d] # "none" THEN requested[d]
     ELSE IF revision[d[2]] = 0 THEN 1 ELSE revision[d[2]]]

Promise == INSTANCE IndexDelivery WITH
  Deliveries <- {Followed},
  Outdated   <- {},
  requested  <- AskedFor,
  indexed    <- [d \in {Followed} |-> indexed[d]],
  stored     <- [d \in {Followed} |-> stored[d]],
  outcome    <- [d \in {Followed} |-> IF outcome[d] = "none" THEN "open" ELSE outcome[d]]

\* Nothing is delivered of a row before it is inserted, nor is it inserted before
\* its article exists.
RowsComeWithArticles ==
  \A d \in Deliveries :
    IF outcome[d] = "none"
    THEN requested[d] = 0 /\ indexed[d] = 0 /\ stored[d] = 0
    ELSE d[2] \in Existing

\* Only changes, the scan and the queue touch rows and revisions.
LEMMA OtherStepsSpareRows ==
  ASSUME [Next]_vars,
         ~ \E a \in Articles : CommitChange(a),
         ~ \E d \in Deliveries : QueueStep(d),
         ~ \E c \in Coordinators, batch \in SUBSET Articles : ScanBatch(c, batch)
  PROVE  revision' = revision /\ UNCHANGED queueVars
  BY DEF Next, BeginChange, RollBackChange, SourceRefreshes, CreateRebuild, ResumeRebuild, ReadAlias,
     DecideCutover, DeclineCutover, SwitchAlias, CompleteCutover, PostponeCutover, Crash, vars

LEMMA RowsInit == Init => RowsComeWithArticles
  BY DEF Init, RowsComeWithArticles

LEMMA RowsStep == IndInv /\ RowsComeWithArticles /\ [Next]_vars => RowsComeWithArticles'
<1> SUFFICES ASSUME IndInv, RowsComeWithArticles, [Next]_vars PROVE RowsComeWithArticles'
  OBVIOUS
<1>0. TypeOK
  BY DEF IndInv
<1> USE DEF RowsComeWithArticles, Existing
<1>1. CASE revision' = revision /\ UNCHANGED queueVars
  BY <1>1 DEF queueVars
<1>2. ASSUME NEW a \in Articles, CommitChange(a) PROVE RowsComeWithArticles'
  <2>1. /\ revision' = [revision EXCEPT ![a] = @ + 1]
        /\ indexed' = indexed /\ stored' = stored
    BY <1>2 DEF CommitChange
  <2>2. \A b \in Articles : (b = a \/ revision[b] > 0) => revision'[b] > 0
    BY <1>0, <2>1 DEF TypeOK
  <2> SUFFICES ASSUME NEW t \in Indices, NEW b \in Articles
               PROVE  IF outcome'[<<t, b>>] = "none"
                      THEN /\ requested'[<<t, b>>] = 0
                           /\ indexed'[<<t, b>>] = 0 /\ stored'[<<t, b>>] = 0
                      ELSE revision'[b] > 0
    BY DeliveryPairs
  <2>3. <<t, b>> \in Deliveries
    BY DeliveryPairs
  <2> QED
    BY <1>2, <2>1, <2>2, <2>3, ChangeRequests
<1>3. ASSUME NEW c \in Coordinators, NEW batch \in SUBSET Articles, ScanBatch(c, batch)
      PROVE  RowsComeWithArticles'
  <2>1. revision' = revision /\ indexed' = indexed /\ stored' = stored
    BY <1>3 DEF ScanBatch
  <2>2. \A b \in batch : revision[b] > 0
    BY <1>3 DEF ScanBatch, IsBatch, Beyond
  <2> SUFFICES ASSUME NEW t \in Indices, NEW b \in Articles
               PROVE  IF outcome'[<<t, b>>] = "none"
                      THEN /\ requested'[<<t, b>>] = 0
                           /\ indexed'[<<t, b>>] = 0 /\ stored'[<<t, b>>] = 0
                      ELSE revision'[b] > 0
    BY DeliveryPairs
  <2>3. <<t, b>> \in Deliveries
    BY DeliveryPairs
  <2> QED
    BY <1>3, <2>1, <2>2, <2>3, BatchRequests
<1>4. ASSUME NEW d \in Deliveries, QueueStep(d) PROVE RowsComeWithArticles'
  <2>1. /\ requested' = requested /\ revision' = revision
        /\ \A e \in Deliveries : outcome'[e] = "none" <=> outcome[e] = "none"
    BY <1>0, <1>4, QueueSteps DEF QueueStep
  <2>2. ASSUME NEW e \in Deliveries, outcome[e] = "none"
        PROVE  indexed'[e] = indexed[e] /\ stored'[e] = stored[e]
    <3>1. CASE e # d
      BY <1>0, <1>4, <3>1 DEF QueueStep, Queue!Land, Queue!Done, Queue!GiveUp, Queue!Retry, TypeOK
    <3>2. CASE e = d
      <4>1. ~Queue!Land(d)
        BY <1>0, <2>2, <3>2 DEF Queue!Land
      <4> QED
        BY <1>4, <2>2, <3>2, <4>1 DEF QueueStep, Queue!Done, Queue!GiveUp, Queue!Retry
    <3> QED
      BY <3>1, <3>2
  <2> QED
    BY <2>1, <2>2
<1> QED
  BY <1>1, <1>2, <1>3, <1>4, OtherStepsSpareRows

\* A change commits one request of every row that is fed, and no row that is not fed
\* hears of it.
LEMMA PromiseOfChange ==
  ASSUME Followed \in Deliveries, IndInv, CurrentMissesNothing, RowsComeWithArticles,
         NEW a \in Articles, CommitChange(a)
  PROVE  Promise!Request(Followed) \/ UNCHANGED Promise!vars
<1> PICK t \in Indices, b \in Articles : Followed = <<t, b>>
  BY DeliveryPairs
<1>0. TypeOK /\ <<t, b>> \in Deliveries
  BY DeliveryPairs DEF IndInv
<1>1. /\ revision' = [revision EXCEPT ![a] = @ + 1]
      /\ indexed' = indexed /\ stored' = stored
  BY DEF CommitChange
<1>2. AskedFor = [d \in {Followed} |-> IF outcome[<<t, b>>] # "none" THEN requested[<<t, b>>]
                                      ELSE IF revision[b] = 0 THEN 1 ELSE revision[b]]
  BY DEF AskedFor
<1>3. AskedFor' = [d \in {Followed} |-> IF outcome'[<<t, b>>] # "none" THEN requested'[<<t, b>>]
                                       ELSE IF revision'[b] = 0 THEN 1 ELSE revision'[b]]
  BY DEF AskedFor
<1> DEFINE unmoved == AskedFor'[Followed] = AskedFor[Followed]
                      /\ (IF outcome'[Followed] = "none" THEN "open" ELSE outcome'[Followed])
                           = (IF outcome[Followed] = "none" THEN "open" ELSE outcome[Followed])
           moved == AskedFor'[Followed] = AskedFor[Followed] + 1
                    /\ (IF outcome'[Followed] = "none" THEN "open" ELSE outcome'[Followed]) = "open"
<1>4. moved \/ unmoved
  <2>1. revision[b] \in Nat /\ revision'[b] = IF b = a THEN revision[b] + 1 ELSE revision[b]
    BY <1>0, <1>1 DEF TypeOK
  <2>2. CASE b # a
    <3>1. requested'[<<t, b>>] = requested[<<t, b>>] /\ outcome'[<<t, b>>] = outcome[<<t, b>>]
      BY <2>2, ChangeRequests
    <3> QED
      BY <1>2, <1>3, <2>1, <2>2, <3>1
  <2>3. CASE b = a /\ t \notin change[a].sees
    <3>1. requested'[<<t, b>>] = requested[<<t, b>>] /\ outcome'[<<t, b>>] = outcome[<<t, b>>]
      BY <2>3, ChangeRequests
    <3> QED
      BY <1>2, <1>3, <2>1, <2>3, <3>1
  <2>4. CASE b = a /\ t \in change[a].sees
    <3>1. requested'[<<t, b>>] = revision[b] + 1 /\ outcome'[<<t, b>>] = "open"
      BY <2>4, ChangeRequests
    <3>2. CASE outcome[<<t, b>>] = "none"
      BY <1>2, <1>3, <2>1, <3>1, <3>2
    <3>3. CASE outcome[<<t, b>>] # "none"
      <4>1. b \in Existing
        BY <1>0, <3>3 DEF RowsComeWithArticles
      <4>2. role[t] \in {"current", "replacement"}
        BY <2>4 DEF CommitChange, IndInv, OpenChangesSeeFed, Fed
      <4>3. requested[<<t, b>>] = revision[b]
        BY <3>3, <4>1, <4>2
        DEF CurrentMissesNothing, IndInv, RolesFollow, BuildingMissesNothing
      <4> QED
        BY <1>2, <1>3, <2>1, <3>1, <3>3, <4>3
    <3> QED
      BY <3>2, <3>3
  <2> QED
    BY <2>2, <2>3, <2>4
<1>5. CASE unmoved
  <2>1. AskedFor' = AskedFor
    BY <1>2, <1>3, <1>5
  <2> QED
    BY <1>1, <1>5, <2>1 DEF Promise!vars
<1>6. CASE moved
  <2>1. AskedFor' = [AskedFor EXCEPT ![Followed] = @ + 1]
    BY <1>2, <1>3, <1>6
  <2> QED
    BY <1>1, <1>6, <2>1 DEF Promise!Request
<1> QED
  BY <1>4, <1>5, <1>6

\* The scan inserts a row with the revision it was owed.
LEMMA PromiseOfBatch ==
  ASSUME Followed \in Deliveries, IndInv, RowsComeWithArticles,
         NEW c \in Coordinators, NEW batch \in SUBSET Articles, ScanBatch(c, batch)
  PROVE  UNCHANGED Promise!vars
<1> PICK t \in Indices, b \in Articles : Followed = <<t, b>>
  BY DeliveryPairs
<1>0. TypeOK /\ <<t, b>> \in Deliveries
  BY DeliveryPairs DEF IndInv
<1>1. revision' = revision /\ indexed' = indexed /\ stored' = stored
  BY DEF ScanBatch
<1>2. b \in batch => revision[b] > 0
  BY DEF ScanBatch, IsBatch, Beyond, Existing
<1>3. \/ requested'[<<t, b>>] = requested[<<t, b>>] /\ outcome'[<<t, b>>] = outcome[<<t, b>>]
      \/ /\ b \in batch /\ outcome[<<t, b>>] = "none"
         /\ requested'[<<t, b>>] = revision[b] /\ outcome'[<<t, b>>] = "open"
  BY BatchRequests
<1>4. AskedFor' = AskedFor
  BY <1>0, <1>1, <1>2, <1>3 DEF AskedFor, TypeOK
<1>5. (IF outcome'[Followed] = "none" THEN "open" ELSE outcome'[Followed])
        = (IF outcome[Followed] = "none" THEN "open" ELSE outcome[Followed])
  BY <1>3
<1> QED
  BY <1>1, <1>4, <1>5 DEF Promise!vars

\* What the queue does to a row is what it promised to.
LEMMA PromiseOfQueue ==
  ASSUME Followed \in Deliveries, IndInv, RowsComeWithArticles, NEW d \in Deliveries, QueueStep(d)
  PROVE  \/ Promise!Land(Followed) \/ Promise!Done(Followed)
         \/ Promise!GiveUp(Followed) \/ Promise!Retry(Followed)
         \/ UNCHANGED Promise!vars
<1>0. TypeOK
  BY DEF IndInv
<1>1. requested' = requested /\ revision' = revision
  BY <1>0, QueueSteps DEF QueueStep
<1>2. AskedFor' = AskedFor
  <2>1. outcome'[Followed] = "none" <=> outcome[Followed] = "none"
    BY <1>0, QueueSteps
  <2> QED
    BY <1>1, <2>1 DEF AskedFor
<1>3. CASE d # Followed
  <2>1. /\ indexed'[Followed] = indexed[Followed] /\ stored'[Followed] = stored[Followed]
        /\ outcome'[Followed] = outcome[Followed]
    BY <1>0, <1>3 DEF QueueStep, Queue!Land, Queue!Done, Queue!GiveUp, Queue!Retry, TypeOK
  <2> QED
    BY <1>2, <2>1 DEF Promise!vars
<1>4. CASE d = Followed
  <2>1. outcome[Followed] # "none"
    <3>1. CASE Queue!Land(d)
      BY <1>4, <3>1, <1>0 DEF Queue!Land, RowsComeWithArticles
    <3>2. CASE Queue!Done(d) \/ Queue!GiveUp(d) \/ Queue!Retry(d)
      BY <1>4, <3>2 DEF Queue!Done, Queue!GiveUp, Queue!Retry
    <3> QED
      BY <3>1, <3>2 DEF QueueStep
  <2>2. AskedFor[Followed] = requested[Followed]
    BY <2>1 DEF AskedFor
  <2>3. CASE Queue!Land(d)
    <3>1. PICK r \in (stored[d] + 1)..requested[d] : stored' = [stored EXCEPT ![d] = r]
      BY <2>3 DEF Queue!Land
    <3>2. indexed' = indexed /\ outcome' = outcome
      BY <2>3 DEF Queue!Land
    <3> QED
      BY <1>0, <1>2, <1>4, <2>2, <3>1, <3>2 DEF Promise!Land, TypeOK
  <2>4. CASE Queue!Done(d)
    <3>1. /\ outcome[d] = "open" /\ stored[d] = requested[d] /\ stored' = stored
          /\ indexed' = [indexed EXCEPT ![d] = requested[d]]
          /\ outcome' = [outcome EXCEPT ![d] = "done"]
      BY <2>4 DEF Queue!Done
    <3> QED
      BY <1>0, <1>2, <1>4, <2>2, <3>1 DEF Promise!Done, TypeOK
  <2>5. CASE Queue!GiveUp(d)
    BY <1>0, <1>2, <1>4, <2>5 DEF Queue!GiveUp, Promise!GiveUp, TypeOK
  <2>6. CASE Queue!Retry(d)
    BY <1>0, <1>2, <1>4, <2>6 DEF Queue!Retry, Promise!Retry, TypeOK
  <2> QED
    BY <2>3, <2>4, <2>5, <2>6 DEF QueueStep
<1> QED
  BY <1>3, <1>4

\* Every row of the rebuild's queue is a delivery as IndexDelivery promises it, from
\* before the row is inserted and across every cutover: requested one revision at a
\* time, delivered in order, done only when the index holds what was asked for
\* (request_indexing, scan_rebuild and the queue's workers together).
THEOREM EachRowIsADelivery ==
  ASSUME OneAtATime, Followed \in Deliveries PROVE Spec => Promise!Spec
<1>1. Init => Promise!Init
  <2> SUFFICES ASSUME Init PROVE Promise!Init
    OBVIOUS
  <2>1. /\ outcome[Followed] = "none" /\ indexed[Followed] = 0 /\ stored[Followed] = 0
        /\ revision[Followed[2]] = 0
    BY DeliveryPairs DEF Init
  <2>2. AskedFor \in [{Followed} -> Nat \ {0}]
    BY <2>1 DEF AskedFor
  <2> QED
    BY <2>1, <2>2 DEF Promise!Init
<1>2. ASSUME IndInv, CurrentMissesNothing, RowsComeWithArticles, [Next]_vars
      PROVE  [Promise!Next]_(Promise!vars)
  <2>1. ASSUME NEW a \in Articles, CommitChange(a) PROVE [Promise!Next]_(Promise!vars)
    BY <1>2, <2>1, PromiseOfChange DEF Promise!Next
  <2>2. ASSUME NEW c \in Coordinators, NEW batch \in SUBSET Articles, ScanBatch(c, batch)
        PROVE  [Promise!Next]_(Promise!vars)
    BY <1>2, <2>2, PromiseOfBatch
  <2>3. ASSUME NEW d \in Deliveries, QueueStep(d) PROVE [Promise!Next]_(Promise!vars)
    BY <1>2, <2>3, PromiseOfQueue DEF Promise!Next
  <2>4. ASSUME revision' = revision, UNCHANGED queueVars PROVE [Promise!Next]_(Promise!vars)
    BY <2>4 DEF queueVars, Promise!vars, AskedFor
  <2> QED
    BY <1>2, <2>1, <2>2, <2>3, <2>4, OtherStepsSpareRows
<1> QED
  BY <1>1, <1>2, IndInit, IndStep, AloneInit, AloneStep, RowsInit, RowsStep, PTL
  DEF Spec, Promise!Spec
=============================================================================
