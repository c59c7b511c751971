\* Two indices, one after the other, and one coordinator at a time, which may die
\* and be started again at any point.
\* Checking deadlock is off: with every change made and delivered and both
\* indices used nothing has to happen any more.
CHECK_DEADLOCK FALSE
SPECIFICATION FairSpec
CONSTANTS
  None = None
  t1 = t1  t2 = t2  c1 = c1  c2 = c2
  Indices <- Indices2
  LastArticle = 1
  Coordinators = {c1}
  BatchSize = 1
  MaxRevision = 2
INVARIANTS
  TypeOK
  SearchIsServed
  FedIndexMissesNothing
  CaughtUpBeforeCutover
PROPERTIES
  RebuildCompletes
