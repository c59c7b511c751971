\* The rebuild is resumed twice at the same time.
CHECK_DEADLOCK FALSE
SPECIFICATION Spec
CONSTANTS
  None = None
  t1 = t1  t2 = t2  c1 = c1  c2 = c2
  Indices = {t1}
  LastArticle = 1
  Coordinators = {c1, c2}
  BatchSize = 1
  MaxRevision = 1
INVARIANTS
  SearchedIndexIsFed
