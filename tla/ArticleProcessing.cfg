\* The article rests when every job it may have has ended.
CHECK_DEADLOCK FALSE
SPECIFICATION FairSpec
CONSTANTS
  None = None
  w1 = w1  w2 = w2  k1 = k1  k2 = k2  r1 = r1  r2 = r2  h1 = h1  h2 = h2  
  Workers = {w1, w2}
  Tokens = {k1, k2}
  Requests = {r1}
  Keys = {h1, h2}
  StageAttempts = 2
  BatchSize = 1
  MaxJobs = 2
INVARIANTS
  TypeOK
  RetainedHtmlExists
PROPERTIES
  ReferredPageIsNotDeleted
  PageSettles
