SPECIFICATION Spec
CONSTANTS
  LastName = 3
  Spelling <- MCSpelling
  NewNames = {3}
  LastArticle = 2
  Readings <- MCReadings
  FirstReading <- MCFirstReading
  Qids = {1}
  BatchSize = 1
  Parallel = FALSE
  Impatient = FALSE
  MaxRequests = 2
  MaxReadings = 1
INVARIANTS TypeOK VariantPointsAtRoot MentionsAreKept QuietArchiveAgrees
PROPERTIES SearchKeepsFindingArticles EveryRunFinishes
CHECK_DEADLOCK FALSE
