SPECIFICATION Spec
CONSTANTS
  LastName = 3
  Spelling <- MCSpelling
  NewNames = {3}
  LastArticle = 2
  Readings <- MCReadings
  FirstReading <- MCFirstReading
  Qids = {1}
  BatchSize = 1
  Parallel = FALSE
  Impatient = TRUE
  MaxRequests = 2
  MaxReadings = 0
PROPERTY EveryRunFinishes
CHECK_DEADLOCK FALSE
