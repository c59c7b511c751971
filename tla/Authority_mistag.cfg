SPECIFICATION Spec
CONSTANTS
  LastName = 3
  Spelling <- MCSpelling
  NewNames = {}
  LastArticle = 2
  Readings <- MCReadings
  FirstReading <- MCFirstReadingTwice
  Qids = {1}
  BatchSize = 1
  Parallel = FALSE
  Impatient = FALSE
  MaxRequests = 2
  MaxReadings = 0
INVARIANT MentionsKeepTheirName
CHECK_DEADLOCK FALSE
