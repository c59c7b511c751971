SPECIFICATION Spec
CONSTANTS
  LastName = 3
  Spelling <- MCSpelling
  NewNames = {}
  LastArticle = 2
  Readings <- MCReadings
  FirstReading <- MCFirstReadingLate
  Qids = {1}
  BatchSize = 1
  Parallel = FALSE
  Impatient = TRUE
  MaxRequests = 2
  MaxReadings = 0
INVARIANT MentionsAreKept
CHECK_DEADLOCK FALSE
