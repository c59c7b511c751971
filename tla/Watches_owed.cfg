\* A message that is sent while another match is counted.
CHECK_DEADLOCK FALSE
SPECIFICATION Spec
CONSTANTS
  None = None
  WatchArticles = {a1, a2}
  Criteria = {c1}
  MatchedBy <- EitherMatches
  WatchTokens = {t1, t2}
  Evaluators = {e1}
  LastMoment = 3
  Settle = 1
  IndexKeepsUp = TRUE
INVARIANT NothingOwedIsForgotten
