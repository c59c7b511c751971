SPECIFICATION ServicesSpec
CONSTANTS
  None = None
  WatchArticles = {a1, a2}
  Criteria = {c1, c2}
  MatchedBy <- MCMatchedBy
  WatchTokens = {t1, t2}
  Evaluators = {e1}
  LastMoment = 3
  Settle = 1
  IndexKeepsUp = TRUE
  FetchTokens = {f1, f2}
  Addresses = {"u1", "u2"}
  FirstAddress = "u1"
  LastEdition = 1
  ETags = TRUE
  Editions <- MCEditions
  Entries = {"e1", "e1b", "e2", "e3", "bad"}
  GuidOf <- MCGuidOf
  ArticleOf <- MCArticleOf
  q1 = q1
  q2 = q2
  LastRoot = 2
  Items = {q1}
  TurnsInto <- MCTurnsInto
  FoundFor <- MCFoundFor
  LabelOf <- MCLabelOf
  TypeOf <- MCTypeOf
  RunTokens = {w1, w2}
  MaxRuns = 2
  DailyBudget = 1
  SweepBatch = 1
  Observed = {"articles", "nlp", "clustering", "search", "feeds", "monitors", "reprocessing", "authority", "rebuild", "source_refresh", "events", "retention", "wikidata_refresh", "wikidata_candidates"}
  Things = {"t1"}
  LastHour = 3
  MaxRows = 3
  WindowHours = 1
  KeepHours = 1
  LastArticle = 3
  LastStory = 2
  LastSource = 2
  LastName = 3
  LastEvent = 2
  LastDay = 2
  FirstDay = 1
  CountryOf <- MCCountryOf
  KindOf <- MCKindOf
  ScoreOf <- MCScoreOf
  FirstFacts <- MCFirstFacts
  FirstEvents <- MCFirstEvents
  Requests <- MCRequests
  PageSize = 1
  MostBuckets = 1
  MostNodes = 2
  MostNeighbours = 1
  MostEdges = 2
  LeastWeight = 1
  MaxHappened = 2
SYMMETRY Tokens
INVARIANT RedIsRecent
CHECK_DEADLOCK FALSE
