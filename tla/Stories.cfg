\* Four articles, so that two stories may meet; one assignment is open at a time.
CONSTANTS
  None = None
  a1 = a1
  a2 = a2
  a3 = a3
  a4 = a4
  f1 = f1
  f2 = f2
  Articles = {a1, a2, a3, a4}
  Feeds = {f1, f2}
  FirstFeeds <- Alternating
  Similarities <- InARow
  Stories = {s1, s2, s3}
  Events = {e1, e2, e3}
  Workers = {w1}
  Changes = 3
SPECIFICATION Spec
INVARIANTS
  TypeOK
  StoriesCountTheirArticles
  MovedArticlesAreIndexed
PROPERTIES
  EventsSettle
