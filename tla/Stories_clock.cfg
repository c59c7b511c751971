\* Three articles, and two assignments open at a time.
CONSTANTS
  None = None
  a1 = a1
  a2 = a2
  a3 = a3
  a4 = a4
  f1 = f1
  f2 = f2
  Articles = {a1, a2, a3}
  Feeds = {f1, f2}
  FirstFeeds <- TwoOutlets
  Similarities <- AnyPairs
  Stories = {s1, s2}
  Events = {e1, e2}
  Workers = {w1, w2}
  Changes = 2
SPECIFICATION Spec
INVARIANT ChangedStoryIsDirty
CHECK_DEADLOCK FALSE
