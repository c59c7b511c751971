\* Batches of one, two and three articles end differently; two renames may overlap.
SPECIFICATION FairSpec
CONSTANTS
  LastArticle = 3
  BatchSize = 2
  MaxName = 2
INVARIANTS
  TypeOK
  FinishedRefreshAskedForAll
PROPERTIES
  RefreshedNameReachesIndex
