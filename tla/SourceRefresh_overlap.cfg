\* Renames may begin while a refresh is running.
SPECIFICATION Spec
CONSTANTS
  LastArticle = 3
  BatchSize = 1
  MaxName = 2
INVARIANTS
  QuietIndexShowsSourceName
