SPECIFICATION Spec
CONSTANTS
  FeedCount = 1
  Window = 2
  Cap = 1
  MaxArticles = 3
  Tasks = {t1, t2}
  MaxRestarts = 1
  MayFail = TRUE
  HasBackend = TRUE
SYMMETRY Symmetry
PROPERTIES
  NothingIsBriefedTwice
  RestartKeepsBriefing
