CONSTANTS
  Posters = {p1, p2}
  Main = main
  NoThread = NoThread
  MaxPosts = 2
  MaxClears = 1
SPECIFICATION PerformSpec
INVARIANTS
  HandedOverOnce
PROPERTIES
  PostedRuns
CHECK_DEADLOCK FALSE
