CONSTANTS
  Clients = {h1, h2}
  Queued = {r1, r2}
  Immediate = {r3}
  Sentinel = sentinel
  None = None
  CountedInTime = TRUE
SPECIFICATION Spec
INVARIANTS
  DeletedByTheLast
  FunctionsHaveClient
  InOrderOnce
  RefsExact
PROPERTIES
  SentAnswered
  DestroyedDeleted
CHECK_DEADLOCK FALSE
