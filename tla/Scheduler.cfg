CONSTANTS
  Targets = {a, b}
  Keys = {k1, k2}
  Timers = {t1, t2}
  Settings <- SafetySettings
  Deltas = {1, 2}
  Reentrant <- Operations
  None = None
SPECIFICATION FairSpec
INVARIANTS
  RefsExact
  WalkExact
  NoEmptyEntry
  RepeatsBounded
PROPERTIES
  UpdateReturns
CHECK_DEADLOCK FALSE
