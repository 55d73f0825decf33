CONSTANTS
  Targets = {a, b}
  Keys = {k1}
  Timers = {t1, t2}
  Settings <- FrameSettings
  Deltas = {1}
  Reentrant = {"Unschedule"}
  None = None
SPECIFICATION Spec
PROPERTIES
  EveryFrame
CHECK_DEADLOCK FALSE
