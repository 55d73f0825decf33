CONSTANTS
  NumSockets = 2
  NumMessages = 1
  Fragments = 1
  EarlyClose = TRUE
SPECIFICATION Spec
PROPERTY
  CloseAnswered
CHECK_DEADLOCK FALSE
