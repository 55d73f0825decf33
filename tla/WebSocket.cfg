CONSTANTS
  NumSockets = 2
  NumMessages = 2
  Fragments = 2
  EarlyClose = FALSE
SPECIFICATION Spec
INVARIANTS
  EventsInOrder
  DeletedSilent
  SentInOrder
PROPERTY
  CloseAnswered
CHECK_DEADLOCK FALSE
