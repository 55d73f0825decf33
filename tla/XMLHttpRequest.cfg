CONSTANTS
  NumSends = 3
  NumAborts = 2
SPECIFICATION Spec
INVARIANTS
  AnswerIsCurrent
  TimerIsOwn
  RootsExact
  OneOutcome
PROPERTY
  SendEnds
CHECK_DEADLOCK FALSE
