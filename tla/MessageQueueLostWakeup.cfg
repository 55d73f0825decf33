CONSTANTS
  CounterMod = 7
  MaxUnread = 4
  JoinBeforeRestart = TRUE
SPECIFICATION FairSpec
PROPERTIES
  BlockedUntilFinished
