CONSTANTS
  CounterMod = 8
  MaxUnread = 5
  JoinBeforeRestart = TRUE
SPECIFICATION FairSpec
INVARIANTS
  CountsExact
  TwoMessagesToExecute
PROPERTIES
  ImplementsSPSCQueue
  KickServed
