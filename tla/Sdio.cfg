SPECIFICATION FairSpec
CONSTANTS
  MaxChanges = 3
  Retries = 1
  Clks = 2
INVARIANTS OneCommandAtATime DeviceOutlivesItsThread CompletionIsOwn NoStaleCardUntilRaced
PROPERTY RemovalEnds
CHECK_DEADLOCK FALSE
