SPECIFICATION FairSpec
CONSTANTS
  FifoLen = 1
  RxLen = 2
  Trigger = 0
  HighWater = 1
  MaxOut = 2
  MaxIn = 2
  MaxCtl = 1
INVARIANT ControlAsOrdered
PROPERTIES OutputDrains InputDelivered HandlerRests
CHECK_DEADLOCK FALSE
