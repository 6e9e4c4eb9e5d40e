SPECIFICATION FairSpec
CONSTANTS
  Words = 7
  Chunk = 4
  Requests <- SomeRequests
INVARIANTS ReadReturnsFlash WrittenUntilEarly AcknowledgedUntilEarly
PROPERTY OperationReturns
