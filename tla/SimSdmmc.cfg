SPECIFICATION FairSpec
CONSTANTS
  c1 = c1
  c2 = c2
  Ccb <- Clients
  Asked <- AskedBy
  MaxPulses = 2
INVARIANTS RightPartition LossProtects SyncDurable
PROPERTIES RequestPosted GoesIdle
CHECK_DEADLOCK FALSE
