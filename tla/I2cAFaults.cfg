SPECIFICATION FairSpec
CONSTANTS
  MaxLen = 1
  Faults = {"nack", "arbl", "hang"}
  Late = TRUE
  SendAfterHeld = TRUE

PROPERTIES TransferReturns
