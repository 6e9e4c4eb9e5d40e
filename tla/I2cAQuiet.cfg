SPECIFICATION Spec
CONSTANTS
  MaxLen = 3
  Faults = {"hang"}
  Late = FALSE
  SendAfterHeld = FALSE
INVARIANTS NoOverrun DoneMeansMoved
PROPERTIES BufferPrivate
