SPECIFICATION Spec
CONSTANTS
  NUM_TX_DESC = 2
  NUM_RX_DESC = 1
  Mbufs = {m1, m2}
  NULL = NULL
  MaxSnd = 1
  RxErrors = TRUE
SYMMETRY MbufSymmetry
INVARIANTS TypeOK StoppedRingClear
CONSTRAINT NoDoubleFree
