SPECIFICATION RunSpec
CONSTANTS
  NUM_TX_DESC = 3
  NUM_RX_DESC = 2
  Mbufs = {m1, m2, m3, m4}
  NULL = NULL
  MaxSnd = 1
  RxErrors = TRUE
SYMMETRY MbufSymmetry
INVARIANTS NoDoubleFree DmaSafe NoLeak OactiveHasWakeup NoStrandedFrame
