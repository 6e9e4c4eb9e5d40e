SPECIFICATION RunFairSpec
CONSTANTS
  NUM_TX_DESC = 2
  NUM_RX_DESC = 1
  Mbufs = {m1, m2, m3}
  NULL = NULL
  MaxSnd = 1
  RxErrors = FALSE
PROPERTIES RxRestarts TxProgress
