SPECIFICATION OrderSpec
CONSTANTS
  w1 = w1
  w2 = w2
  Workers <- TwoWorkers
  Finalizers <- OnlyW1
  Cancellers <- OnlyW2
  Amounts <- RightAmount
  Crashing <- NoWorkers
  Nobody = Nobody
PROPERTY CancellationsAreNotReverted
CHECK_DEADLOCK FALSE
