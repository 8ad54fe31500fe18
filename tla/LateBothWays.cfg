SPECIFICATION OrderSpec
CONSTANTS
  w1 = w1
  w2 = w2
  Workers <- TwoWorkers
  Finalizers <- TwoWorkers
  Cancellers <- NoWorkers
  Amounts <- RightAmount
  Crashing <- NoWorkers
  Nobody = Nobody
INVARIANT LatePaymentsSettleOneWay
CHECK_DEADLOCK FALSE
