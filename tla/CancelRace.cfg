SPECIFICATION OrderSpec
CONSTANTS
  w1 = w1
  w2 = w2
  Workers <- TwoWorkers
  Finalizers <- OnlyW1
  Cancellers <- OnlyW2
  Amounts <- BothAmounts
  Crashing <- TwoWorkers
  Nobody = Nobody
INVARIANTS
  DeliveredOrdersArePaid
  MoneyIsAccountedFor
CHECK_DEADLOCK FALSE
