SPECIFICATION PhaseSpec
CONSTANTS
  w1 = w1
  w2 = w2
  f1 = f1
  c1 = c1
  Workers <- TwoWorkers
  Finalizers <- TwoWorkers
  Cancellers <- NoWorkers
  Amounts <- BothAmounts
  Crashing <- OnlyW2
  Nobody = Nobody
  Finalisers <- OneFinaliser
  ParcelCancellers <- OneCanceller
  Droppable <- PaidOnly
  MaxHolds = 2
INVARIANTS
  BooksMatchProvider
  PayableFeeIsCurrent
  DeliveryIsFunded
  OnlyUnwantedFeesGoBack
PROPERTIES
  PendingOrdersEnd
  KeepsFeeRefundContract
  PaidFeesAreBooked
CHECK_DEADLOCK FALSE
