SPECIFICATION RedeliverySpec
CONSTANTS
  f1 = f1
  c1 = c1
  Finalisers <- OneFinaliser
  ParcelCancellers <- OneCanceller
  Droppable <- NoNotice
  MaxHolds = 1
INVARIANT CompletedCancellationReturnedTheFee
CHECK_DEADLOCK FALSE
