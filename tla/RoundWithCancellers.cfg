SPECIFICATION Spec
CONSTANTS
  o1 = o1
  o2 = o2
  a1 = a1
  a2 = a2
  c1 = c1
  Nobody = Nobody
  Orders <- OneOrder
  Administrators <- TwoAdministrators
  Cancellers <- OneCanceller
  Faulty <- AllRequests
  LatePayers <- OneOrder
  Holdable <- OneOrder
INVARIANTS
  CancelledRoundIsSettled
  DeliveredOrdersKeepTheirMoney
