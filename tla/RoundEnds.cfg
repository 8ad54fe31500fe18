SPECIFICATION EndSpec
CONSTANTS
  o1 = o1
  o2 = o2
  a1 = a1
  a2 = a2
  c1 = c1
  r1 = r1
  s1 = s1
  Nobody = Nobody
  Orders <- OneOrder
  Administrators <- TwoAdministrators
  Cancellers <- Nothing
  Faulty <- OnlyA2
  LatePayers <- OneOrder
  Holdable <- Nothing
  Refunders <- OneRefunder
  SaleCancellers <- OneSaleCanceller
INVARIANTS
  CancelledRoundIsClosed
  RefundsReachTheBooks
  SellerRefundsNeedNoRecovery
  DeliveredGoodsAreNotRestocked
PROPERTIES
  CancellationEnds
  PayoutsAreForKeptMoney
  StartedRefundsEnd
